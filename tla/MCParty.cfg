SPECIFICATION Spec
CONSTANTS
  ann = ann
  bob = bob
  cat = cat
  heap1 = heap1
  heap2 = heap2
  Player = {ann, bob, cat}
  Address = {heap1, heap2}
  None = None
  Exempt = {cat}
  Vetoes = {}
SYMMETRY Symmetry
INVARIANTS Mutual InGame NeverAlone SharedByFighters
