SPECIFICATION Spec
CONSTANTS
  ann = ann
  bob = bob
  cat = cat
  bag = bag
  box = box
  coin = coin
  Player = {ann, bob, cat}
  Item = {bag, box, coin}
  Bag = {bag, box}
  Stackable = {coin}
  Deed = Deed
  Ground = Ground
  None = None
INVARIANTS TypeOK Mutual OffersDisjoint Exchanged DeedIsOffered
