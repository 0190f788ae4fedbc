SPECIFICATION Spec
CONSTANTS
  dracola = dracola
  tyrn = tyrn
  Raid = {dracola, tyrn}
  Repeats = {tyrn}
  Length <- LengthValue
  MaxReloads = 1
  MaxEvents = 3
  None = None
INVARIANT OneAtATime
