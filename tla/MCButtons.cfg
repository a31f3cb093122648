SPECIFICATION Spec
CONSTANTS
  s1 = s1
  s2 = s2
  ann = ann
  bob = bob
  Shards = {s1, s2}
  Players = {ann, bob}
  Order <- MCOrder
  CellIds = 1
  MaxCmd = 2
  MaxRestart = 1
SYMMETRY MCSymmetry
INVARIANTS TypeOK ForeignPressHasCause OriginIsOwn
CHECK_DEADLOCK FALSE
