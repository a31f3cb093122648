SPECIFICATION Spec
CONSTANTS
  Shards = {s1, s2}
  Rest = rest
  MaxPush = 3
SYMMETRY MCSymmetry
INVARIANTS TypeOK ListIsIntact EmptyIsRight
PROPERTIES NeverOntoFreed NoEntryTwice ScanMissesNothing
CHECK_DEADLOCK FALSE
