SPECIFICATION Spec
CONSTANTS
  Shards = {s1}
  Rest = rest
  MaxPush = 3
INVARIANT PushedIsListed
CHECK_DEADLOCK FALSE
