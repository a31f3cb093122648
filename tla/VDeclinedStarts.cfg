SPECIFICATION Spec
CONSTANTS
  ann = ann
  bob = bob
  cat = cat
  dan = dan
  robot = robot
  Users <- MCUsers
  NoUser = NoUser
  Bots = {dan, robot}
  Mentions <- OneMention
  MaxTtt = 1
  MaxInFlight = 1
  Aim <- AimTouch
  Faulty = FALSE
INVARIANT DeclinedNeverStarts
CHECK_DEADLOCK FALSE
