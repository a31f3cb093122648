SPECIFICATION Spec
CONSTANTS
  ann = ann
  bob = bob
  cat = cat
  dan = dan
  robot = robot
  Users <- MCUsers
  NoUser = NoUser
  Bots = {dan, robot}
  Mentions <- OneMention
  MaxTtt = 1
  MaxInFlight = 2
  Aim <- AimRows
  Faulty = FALSE
INVARIANT WinnerIsNamed
CHECK_DEADLOCK FALSE
