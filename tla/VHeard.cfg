SPECIFICATION Spec
CONSTANTS
  ann = ann
  bob = bob
  cat = cat
  dan = dan
  robot = robot
  Users <- MCUsers
  NoUser = NoUser
  Bots = {robot}
  Mentions <- OtherMention
  MaxTtt = 2
  MaxInFlight = 1
  Aim <- AimTouch
  Faulty = FALSE
PROPERTY PressIsHeard
CHECK_DEADLOCK FALSE
