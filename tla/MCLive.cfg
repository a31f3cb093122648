SPECIFICATION FairSpec
CONSTANTS
  ann = ann
  bob = bob
  cat = cat
  dan = dan
  robot = robot
  Users <- MCUsers
  NoUser = NoUser
  Bots = {dan, robot}
  Mentions <- OneMention
  MaxTtt = 1
  MaxInFlight = 2
  Aim <- AimRows
  Faulty = FALSE
INVARIANTS EndedIsOnItsWay PressIsOnItsWay
PROPERTIES FinishedIsErased PressIsAnswered
CHECK_DEADLOCK FALSE
