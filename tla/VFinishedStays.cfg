SPECIFICATION FairSpec
CONSTANTS
  ann = ann
  bob = bob
  cat = cat
  dan = dan
  robot = robot
  Users <- MCUsers
  NoUser = NoUser
  Bots = {robot}
  Mentions <- OtherMention
  MaxTtt = 2
  MaxInFlight = 1
  Aim <- AimWins
  Faulty = FALSE
PROPERTY FinishedIsErased
CHECK_DEADLOCK FALSE
