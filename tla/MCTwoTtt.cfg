SPECIFICATION Spec
CONSTANTS
  ann = ann
  bob = bob
  cat = cat
  dan = dan
  robot = robot
  Users <- MCUsers
  NoUser = NoUser
  Bots = {dan, robot}
  Mentions <- TwoMentions
  MaxTtt = 2
  MaxInFlight = 1
  Aim <- AimWins
  Faulty = TRUE
INVARIANTS EraseOnlyFinished EntryInv
PROPERTIES FollowsLifecycle OnlyTheClickedEntry
CHECK_DEADLOCK FALSE
