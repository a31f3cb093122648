SPECIFICATION Spec
CONSTANTS
  Users = {alice, bob, carol}
  NoUser = NoUser
  Player1 = alice
  Player2 = bob
INVARIANTS TypeOK ResultIsRight AgreesWithMagic TurnsAreFair
PROPERTY NothingIsTakenBack
CHECK_DEADLOCK FALSE
