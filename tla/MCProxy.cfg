SPECIFICATION FairSpec
CONSTANTS
  Connections = {c1, c2, c3}
  Kinds <- MixedKinds
  FdLimit = 3
  FdSetSize = 2
INVARIANTS
  TypeOK
  IdsFollowAcceptance
  OnlyRacedAreLost
  EndOfProcessHasCause
PROPERTY ConnectionsAreHandled
ACTION_CONSTRAINT InOrder
CHECK_DEADLOCK FALSE
