SPECIFICATION FairSpec
CONSTANTS
  Origin <- AllKinds
  BufSize = 12
INVARIANTS
  TypeOK
  SentInOrder
  KeptIsSent
  WholeWhenReturned
  EndHasCause
PROPERTY RelayEnds
CHECK_DEADLOCK FALSE
