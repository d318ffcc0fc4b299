SPECIFICATION FairSpec
CONSTANTS
  RecvSize = 2
  Window = 2
  MaxBytes = 4
INVARIANTS
  TypeOK
  PassedInOrder
  EndsForACause
PROPERTY EverythingIsPassed
CHECK_DEADLOCK FALSE
