SPECIFICATION Spec
CONSTANTS
  Origin <- Kinds
  Absent = Absent
  BufSize = 8
  ChunkSize = 3
  Remains = {0, 1, 5}
  MaxInt = 31
INVARIANTS
  SentIsReceived
  LossHasCause
PROPERTY PostEnds
CHECK_DEADLOCK FALSE
