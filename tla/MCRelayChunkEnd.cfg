SPECIFICATION Spec
CONSTANTS
  Origin <- OnlyChunked
  BufSize = 12
INVARIANT EndIsSeen
CHECK_DEADLOCK FALSE
