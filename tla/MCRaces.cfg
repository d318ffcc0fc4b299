SPECIFICATION Spec
CONSTANTS
  Keys = {k1, k2}
  Requests = {q1, q2, q3}
  Responses = {q1, q2, q3}
  NULL = null
  Capacity = 1
  Absent = absent
  Unreadable = unreadable
  OriginHeaders <- Races
  StaleTimes = {0}
  MaxTime = 2
SYMMETRY Symmetric
INVARIANTS
  TypeOK
  OrderMatchesMap
  WithinCapacity
  CachedIsServable
  DanglingNeedsARace
  AnswerCount
