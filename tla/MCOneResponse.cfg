SPECIFICATION Spec
CONSTANTS
  Keys = {k1}
  Requests = {q1, q2}
  Responses = {q1, q2}
  NULL = null
  Capacity = 1
  Absent = absent
  Unreadable = unreadable
  OriginHeaders <- Races
  StaleTimes = {0}
  MaxTime = 2
INVARIANT OneResponse
