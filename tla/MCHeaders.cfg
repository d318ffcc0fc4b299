SPECIFICATION FairSpec
CONSTANTS
  Keys = {k1, k2}
  Requests = {q1, q2}
  Responses = {q1, q2}
  NULL = null
  Capacity = 2
  Absent = absent
  Unreadable = unreadable
  OriginHeaders <- Kinds
  StaleTimes = {0, 1}
  MaxTime = 2
INVARIANTS
  SharedAnswersAreShareable
  UnaskedAnswersAreFresh
  OnlyUncacheableLeaks
PROPERTY RequestsAreAnswered
