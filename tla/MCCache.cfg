SPECIFICATION MCSpec
CONSTANTS
  Keys = {k1, k2, k3, k4}
  Nodes = {n1, n2, n3, n4}
  Responses = {r1, r2, r3, r4}
  head = head
  tail = tail
  NULL = null
  Capacity = 3
INVARIANTS
  TypeOK
  WellLinked
  MapMatchesNodes
  OwnsLiveResponses
  RecentlyUsedIsCached
PROPERTY ImplementsLRU
