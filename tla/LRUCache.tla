------------------------------- MODULE LRUCache -------------------------------
(***************************************************************************)
(* What class Cache (cache.h, cache.cpp) promises to the request handlers: *)
(* a map from request lines to responses that holds at most Capacity       *)
(* entries and, when a new key finds it full, drops the entry whose last   *)
(* put or successful find is the oldest.  Every member function holds      *)
(* mutex_ from its first statement to its last, so each one is one step.   *)
(*                                                                         *)
(* Module Cache shows that the hash map and the doubly linked list of the  *)
(* code implement this; module GetHandler runs the handlers against it.    *)
(***************************************************************************)
EXTENDS Naturals, SequencesExt

CONSTANTS
  Keys,       \* request lines, the keys of cache_
  Responses,  \* HttpResponse objects, named by their address
  NULL,       \* the null HttpResponse pointer
  Capacity    \* Cache::capacity, 100 in the constructor

ASSUME CapacityAssumption == Capacity \in Nat \ {0}
ASSUME NullAssumption == NULL \notin Responses

VARIABLES
  recency,    \* the cached keys, most recently used first
  holds       \* holds[k]: the response cached under k, NULL when there is none

lruVars == <<recency, holds>>

LRUInit ==
  /\ recency = <<>>
  /\ holds = [k \in Keys |-> NULL]

Cached == {k \in Keys : holds[k] # NULL}

-------------------------------------------------------------------------------
Position(k) == CHOOSE i \in 1 .. Len(recency) : recency[i] = k

\* Definitions named "Buggy..." are slips the code could have; a run that
\* replaces the definition below by one of them finds a property violated.
BuggyMovedToFront(k) == <<k>> \o recency  \* removeNode is missing

MovedToFront(k) == <<k>> \o RemoveAt(recency, Position(k))

\* Cache::find is a use of the entry it finds.  What it returns is holds[k].
Find(k) ==
  /\ recency' = IF k \in Cached THEN MovedToFront(k) ELSE recency
  /\ UNCHANGED holds

\* The three cases of Cache::put: the key is cached and its response is
\* replaced, there is room for a new key, or the new key drops the last one.
Replace(k, r) ==
  /\ k \in Cached
  /\ recency' = MovedToFront(k)
  /\ holds' = [holds EXCEPT ![k] = r]

BuggyInsert(k, r) ==  \* the size is tested before the entry is added
  /\ k \notin Cached
  /\ Len(recency) <= Capacity
  /\ recency' = <<k>> \o recency
  /\ holds' = [holds EXCEPT ![k] = r]

Insert(k, r) ==
  /\ k \notin Cached
  /\ Len(recency) < Capacity
  /\ recency' = <<k>> \o recency
  /\ holds' = [holds EXCEPT ![k] = r]

Evict(k, r) ==
  /\ k \notin Cached
  /\ Len(recency) >= Capacity
  /\ recency' = <<k>> \o Front(recency)
  /\ holds' = [holds EXCEPT ![k] = r, ![Last(recency)] = NULL]

Put(k, r) == Replace(k, r) \/ Insert(k, r) \/ Evict(k, r)

BuggyPutDeletes(k) ==  \* the old value of a cached key is overwritten
  IF k \in Cached \/ Len(recency) < Capacity THEN {} ELSE {holds[Last(recency)]}

\* The responses that put(k, ...) and erase(k) delete.
PutDeletes(k) ==
  IF k \in Cached THEN {holds[k]}
  ELSE IF Len(recency) < Capacity THEN {} ELSE {holds[Last(recency)]}

EraseDeletes(k) == {holds[k]} \ {NULL}

Erase(k) ==
  /\ recency' = IF k \in Cached THEN RemoveAt(recency, Position(k)) ELSE recency
  /\ holds' = [holds EXCEPT ![k] = NULL]

LRUNext ==
  \E k \in Keys :
    \/ Find(k)
    \/ Erase(k)
    \/ \E r \in Responses : r \notin {holds[x] : x \in Keys} /\ Put(k, r)

LRUSpec == LRUInit /\ [][LRUNext]_lruVars

-------------------------------------------------------------------------------
LRUTypeOK ==
  /\ recency \in Seq(Keys)
  /\ holds \in [Keys -> Responses \cup {NULL}]

(***************************************************************************)
(* The recency order and the map describe the same entries: a key is in    *)
(* the order exactly when it has a response, and it is there once.         *)
(***************************************************************************)
OrderMatchesMap ==
  /\ \A k \in Keys : k \in Cached <=> \E i \in 1 .. Len(recency) : recency[i] = k
  /\ \A i, j \in 1 .. Len(recency) : recency[i] = recency[j] => i = j

\* The cache never holds more entries than its capacity when no call is running.
WithinCapacity == Len(recency) <= Capacity

\* No response object is reachable from two entries: replacing or evicting one
\* entry cannot delete the response of another.
NoSharedResponse ==
  \A k, l \in Cached : holds[k] = holds[l] => k = l
===============================================================================
