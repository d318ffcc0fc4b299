-------------------------------- MODULE Cache ---------------------------------
(***************************************************************************)
(* Class Cache at the level of its pointers: the hash map cache_ from      *)
(* request lines to nodes, and the doubly linked list of nodes between the *)
(* sentinels head and tail.  Every member function holds mutex_ for its    *)
(* whole body (std::lock_guard in cache.cpp), so each call is one action.  *)
(* A deleted node and a deleted response are what "delete" leaves: their   *)
(* address may be handed out again by a later "new".                       *)
(***************************************************************************)
EXTENDS Naturals, FiniteSets

CONSTANTS
  Keys,       \* request lines
  Nodes,      \* addresses "new Node" may return
  Responses,  \* addresses of HttpResponse objects
  head, tail, \* the sentinel nodes
  NULL,       \* nullptr
  Capacity    \* Cache::capacity

ASSUME CapacityAssumption == Capacity \in Nat \ {0}

ASSUME AddressAssumption ==
  /\ head # tail
  /\ {head, tail} \cap Nodes = {}
  /\ NULL \notin Nodes \cup Responses \cup Keys \cup {head, tail}

VARIABLES
  cache_,     \* cache_[k]: the node of key k, NULL when k is not in the map
  key,        \* Node::key, NULL for an address that holds no node
  value,      \* Node::value
  links,      \* Node::prev and Node::next, as two functions on addresses
  live        \* responses handed to put and not deleted since

vars == <<cache_, key, value, links, live>>

Address == Nodes \cup {head, tail}

\* Definitions named "Buggy..." are slips this code could have; a run that
\* replaces the definition below by one of them finds a property violated.
BuggyInit ==  \* the constructor forgets tail->prev = head
  /\ cache_ = [k \in Keys |-> NULL]
  /\ key = [n \in Nodes |-> NULL]
  /\ value = [n \in Nodes |-> NULL]
  /\ links = [prev |-> [a \in Address |-> NULL],
              next |-> [a \in Address |-> IF a = head THEN tail ELSE NULL]]
  /\ live = {}

\* The constructor links the two sentinels to each other.
Init ==
  /\ cache_ = [k \in Keys |-> NULL]
  /\ key = [n \in Nodes |-> NULL]
  /\ value = [n \in Nodes |-> NULL]
  /\ links = [prev |-> [a \in Address |-> IF a = tail THEN head ELSE NULL],
              next |-> [a \in Address |-> IF a = head THEN tail ELSE NULL]]
  /\ live = {}

-------------------------------------------------------------------------------
(* The list operations of cache.h, each the assignments of its body in order. *)

AddToHead(l, n) ==
  [prev |-> [l.prev EXCEPT ![n] = head, ![l.next[head]] = n],
   next |-> [l.next EXCEPT ![n] = l.next[head], ![head] = n]]

BuggyRemoveNode(l, n) ==  \* the second assignment is missing
  [prev |-> l.prev, next |-> [l.next EXCEPT ![l.prev[n]] = l.next[n]]]

RemoveNode(l, n) ==
  [prev |-> [l.prev EXCEPT ![l.next[n]] = l.prev[n]],
   next |-> [l.next EXCEPT ![l.prev[n]] = l.next[n]]]

MoveToHead(l, n) == AddToHead(RemoveNode(l, n), n)

\* "delete node" after removeNode: the address keeps no fields.
Deleted(l, n) ==
  LET r == RemoveNode(l, n)
  IN  [prev |-> [r.prev EXCEPT ![n] = NULL], next |-> [r.next EXCEPT ![n] = NULL]]

-------------------------------------------------------------------------------
(* The member functions of cache.cpp. *)

Exist(k) == cache_[k] # NULL

\* cache_.size() > capacity, tested when the new node is already in the map.
Full == Cardinality({k \in Keys : Exist(k)}) + 1 > Capacity

\* put of a new key: link a new node at the head and, when the map has grown
\* beyond the capacity, unlink the last node, then delete its response and it.
PutNew(k, r) ==
  /\ ~Exist(k)
  /\ \E n \in {m \in Nodes : key[m] = NULL} :
       LET linked == AddToHead(links, n)
           rm     == linked.prev[tail]
       IN  IF Full
           THEN /\ cache_' = [cache_ EXCEPT ![k] = n, ![key[rm]] = NULL]
                /\ key' = [key EXCEPT ![n] = k, ![rm] = NULL]
                /\ value' = [value EXCEPT ![n] = r, ![rm] = NULL]
                /\ links' = Deleted(linked, rm)
                /\ live' = (live \cup {r}) \ {value[rm]}
           ELSE /\ cache_' = [cache_ EXCEPT ![k] = n]
                /\ key' = [key EXCEPT ![n] = k]
                /\ value' = [value EXCEPT ![n] = r]
                /\ links' = linked
                /\ live' = live \cup {r}

BuggyPutCached(k, r) ==  \* the old response is not deleted
  /\ Exist(k)
  /\ value' = [value EXCEPT ![cache_[k]] = r]
  /\ live' = live \cup {r}
  /\ links' = MoveToHead(links, cache_[k])
  /\ UNCHANGED <<cache_, key>>

BuggyPutStays(k, r) ==  \* the entry keeps its place in the list
  /\ Exist(k)
  /\ value' = [value EXCEPT ![cache_[k]] = r]
  /\ live' = (live \cup {r}) \ {value[cache_[k]]}
  /\ UNCHANGED <<cache_, key, links>>

\* put of a cached key: the node takes the new response, the old one is deleted.
PutCached(k, r) ==
  /\ Exist(k)
  /\ value' = [value EXCEPT ![cache_[k]] = r]
  /\ live' = (live \cup {r}) \ {value[cache_[k]]}
  /\ links' = MoveToHead(links, cache_[k])
  /\ UNCHANGED <<cache_, key>>

BuggyErase(k) ==  \* cache_.erase(key) is missing
  IF Exist(k)
  THEN /\ key' = [key EXCEPT ![cache_[k]] = NULL]
       /\ value' = [value EXCEPT ![cache_[k]] = NULL]
       /\ links' = Deleted(links, cache_[k])
       /\ live' = live \ {value[cache_[k]]}
       /\ UNCHANGED cache_
  ELSE UNCHANGED vars

Erase(k) ==
  IF Exist(k)
  THEN /\ cache_' = [cache_ EXCEPT ![k] = NULL]
       /\ key' = [key EXCEPT ![cache_[k]] = NULL]
       /\ value' = [value EXCEPT ![cache_[k]] = NULL]
       /\ links' = Deleted(links, cache_[k])
       /\ live' = live \ {value[cache_[k]]}
  ELSE UNCHANGED vars

BuggyFind(k) ==  \* a find is no use of the entry
  UNCHANGED vars

Find(k) ==
  /\ links' = IF Exist(k) THEN MoveToHead(links, cache_[k]) ELSE links
  /\ UNCHANGED <<cache_, key, value, live>>

\* The callers hand put a response they have just constructed.
Put(k, r) == r \in Responses \ live /\ (PutNew(k, r) \/ PutCached(k, r))

Next ==
  \E k \in Keys :
    \/ Find(k)
    \/ Erase(k)
    \/ \E r \in Responses : Put(k, r)

Spec == Init /\ [][Next]_vars

-------------------------------------------------------------------------------
(* What holds between two calls. *)

Linked == {n \in Nodes : key[n] # NULL}

\* Every field has its type.  The sentinels' inner pointers are never null.
TypeOK ==
  /\ cache_ \in [Keys -> Nodes \cup {NULL}]
  /\ key \in [Nodes -> Keys \cup {NULL}]
  /\ value \in [Nodes -> Responses \cup {NULL}]
  /\ links \in [prev : [Address -> Address \cup {NULL}],
                next : [Address -> Address \cup {NULL}]]
  /\ links.next[head] \in Nodes \cup {tail}
  /\ links.prev[tail] \in Nodes \cup {head}
  /\ live \subseteq Responses

(***************************************************************************)
(* prev and next are each other's mirror on the sentinels and the nodes    *)
(* that are allocated, and neither leads out of them: no pointer of the    *)
(* list leads to a deleted node.                                           *)
(***************************************************************************)
WellLinked ==
  /\ \A a \in Linked \cup {head} :
       /\ links.next[a] \in Linked \cup {tail}
       /\ links.prev[links.next[a]] = a
  /\ \A a \in Linked \cup {tail} :
       /\ links.prev[a] \in Linked \cup {head}
       /\ links.next[links.prev[a]] = a

(***************************************************************************)
(* The map and the allocated nodes agree, both ways: no key maps to a      *)
(* deleted node, and no node is lost to the map (it could never be freed). *)
(***************************************************************************)
MapMatchesNodes ==
  /\ \A k \in Keys : Exist(k) => key[cache_[k]] = k
  /\ \A n \in Linked : cache_[key[n]] = n

(***************************************************************************)
(* The cache owns exactly the responses it was given and has not deleted:  *)
(* none is leaked, none is reachable after its delete, and none is owned   *)
(* by two nodes, which would delete it twice.                              *)
(***************************************************************************)
OwnsLiveResponses ==
  /\ {value[n] : n \in Linked} = live
  /\ \A m, n \in Linked : value[m] = value[n] => m = n

-------------------------------------------------------------------------------
(* The refinement of LRUCache: the recency order is the list read forward. *)

At[i \in Nat] == IF i = 0 THEN head ELSE links.next[At[i - 1]]

Size == Cardinality(Linked)

LRU == INSTANCE LRUCache WITH
         recency <- [i \in 1 .. Size |-> key[At[i]]],
         holds   <- [k \in Keys |-> IF Exist(k) THEN value[cache_[k]] ELSE NULL]

(***************************************************************************)
(* Every call of class Cache is a step of the abstract LRU map: the list   *)
(* read from head to tail is its recency order, the nodes' values are what *)
(* it holds.                                                               *)
(***************************************************************************)
ImplementsLRU == LRU!LRUSpec
===============================================================================
