--------------------------- MODULE GetHandler_proofs ---------------------------
(***************************************************************************)
(* The invariants of the cache and of the handlers for any number of       *)
(* requests, lines, header sets, max-stale values and any capacity.        *)
(*                                                                         *)
(* The cache comes first, on its own: every set of keys and responses and  *)
(* every capacity.  The recency order is reasoned about through Lists: a   *)
(* sequence that lists a set of keys, each once.                           *)
(*                                                                         *)
(* Of the handlers, the first inductive invariant, HandlerInv, is about    *)
(* the cache and the pointers into it: which objects a handler may own at  *)
(* which point (Ownership) and what its pointer can point to (Pointers).   *)
(* The second, AnswerInv, rests on it and is about what the browsers are   *)
(* sent.                                                                   *)
(***************************************************************************)
EXTENDS GetHandler, SequenceTheorems, TLAPS

\* s lists the keys in C, each of them once.
Lists(s, C) ==
  /\ s \in Seq(Keys)
  /\ \A k \in Keys : k \in C <=> \E i \in 1 .. Len(s) : s[i] = k
  /\ \A i, j \in 1 .. Len(s) : s[i] = s[j] => i = j

-------------------------------------------------------------------------------
\* What SequencesExt!RemoveAt returns: the elements behind i move up by one.
LEMMA RemoveAtProperties ==
  ASSUME NEW S, NEW s \in Seq(S), NEW i \in 1 .. Len(s)
  PROVE  /\ RemoveAt(s, i) \in Seq(S)
         /\ Len(RemoveAt(s, i)) = Len(s) - 1
         /\ \A j \in 1 .. Len(s) - 1 :
              RemoveAt(s, i)[j] = IF j < i THEN s[j] ELSE s[j + 1]
<1> DEFINE a == SubSeq(s, 1, i - 1)
           b == SubSeq(s, i + 1, Len(s))
<1>1. Len(s) \in Nat /\ \A j \in 1 .. Len(s) : s[j] \in S
  BY ElementOfSeq
<1>2. a \in Seq(S) /\ Len(a) = i - 1 /\ \A j \in 1 .. i - 1 : a[j] = s[j]
  <2>1. \A j \in 1 .. i - 1 : s[j] \in S
    BY <1>1
  <2>2. /\ a \in Seq(S)
        /\ Len(a) = IF 1 <= i - 1 THEN (i - 1) - 1 + 1 ELSE 0
        /\ \A j \in 1 .. (i - 1) - 1 + 1 : a[j] = s[1 + j - 1]
    BY <2>1, <1>1, SubSeqProperties
  <2> QED
    BY <2>2, <1>1
<1>3. /\ b \in Seq(S)
      /\ Len(b) = Len(s) - i
      /\ \A j \in 1 .. Len(s) - i : b[j] = s[i + j]
  <2>1. \A j \in i + 1 .. Len(s) : s[j] \in S
    BY <1>1
  <2>2. /\ b \in Seq(S)
        /\ Len(b) = IF i + 1 <= Len(s) THEN Len(s) - (i + 1) + 1 ELSE 0
        /\ \A j \in 1 .. Len(s) - (i + 1) + 1 : b[j] = s[(i + 1) + j - 1]
    BY <2>1, <1>1, SubSeqProperties
  <2> QED
    BY <2>2, <1>1
<1>4. /\ a \o b \in Seq(S)
      /\ Len(a \o b) = Len(a) + Len(b)
      /\ \A j \in 1 .. Len(a) + Len(b) :
           (a \o b)[j] = IF j <= Len(a) THEN a[j] ELSE b[j - Len(a)]
  BY <1>2, <1>3, ConcatProperties
<1>5. RemoveAt(s, i) = a \o b
  BY DEF RemoveAt
<1> HIDE DEF a, b
<1>6. ASSUME NEW j \in 1 .. Len(s) - 1
      PROVE  RemoveAt(s, i)[j] = IF j < i THEN s[j] ELSE s[j + 1]
  <2>1. CASE j < i
    BY <2>1, <1>1, <1>2, <1>3, <1>4, <1>5
  <2>2. CASE ~(j < i)
    <3>1. j - (i - 1) \in 1 .. Len(s) - i /\ i + (j - (i - 1)) = j + 1
      BY <2>2, <1>1
    <3>2. (a \o b)[j] = b[j - (i - 1)]
      BY <2>2, <1>1, <1>2, <1>3, <1>4
    <3> QED
      BY <2>2, <3>1, <3>2, <1>3, <1>5
  <2> QED
    BY <2>1, <2>2
<1> QED
  BY <1>1, <1>2, <1>3, <1>4, <1>5, <1>6

\* Putting a key that is not listed in front lists it too.
LEMMA ListsCons ==
  ASSUME NEW s, NEW C, Lists(s, C), NEW k \in Keys, k \notin C
  PROVE  Lists(<<k>> \o s, C \cup {k}) /\ Len(<<k>> \o s) = Len(s) + 1
<1> DEFINE t == <<k>> \o s
<1>1. s \in Seq(Keys) /\ Len(s) \in Nat
  BY DEF Lists
<1>2. <<k>> \in Seq(Keys) /\ Len(<<k>>) = 1 /\ <<k>>[1] = k
  OBVIOUS
<1>3. t \in Seq(Keys) /\ Len(t) = Len(s) + 1
  BY <1>1, <1>2, ConcatProperties
<1>4. t[1] = k /\ \A i \in 1 .. Len(s) : t[i + 1] = s[i]
  BY <1>1, <1>2, ConcatProperties
<1>5. \A i \in 1 .. Len(t) : i = 1 \/ (i - 1 \in 1 .. Len(s) /\ t[i] = s[i - 1])
  BY <1>1, <1>3, <1>4
<1> HIDE DEF t
<1>6. \A i \in 1 .. Len(s) : s[i] # k
  BY DEF Lists
<1>7. \A i, j \in 1 .. Len(t) : t[i] = t[j] => i = j
  <2> SUFFICES ASSUME NEW i \in 1 .. Len(t), NEW j \in 1 .. Len(t), t[i] = t[j]
               PROVE  i = j
    OBVIOUS
  <2>1. CASE i = 1
    BY <2>1, <1>4, <1>5, <1>6
  <2>2. CASE j = 1
    BY <2>2, <1>4, <1>5, <1>6
  <2>3. CASE i # 1 /\ j # 1
    <3>1. i - 1 \in 1 .. Len(s) /\ j - 1 \in 1 .. Len(s) /\ s[i - 1] = s[j - 1]
      BY <2>3, <1>5
    <3>2. i - 1 = j - 1
      BY <3>1 DEF Lists
    <3> QED
      BY <3>2, <1>3
  <2> QED
    BY <2>1, <2>2, <2>3
<1>8. \A x \in Keys : x \in C \cup {k} <=> \E i \in 1 .. Len(t) : t[i] = x
  <2> TAKE x \in Keys
  <2>1. ASSUME x \in C \cup {k} PROVE \E i \in 1 .. Len(t) : t[i] = x
    <3>1. CASE x = k
      BY <3>1, <1>1, <1>3, <1>4
    <3>2. CASE x \in C
      <4>1. PICK i \in 1 .. Len(s) : s[i] = x
        BY <3>2 DEF Lists
      <4>2. i + 1 \in 1 .. Len(t) /\ t[i + 1] = x
        BY <4>1, <1>1, <1>3, <1>4
      <4> QED
        BY <4>2
    <3> QED
      BY <2>1, <3>1, <3>2
  <2>2. ASSUME NEW i \in 1 .. Len(t), t[i] = x PROVE x \in C \cup {k}
    BY <2>2, <1>4, <1>5 DEF Lists
  <2> QED
    BY <2>1, <2>2
<1> QED
  BY <1>3, <1>7, <1>8 DEF Lists, t

\* Taking out the element at i takes out exactly that key.
LEMMA ListsRemove ==
  ASSUME NEW s, NEW C, Lists(s, C), NEW i \in 1 .. Len(s)
  PROVE  /\ Lists(RemoveAt(s, i), C \ {s[i]})
         /\ Len(RemoveAt(s, i)) = Len(s) - 1
<1> DEFINE t == RemoveAt(s, i)
<1>1. s \in Seq(Keys) /\ Len(s) \in Nat
  BY DEF Lists
<1>2. /\ t \in Seq(Keys)
      /\ Len(t) = Len(s) - 1
      /\ \A j \in 1 .. Len(s) - 1 : t[j] = IF j < i THEN s[j] ELSE s[j + 1]
  BY <1>1, RemoveAtProperties
<1> HIDE DEF t
<1>3. \A j \in 1 .. Len(t) : \E m \in 1 .. Len(s) : m # i /\ t[j] = s[m]
  BY <1>1, <1>2
<1>4. \A m \in 1 .. Len(s) : m # i => \E j \in 1 .. Len(t) : t[j] = s[m]
  <2> SUFFICES ASSUME NEW m \in 1 .. Len(s), m # i
               PROVE  \E j \in 1 .. Len(t) : t[j] = s[m]
    OBVIOUS
  <2>1. CASE m < i
    BY <2>1, <1>1, <1>2
  <2>2. CASE m > i
    <3>1. m - 1 \in 1 .. Len(t) /\ t[m - 1] = s[m]
      BY <2>2, <1>1, <1>2
    <3> QED
      BY <3>1
  <2> QED
    BY <2>1, <2>2, <1>1
<1>5. \A x \in Keys : x \in C \ {s[i]} <=> \E j \in 1 .. Len(t) : t[j] = x
  <2> TAKE x \in Keys
  <2>1. ASSUME x \in C \ {s[i]} PROVE \E j \in 1 .. Len(t) : t[j] = x
    <3>1. PICK m \in 1 .. Len(s) : s[m] = x
      BY <2>1 DEF Lists
    <3> QED
      BY <2>1, <3>1, <1>4
  <2>2. ASSUME NEW j \in 1 .. Len(t), t[j] = x PROVE x \in C \ {s[i]}
    <3>1. PICK m \in 1 .. Len(s) : m # i /\ t[j] = s[m]
      BY <1>3
    <3> QED
      BY <2>2, <3>1 DEF Lists
  <2> QED
    BY <2>1, <2>2
<1>6. \A j, m \in 1 .. Len(t) : t[j] = t[m] => j = m
  <2> SUFFICES ASSUME NEW j \in 1 .. Len(t), NEW m \in 1 .. Len(t), t[j] = t[m]
               PROVE  j = m
    OBVIOUS
  <2> DEFINE Old(x) == IF x < i THEN x ELSE x + 1
  <2>1. /\ Old(j) \in 1 .. Len(s) /\ t[j] = s[Old(j)]
        /\ Old(m) \in 1 .. Len(s) /\ t[m] = s[Old(m)]
    BY <1>1, <1>2
  <2>2. Old(j) = Old(m)
    BY <2>1 DEF Lists
  <2> QED
    BY <2>2, <1>1, <1>2
<1> QED
  BY <1>2, <1>5, <1>6 DEF Lists, t

\* Dropping the last element takes out exactly the last key.
LEMMA ListsFront ==
  ASSUME NEW s, NEW C, Lists(s, C), Len(s) > 0
  PROVE  /\ Lists(Front(s), C \ {Last(s)})
         /\ Len(Front(s)) = Len(s) - 1
         /\ Last(s) \in Keys /\ Last(s) \in C
<1>1. s \in Seq(Keys) /\ Len(s) \in Nat /\ Len(s) \in 1 .. Len(s)
  BY DEF Lists
<1>2. \A j \in 1 .. Len(s) : s[j] \in Keys
  BY <1>1, ElementOfSeq
<1>3. Front(s) \in Seq(Keys)
  <2>1. \A j \in 1 .. Len(s) - 1 : s[j] \in Keys
    BY <1>1, <1>2
  <2> QED
    BY <1>1, <2>1, SubSeqProperties DEF Front
<1>4. SubSeq(s, Len(s) + 1, Len(s)) = <<>>
  BY <1>1, SubSeqEmpty
<1>5. RemoveAt(s, Len(s)) = Front(s)
  BY <1>3, <1>4, ConcatEmptySeq DEF RemoveAt, Front
<1>6. Last(s) = s[Len(s)]
  BY DEF Last
<1>7. Lists(RemoveAt(s, Len(s)), C \ {s[Len(s)]}) /\ Len(RemoveAt(s, Len(s))) = Len(s) - 1
  BY <1>1, ListsRemove
<1> QED
  BY <1>1, <1>2, <1>5, <1>6, <1>7 DEF Lists
-------------------------------------------------------------------------------
(* The four invariants together are inductive.                             *)

LRUInv == LRUTypeOK /\ OrderMatchesMap /\ WithinCapacity /\ NoSharedResponse

\* The order lists the cached keys: LRUInv in the terms of the lemmas above.
LEMMA OrderLists == LRUInv => Lists(recency, Cached) /\ Len(recency) \in Nat
  BY DEF LRUInv, LRUTypeOK, OrderMatchesMap, Lists, Cached

\* The same, read backwards, for the state after a call.
LEMMA ListsOrder ==
  ASSUME Lists(recency, Cached), holds \in [Keys -> Responses \cup {NULL}],
         Len(recency) <= Capacity, NoSharedResponse
  PROVE  LRUInv
  BY DEF LRUInv, LRUTypeOK, OrderMatchesMap, Lists, WithinCapacity

\* A cached key has a place in the order.
LEMMA PositionOf ==
  ASSUME LRUInv, NEW k \in Cached
  PROVE  Position(k) \in 1 .. Len(recency) /\ recency[Position(k)] = k
<1>1. \E i \in 1 .. Len(recency) : recency[i] = k
  BY DEF LRUInv, OrderMatchesMap, Cached
<1> QED
  BY <1>1 DEF Position

\* A use of a cached key changes the order, not what is listed.
LEMMA MovedToFrontLists ==
  ASSUME LRUInv, NEW k \in Cached
  PROVE  Lists(MovedToFront(k), Cached) /\ Len(MovedToFront(k)) = Len(recency)
<1>1. k \in Keys /\ Lists(recency, Cached) /\ Len(recency) \in Nat
  BY OrderLists DEF Cached
<1>2. /\ Lists(RemoveAt(recency, Position(k)), Cached \ {k})
      /\ Len(RemoveAt(recency, Position(k))) = Len(recency) - 1
  BY <1>1, PositionOf, ListsRemove
<1> DEFINE C == (Cached \ {k}) \cup {k}
<1>3. Lists(MovedToFront(k), C) /\ Len(MovedToFront(k)) = Len(recency) - 1 + 1
  BY <1>1, <1>2, ListsCons DEF MovedToFront
<1>4. C = Cached
  OBVIOUS
<1> HIDE DEF C
<1> QED
  BY <1>1, <1>3, <1>4

\* A find keeps the invariant, whether it hits or not.
LEMMA FindPreserves ==
  ASSUME LRUInv, NEW k \in Keys, Find(k)
  PROVE  LRUInv'
<1>1. holds' = holds /\ Cached' = Cached
  BY DEF Find, Cached
<1>2. Lists(recency', Cached) /\ Len(recency') = Len(recency)
  BY MovedToFrontLists, OrderLists DEF Find
<1> QED
  BY <1>1, <1>2, ListsOrder
     DEF LRUInv, LRUTypeOK, WithinCapacity, NoSharedResponse, Lists, OrderMatchesMap

\* An erase keeps the invariant, whether the key is cached or not.
LEMMA ErasePreserves ==
  ASSUME LRUInv, NEW k \in Keys, Erase(k)
  PROVE  LRUInv'
<1>1. Lists(recency, Cached) /\ Len(recency) \in Nat /\ Len(recency) <= Capacity
  BY OrderLists DEF LRUInv, WithinCapacity
<1>2. /\ holds' \in [Keys -> Responses \cup {NULL}]
      /\ \A x \in Keys : holds'[x] = IF x = k THEN NULL ELSE holds[x]
  BY DEF Erase, LRUInv, LRUTypeOK
<1>3. Cached' = Cached \ {k}
  BY <1>2 DEF Cached
<1>4. NoSharedResponse'
  BY <1>2, <1>3 DEF LRUInv, NoSharedResponse, Cached
<1>5. Lists(recency', Cached') /\ Len(recency') <= Capacity
  <2>1. CASE k \in Cached
    <3>1. /\ Lists(RemoveAt(recency, Position(k)), Cached \ {k})
          /\ Len(RemoveAt(recency, Position(k))) = Len(recency) - 1
      BY <1>1, <2>1, PositionOf, ListsRemove
    <3> QED
      BY <1>1, <1>3, <2>1, <3>1, CapacityAssumption DEF Erase
  <2>2. CASE k \notin Cached
    <3>1. recency' = recency /\ Cached' = Cached
      BY <1>3, <2>2 DEF Erase
    <3> QED
      BY <1>1, <3>1
  <2> QED
    BY <2>1, <2>2
<1> QED
  BY <1>2, <1>4, <1>5
     DEF LRUInv, LRUTypeOK, OrderMatchesMap, Lists, WithinCapacity

\* put is given a response the cache does not hold yet.
LEMMA PutPreserves ==
  ASSUME LRUInv, NEW k \in Keys, NEW r \in Responses,
         r \notin {holds[x] : x \in Keys}, Put(k, r)
  PROVE  LRUInv'
<1>1. Lists(recency, Cached) /\ Len(recency) \in Nat /\ Len(recency) <= Capacity
  BY OrderLists DEF LRUInv, WithinCapacity
<1>2. r # NULL /\ holds \in [Keys -> Responses \cup {NULL}]
  BY NullAssumption DEF LRUInv, LRUTypeOK
<1>3. CASE Replace(k, r)
  <2>1. /\ holds' \in [Keys -> Responses \cup {NULL}]
        /\ \A x \in Keys : holds'[x] = IF x = k THEN r ELSE holds[x]
    BY <1>2, <1>3 DEF Replace
  <2>2. Cached' = Cached
    BY <1>2, <1>3, <2>1 DEF Replace, Cached
  <2>3. NoSharedResponse'
    BY <2>1, <2>2 DEF LRUInv, NoSharedResponse, Cached
  <2>4. Lists(recency', Cached') /\ Len(recency') = Len(recency)
    BY <1>3, <2>2, MovedToFrontLists DEF Replace
  <2> QED
    BY <1>1, <2>1, <2>3, <2>4
       DEF LRUInv, LRUTypeOK, OrderMatchesMap, Lists, WithinCapacity
<1>4. CASE Insert(k, r)
  <2>1. /\ holds' \in [Keys -> Responses \cup {NULL}]
        /\ \A x \in Keys : holds'[x] = IF x = k THEN r ELSE holds[x]
    BY <1>2, <1>4 DEF Insert
  <2>2. Cached' = Cached \cup {k}
    BY <1>2, <2>1 DEF Cached
  <2>3. NoSharedResponse'
    BY <2>1, <2>2 DEF LRUInv, NoSharedResponse, Cached
  <2>4. Lists(recency', Cached') /\ Len(recency') = Len(recency) + 1
    BY <1>1, <1>4, <2>2, ListsCons DEF Insert
  <2> QED
    BY <1>1, <1>4, <2>1, <2>3, <2>4, CapacityAssumption
       DEF Insert, LRUInv, LRUTypeOK, OrderMatchesMap, Lists, WithinCapacity
<1>5. CASE Evict(k, r)
  <2> DEFINE last == Last(recency)
  <2>1. Len(recency) > 0
    BY <1>1, <1>5, CapacityAssumption DEF Evict
  <2>2. /\ Lists(Front(recency), Cached \ {last})
        /\ Len(Front(recency)) = Len(recency) - 1
        /\ last \in Keys /\ last \in Cached
    BY <1>1, <2>1, ListsFront
  <2>3. last # k
    BY <1>5, <2>2 DEF Evict
  <2>4. holds' = [holds EXCEPT ![k] = r, ![last] = NULL]
    BY <1>5 DEF Evict
  <2> HIDE DEF last
  <2>5. /\ holds' \in [Keys -> Responses \cup {NULL}]
        /\ \A x \in Keys : holds'[x] = IF x = last THEN NULL
                                       ELSE IF x = k THEN r ELSE holds[x]
    BY <1>2, <2>2, <2>3, <2>4
  <2>6. Cached' = (Cached \ {last}) \cup {k}
    BY <1>2, <2>2, <2>3, <2>5 DEF Cached
  <2>7. NoSharedResponse'
    BY <2>5, <2>6 DEF LRUInv, NoSharedResponse, Cached
  <2>8. k \notin Cached \ {last} /\ recency' = <<k>> \o Front(recency)
    BY <1>5 DEF Evict
  <2>9. Lists(recency', Cached') /\ Len(recency') = Len(recency)
    BY <1>1, <2>2, <2>6, <2>8, ListsCons
  <2> QED
    BY <1>1, <2>5, <2>7, <2>9
       DEF LRUInv, LRUTypeOK, OrderMatchesMap, Lists, WithinCapacity
<1> QED
  BY <1>3, <1>4, <1>5 DEF Put

\* What put does to the map: the key gets the new response, another key keeps
\* its own or loses it, and what is deleted was cached and is cached no more.
LEMMA PutEffect ==
  ASSUME LRUInv, NEW k \in Keys, NEW r \in Responses,
         r \notin {holds[x] : x \in Keys}, Put(k, r)
  PROVE  /\ holds'[k] = r
         /\ \A x \in Keys \ {k} : holds'[x] \in {holds[x], NULL}
         /\ \A d \in PutDeletes(k) :
              /\ d \in Responses \ {r}
              /\ \E x \in Cached : holds[x] = d
              /\ \A x \in Keys : holds'[x] # d
              /\ k \in Cached => d = holds[k]
<1>1. holds \in [Keys -> Responses \cup {NULL}] /\ r # NULL
  BY NullAssumption DEF LRUInv, LRUTypeOK
<1>2. \A x, y \in Keys : holds[x] # NULL /\ holds[x] = holds[y] => x = y
  BY DEF LRUInv, NoSharedResponse, Cached
<1>3. CASE Replace(k, r)
  <2>1. PutDeletes(k) = {holds[k]} /\ holds' = [holds EXCEPT ![k] = r] /\ k \in Cached
    BY <1>3 DEF Replace, PutDeletes
  <2> QED
    BY <1>1, <1>2, <2>1 DEF Cached
<1>4. CASE Insert(k, r)
  <2>1. PutDeletes(k) = {} /\ holds' = [holds EXCEPT ![k] = r]
    BY <1>4 DEF Insert, PutDeletes
  <2> QED
    BY <1>1, <2>1
<1>5. CASE Evict(k, r)
  <2>1. Lists(recency, Cached) /\ Len(recency) > 0
    BY <1>5, OrderLists, CapacityAssumption DEF Evict
  <2>2. Last(recency) \in Cached /\ Last(recency) \in Keys
    BY <2>1, ListsFront
  <2>3. /\ PutDeletes(k) = {holds[Last(recency)]}
        /\ holds' = [holds EXCEPT ![k] = r, ![Last(recency)] = NULL]
        /\ k \notin Cached
    <3>1. ~(Len(recency) < Capacity)
      BY <1>5, OrderLists, CapacityAssumption DEF Evict
    <3> QED
      BY <1>5, <3>1 DEF Evict, PutDeletes
  <2> DEFINE last == Last(recency)
  <2>4. last # k /\ last \in Keys /\ last \in Cached
    BY <2>2, <2>3
  <2> HIDE DEF last
  <2>5. \A x \in Keys : holds'[x] = IF x = last THEN NULL
                                  ELSE IF x = k THEN r ELSE holds[x]
    BY <1>1, <2>3, <2>4 DEF last
  <2>6. PutDeletes(k) = {holds[last]}
    BY <2>3 DEF last
  <2> QED
    BY <1>1, <1>2, <2>3, <2>4, <2>5, <2>6 DEF Cached
<1> QED
  BY <1>3, <1>4, <1>5 DEF Put

\* The same for erase.
LEMMA EraseEffect ==
  ASSUME LRUInv, NEW k \in Keys, Erase(k)
  PROVE  /\ \A x \in Keys : holds'[x] = IF x = k THEN NULL ELSE holds[x]
         /\ \A d \in EraseDeletes(k) :
              /\ d \in Responses
              /\ d = holds[k]
              /\ \A x \in Keys : holds'[x] # d
<1>1. holds \in [Keys -> Responses \cup {NULL}]
  BY DEF LRUInv, LRUTypeOK
<1>2. \A x, y \in Keys : holds[x] # NULL /\ holds[x] = holds[y] => x = y
  BY DEF LRUInv, NoSharedResponse, Cached
<1> QED
  BY <1>1, <1>2 DEF Erase, EraseDeletes

\* The inductive invariant, from which the four theorems below follow.
THEOREM LRUInvariant == LRUSpec => []LRUInv
<1>1. LRUInit => LRUInv
  <2> SUFFICES ASSUME LRUInit PROVE LRUInv
    OBVIOUS
  <2>1. Len(recency) = 0 /\ Cached = {}
    BY DEF LRUInit, Cached
  <2> QED
    BY <2>1, CapacityAssumption
       DEF LRUInit, LRUInv, LRUTypeOK, OrderMatchesMap, WithinCapacity, NoSharedResponse
<1>2. LRUInv /\ [LRUNext]_lruVars => LRUInv'
  <2> SUFFICES ASSUME LRUInv, [LRUNext]_lruVars PROVE LRUInv'
    OBVIOUS
  <2>1. CASE UNCHANGED lruVars
    BY <2>1 DEF lruVars, LRUInv, LRUTypeOK, OrderMatchesMap, WithinCapacity,
                NoSharedResponse, Cached
  <2>2. ASSUME NEW k \in Keys, Find(k) PROVE LRUInv'
    BY <2>2, FindPreserves
  <2>3. ASSUME NEW k \in Keys, Erase(k) PROVE LRUInv'
    BY <2>3, ErasePreserves
  <2>4. ASSUME NEW k \in Keys, NEW r \in Responses,
               r \notin {holds[x] : x \in Keys}, Put(k, r)
        PROVE  LRUInv'
    BY <2>4, PutPreserves
  <2> QED
    BY <2>1, <2>2, <2>3, <2>4 DEF LRUNext
<1> QED
  BY <1>1, <1>2, PTL DEF LRUSpec

\* The recency order is a sequence of keys, the map a function to responses.
THEOREM LRUTypeCorrect == LRUSpec => []LRUTypeOK
<1>1. LRUInv => LRUTypeOK
  BY DEF LRUInv
<1> QED
  BY <1>1, LRUInvariant, PTL

\* No step of the cache loses an entry of the order or of the map alone.
THEOREM LRUOrderMatchesMap == LRUSpec => []OrderMatchesMap
<1>1. LRUInv => OrderMatchesMap
  BY DEF LRUInv
<1> QED
  BY <1>1, LRUInvariant, PTL

\* Cache::put never leaves more than capacity entries behind.
THEOREM LRUWithinCapacity == LRUSpec => []WithinCapacity
<1>1. LRUInv => WithinCapacity
  BY DEF LRUInv
<1> QED
  BY <1>1, LRUInvariant, PTL

\* The delete of one entry's response never deletes another entry's.
THEOREM LRUNoSharedResponse == LRUSpec => []NoSharedResponse
<1>1. LRUInv => NoSharedResponse
  BY DEF LRUInv
<1> QED
  BY <1>1, LRUInvariant, PTL

-------------------------------------------------------------------------------
(* The handlers.                                                           *)

\* Where a handler may be once it has constructed a response of its own, and
\* where that response is still its own: not yet in the cache.
Constructing == {"put", "update"}
AfterConstruct == Constructing \cup {"log", "findAgain", "send", "badGateway", "done"}

InCache(o) == \E k \in Keys : holds[k] = o

(***************************************************************************)
(* A response exists only after its handler has constructed it, carries    *)
(* the line of that handler's request, and is in nobody else's hands until *)
(* the handler has put it into the cache.  Only such responses are deleted.*)
(***************************************************************************)
Ownership ==
  \A q \in Requests :
    /\ pc[q] # "idle" <=> request[q] # NULL
    /\ object[q] # NULL => pc[q] \in AfterConstruct /\ object[q].key = Key(q)
    /\ pc[q] \in Constructing => object[q] # NULL /\ ptr[q] = q /\ ~InCache(q)
    /\ InCache(q) => object[q] # NULL
    /\ deletedBy[q] # NULL =>
         /\ object[q] # NULL
         /\ pc[q] \notin Constructing
         /\ ~InCache(q)
         /\ request[deletedBy[q].by] # NULL
         /\ deletedBy[q].how = "evict" \/ Key(deletedBy[q].by) = object[q].key

(***************************************************************************)
(* A handler that uses its pointer uses it on a response for its own line, *)
(* which it has not deleted itself.                                        *)
(***************************************************************************)
Pointers ==
  \A q \in Requests :
    pc[q] \in Reading \cup {"recv"} =>
      /\ ptr[q] \in Constructed
      /\ object[ptr[q]].key = Key(q)
      /\ ptr[q] \in Deleted => deletedBy[ptr[q]].by # q

\* The constructor leaves maxAge uninitialised only together with no-store.
LifetimeOrNoStore ==
  \A o \in Constructed : object[o].fields.noStore \/ object[o].fields.maxAge # Absent

HandlerInv ==
  TypeOK /\ LRUInv /\ CachedIsServable /\ Ownership /\ Pointers /\ LifetimeOrNoStore
-------------------------------------------------------------------------------
\* What the constructor of HttpResponse returns for any header set.
LEMMA ParseType ==
  ASSUME NEW h \in HeaderSet, NEW t \in Int
  PROVE  /\ Parse(h, t) \in ResponseFields
         /\ Parse(h, t).noStore \/ Parse(h, t).maxAge # Absent
<1>1. /\ h.maxAge \in Int \cup {Absent}
      /\ h.lastModified \in Int \cup {Absent, Unreadable}
      /\ h.etag \in BOOLEAN
  BY DEF HeaderSet
<1>2. \A d \in Int : Tenth(d) \in Int
  BY DEF Tenth
<1>3. Absent \notin Int
  BY MarkersAssumption
<1>4. Lifetime(h, t) \in Int \cup {Absent}
  BY <1>1, <1>2 DEF Lifetime, HasHeuristic
<1>5. NoStore(h) \in BOOLEAN /\ (NoStore(h) \/ Lifetime(h, t) # Absent)
  BY <1>1, <1>2, <1>3 DEF NoStore, Lifetime, HasHeuristic
<1> HIDE DEF Lifetime, NoStore
<1>6. (h.etag \/ h.lastModified # Absent) \in BOOLEAN
  BY <1>1
<1> QED
  BY <1>4, <1>5, <1>6 DEF Parse, ResponseFields

\* A request that has arrived is for one of the request lines.
LEMMA KeyType ==
  ASSUME TypeOK, NEW q \in Requests, request[q] # NULL
  PROVE  Key(q) \in Keys
  BY DEF TypeOK, RequestRecord, Key

-------------------------------------------------------------------------------
(* The steps of the handlers, by what they do to the shared state.         *)

Shared == <<cacheVars, request, ptr, object, deletedBy>>

\* A step that only moves handlers on, none of them to a place where it has
\* constructed a response or uses its pointer, unless it was at one.
LEMMA LocalStep ==
  ASSUME HandlerInv, UNCHANGED Shared,
         \A q \in Requests :
           \/ pc'[q] = pc[q]
           \/ /\ pc[q] # "idle"
              /\ pc'[q] \notin Constructing
              /\ pc'[q] # "idle"
              /\ pc[q] \in AfterConstruct => pc'[q] \in AfterConstruct
              /\ pc'[q] \in Reading \cup {"recv"} => pc[q] \in Reading \cup {"recv"}
  PROVE  LRUInv' /\ CachedIsServable' /\ Ownership' /\ Pointers' /\ LifetimeOrNoStore'
<1>1. LRUInv'
  BY DEF HandlerInv, Shared, cacheVars, LRUInv, LRUTypeOK, OrderMatchesMap,
         WithinCapacity, NoSharedResponse, Cached
<1>2. CachedIsServable' /\ LifetimeOrNoStore'
  BY DEF HandlerInv, Shared, cacheVars, CachedIsServable, LifetimeOrNoStore, Cached,
         Constructed, Deleted
<1>3. Ownership'
  BY DEF HandlerInv, Shared, cacheVars, Ownership, InCache, Key, AfterConstruct
<1>4. Pointers'
  BY DEF HandlerInv, Shared, Pointers, Key, Constructed, Deleted
<1> QED
  BY <1>1, <1>2, <1>3, <1>4

\* The arrival of a request.
LEMMA ArriveStep ==
  ASSUME HandlerInv, NEW q \in Requests, Arrive(q)
  PROVE  LRUInv' /\ CachedIsServable' /\ Ownership' /\ Pointers' /\ LifetimeOrNoStore'
<1>1. PICK k \in Keys, s \in StaleTimes :
        request' = [request EXCEPT ![q] = [key |-> k, maxStale |-> s, arrived |-> now]]
  BY DEF Arrive
<1>2. [key |-> k, maxStale |-> s, arrived |-> now] # NULL
  BY NullIsNoRecord DEF HandlerInv, TypeOK, RequestRecord
<1>3. /\ pc[q] = "idle"
      /\ pc' = [pc EXCEPT ![q] = "find"]
      /\ UNCHANGED <<cacheVars, ptr, object, deletedBy>>
      /\ pc \in [Requests -> Locations] /\ request \in [Requests -> RequestRecord \cup {NULL}]
  BY DEF Arrive, At, Goto, HandlerInv, TypeOK
<1>4. object[q] = NULL /\ ~InCache(q)
  BY <1>3 DEF HandlerInv, Ownership, AfterConstruct, Constructing
<1>5. LRUInv'
  BY <1>3 DEF HandlerInv, cacheVars, LRUInv, LRUTypeOK, OrderMatchesMap,
              WithinCapacity, NoSharedResponse, Cached
<1>6. CachedIsServable' /\ LifetimeOrNoStore'
  BY <1>3 DEF HandlerInv, cacheVars, CachedIsServable, LifetimeOrNoStore, Cached,
              Constructed, Deleted
<1>7. \A p \in Requests : p # q => request'[p] = request[p] /\ pc'[p] = pc[p]
  BY <1>1, <1>3
<1>8. request'[q] # NULL /\ pc'[q] = "find"
  BY <1>1, <1>2, <1>3
<1>9. Ownership'
  <2> SUFFICES ASSUME NEW p \in Requests
               PROVE  Ownership!(p)'
    BY DEF Ownership
  <2>1. CASE p = q
    BY <2>1, <1>3, <1>4, <1>8
       DEF HandlerInv, Ownership, InCache, cacheVars, Constructing
  <2>2. CASE p # q
    <3>1. deletedBy[p] # NULL => deletedBy[p].by \in Requests \ {q}
      BY <1>3 DEF HandlerInv, TypeOK, Deletion, Ownership
    <3> QED
      BY <2>2, <3>1, <1>3, <1>7, <1>8
         DEF HandlerInv, Ownership, InCache, cacheVars, Key, Constructing
  <2> QED
    BY <2>1, <2>2
<1>10. Pointers'
  BY <1>3, <1>7, <1>8 DEF HandlerInv, Pointers, Key, Constructed, Deleted, Reading
<1> QED
  BY <1>5, <1>6, <1>9, <1>10

\* A step in which q takes its pointer from the cache.
LEMMA LookupStep ==
  ASSUME HandlerInv, NEW q \in Requests, request[q] # NULL, Find(Key(q)),
         ptr' = [ptr EXCEPT ![q] = holds[Key(q)]],
         NEW there, NEW gone,
         pc' = [pc EXCEPT ![q] = IF Key(q) \in Cached THEN there ELSE gone],
         \/ pc[q] = "find" /\ there = "inspect" /\ gone = "get"
         \/ pc[q] = "findAgain" /\ there = "send" /\ gone = "badGateway",
         UNCHANGED <<request, object, deletedBy>>
  PROVE  LRUInv' /\ CachedIsServable' /\ Ownership' /\ Pointers' /\ LifetimeOrNoStore'
<1>1. LRUInv' /\ holds' = holds
  BY KeyType, FindPreserves DEF HandlerInv, Find
<1>2. CachedIsServable' /\ LifetimeOrNoStore'
  BY <1>1 DEF HandlerInv, CachedIsServable, LifetimeOrNoStore, Cached, Constructed, Deleted
<1>3. /\ pc \in [Requests -> Locations]
      /\ ptr \in [Requests -> Requests \cup {NULL}]
  BY DEF HandlerInv, TypeOK
<1>4. /\ \A p \in Requests \ {q} : pc'[p] = pc[p] /\ ptr'[p] = ptr[p]
      /\ pc'[q] \in {"inspect", "get", "send", "badGateway"}
      /\ pc[q] = "find" => pc'[q] \in {"inspect", "get"}
      /\ pc[q] = "findAgain" => pc'[q] \in {"send", "badGateway"}
      /\ ptr'[q] = holds[Key(q)]
      /\ pc'[q] \in {"inspect", "send"} => Key(q) \in Cached
  BY <1>3
<1>5. Ownership'
  BY <1>1, <1>4 DEF HandlerInv, Ownership, InCache, Key, AfterConstruct, Constructing
<1>6. Key(q) \in Cached =>
        /\ holds[Key(q)] \in Constructed
        /\ holds[Key(q)] \notin Deleted
        /\ object[holds[Key(q)]].key = Key(q)
  BY DEF HandlerInv, CachedIsServable
<1>7. Pointers'
  BY <1>4, <1>6 DEF HandlerInv, Pointers, Key, Constructed, Deleted, Reading
<1> QED
  BY <1>1, <1>2, <1>5, <1>7

\* A step in which q constructs its response.
LEMMA ConstructStep ==
  ASSUME HandlerInv, NEW q \in Requests, request[q] # NULL,
         NEW h \in OriginHeaders, Construct(q, h),
         pc[q] \in {"get", "recv"}, NEW l \in Constructing,
         pc' = [pc EXCEPT ![q] = l],
         UNCHANGED <<cacheVars, request, deletedBy>>
  PROVE  /\ LRUInv' /\ CachedIsServable' /\ Ownership' /\ Pointers' /\ LifetimeOrNoStore'
         /\ object' \in [Requests -> Object \cup {NULL}]
<1> DEFINE new == [fields |-> Parse(h, now), key |-> Key(q)]
<1>1. new \in Object /\ (new.fields.noStore \/ new.fields.maxAge # Absent)
  <2>1. h \in HeaderSet /\ now \in Int
    BY OriginAssumption, TimeAssumption DEF HandlerInv, TypeOK
  <2>2. /\ Parse(h, now) \in ResponseFields
        /\ Parse(h, now).noStore \/ Parse(h, now).maxAge # Absent
    BY <2>1, ParseType
  <2> QED
    BY <2>2, KeyType DEF HandlerInv, Object
<1>2. /\ object' = [object EXCEPT ![q] = new]
      /\ ptr' = [ptr EXCEPT ![q] = q]
      /\ object \in [Requests -> Object \cup {NULL}]
      /\ pc \in [Requests -> Locations]
      /\ ptr \in [Requests -> Requests \cup {NULL}]
  BY DEF Construct, HandlerInv, TypeOK
<1>3. new # NULL /\ new.key = Key(q)
  BY <1>1, NullIsNoRecord
<1> HIDE DEF new
<1>4. /\ object'[q] = new /\ ptr'[q] = q /\ pc'[q] = l
      /\ \A p \in Requests \ {q} :
           object'[p] = object[p] /\ ptr'[p] = ptr[p] /\ pc'[p] = pc[p]
      /\ object' \in [Requests -> Object \cup {NULL}]
  BY <1>1, <1>2
<1>5. object[q] = NULL /\ ~InCache(q) /\ deletedBy[q] = NULL
  BY DEF HandlerInv, Ownership, AfterConstruct, Constructing
<1>6. LRUInv'
  BY DEF HandlerInv, cacheVars, LRUInv, LRUTypeOK, OrderMatchesMap, WithinCapacity,
         NoSharedResponse, Cached
<1>7. CachedIsServable'
  <2> SUFFICES ASSUME NEW k \in Cached'
               PROVE  CachedIsServable!(k)'
    BY DEF CachedIsServable
  <2>1. k \in Cached /\ holds[k] \in Constructed \ Deleted /\ holds' = holds
    BY DEF cacheVars, Cached, HandlerInv, CachedIsServable
  <2>2. holds[k] \in Requests \ {q}
    BY <1>5, <2>1 DEF Constructed
  <2> QED
    BY <1>4, <2>1, <2>2 DEF HandlerInv, CachedIsServable, Constructed, Deleted
<1>8. LifetimeOrNoStore'
  BY <1>1, <1>4 DEF HandlerInv, LifetimeOrNoStore, Constructed
<1>9. Ownership'
  BY <1>3, <1>4, <1>5
     DEF HandlerInv, Ownership, InCache, Key, AfterConstruct, Constructing, cacheVars
<1>10. Pointers'
  <2> SUFFICES ASSUME NEW p \in Requests, pc'[p] \in Reading \cup {"recv"}
               PROVE  /\ ptr'[p] \in Constructed'
                      /\ object'[ptr'[p]].key = Key(p)'
                      /\ ptr'[p] \in Deleted' => deletedBy'[ptr'[p]].by # p
    BY DEF Pointers
  <2>1. p # q
    BY <1>4 DEF Constructing, Reading
  <2>2. /\ ptr[p] \in Constructed
        /\ object[ptr[p]].key = Key(p)
        /\ ptr[p] \in Deleted => deletedBy[ptr[p]].by # p
    BY <1>4, <2>1 DEF HandlerInv, Pointers
  <2>3. ptr[p] \in Requests \ {q}
    BY <1>5, <2>2 DEF Constructed
  <2> QED
    BY <1>4, <2>1, <2>2, <2>3 DEF Constructed, Deleted, Key
<1> QED
  BY <1>4, <1>6, <1>7, <1>8, <1>9, <1>10

\* A step in which q makes the cache delete the responses in D.  What is in
\* the cache afterwards was there before, or is the response q puts there.
LEMMA DeleteStep ==
  ASSUME HandlerInv, NEW q \in Requests, request[q] # NULL,
         NEW D, NEW how \in {"replace", "evict", "erase"}, Delete(q, D, how),
         \A d \in D : /\ d \in Requests \ {q} /\ InCache(d) /\ ~InCache(d)'
                      /\ how = "evict" \/ object[d].key = Key(q),
         \A o \in Requests \ {q} : InCache(o)' => InCache(o),
         InCache(q)' => pc'[q] \notin Constructing /\ deletedBy[q] = NULL,
         pc[q] \in AfterConstruct => pc'[q] \in AfterConstruct,
         NEW l, pc' = [pc EXCEPT ![q] = l], l \notin Constructing \cup {"idle"},
         l \in Reading \cup {"recv"} => pc[q] \in Constructing,
         InCache(q)' => object[q] # NULL,
         UNCHANGED <<request, ptr, object>>
  PROVE  /\ Ownership' /\ Pointers' /\ LifetimeOrNoStore'
         /\ deletedBy' \in [Requests -> Deletion \cup {NULL}]
<1> DEFINE new == [by |-> q, how |-> how]
<1>1. new \in Deletion /\ new # NULL /\ new.by = q /\ new.how = how
  BY NullIsNoRecord DEF Deletion
<1> HIDE DEF new
<1>2. /\ pc \in [Requests -> Locations]
      /\ deletedBy \in [Requests -> Deletion \cup {NULL}]
  BY DEF HandlerInv, TypeOK
<1>3. \A o \in Requests : deletedBy'[o] = IF o \in D THEN new ELSE deletedBy[o]
  BY DEF Delete, new
<1>4. deletedBy' \in [Requests -> Deletion \cup {NULL}]
  BY <1>1, <1>2 DEF Delete, new
<1>5. pc'[q] = l /\ \A p \in Requests \ {q} : pc'[p] = pc[p]
  BY <1>2
<1>6. \A o \in D : /\ o \in Requests \ {q} /\ object[o] # NULL /\ pc[o] \notin Constructing
                   /\ how = "evict" \/ object[o].key = Key(q)
  BY DEF HandlerInv, Ownership
<1>7. LifetimeOrNoStore'
  BY DEF HandlerInv, LifetimeOrNoStore, Constructed
<1>8. Ownership'
  <2> SUFFICES ASSUME NEW p \in Requests
               PROVE  /\ pc'[p] # "idle" <=> request'[p] # NULL
                      /\ object'[p] # NULL =>
                           pc'[p] \in AfterConstruct /\ object'[p].key = request'[p].key
                      /\ pc'[p] \in Constructing =>
                           object'[p] # NULL /\ ptr'[p] = p /\ ~InCache(p)'
                      /\ InCache(p)' => object'[p] # NULL
                      /\ deletedBy'[p] # NULL =>
                           /\ object'[p] # NULL
                           /\ pc'[p] \notin Constructing
                           /\ ~InCache(p)'
                           /\ request'[deletedBy'[p].by] # NULL
                           /\ \/ deletedBy'[p].how = "evict"
                              \/ request'[deletedBy'[p].by].key = object'[p].key
    BY DEF Ownership, Key, InCache
  <2>1. pc'[p] # "idle" <=> request'[p] # NULL
    BY <1>5 DEF HandlerInv, Ownership
  <2>2. object'[p] # NULL => pc'[p] \in AfterConstruct /\ object'[p].key = request'[p].key
    BY <1>5 DEF HandlerInv, Ownership, Key
  <2>3. pc'[p] \in Constructing => object'[p] # NULL /\ ptr'[p] = p /\ ~InCache(p)'
    BY <1>5 DEF HandlerInv, Ownership, InCache
  <2>4. InCache(p)' => object'[p] # NULL
    BY DEF HandlerInv, Ownership, InCache
  <2>5. ASSUME p \in D
        PROVE  /\ object'[p] # NULL
               /\ pc'[p] \notin Constructing
               /\ ~InCache(p)'
               /\ request'[deletedBy'[p].by] # NULL
               /\ deletedBy'[p].how = "evict" \/ request'[deletedBy'[p].by].key = object'[p].key
    <3>1. deletedBy'[p] = new
      BY <1>3, <2>5
    <3>2. p # q /\ object[p] # NULL /\ pc[p] \notin Constructing
          /\ (how = "evict" \/ object[p].key = Key(q))
      BY <1>6, <2>5
    <3>3. ~InCache(p)'
      BY <2>5 DEF InCache
    <3> QED
      BY <3>1, <3>2, <3>3, <1>1, <1>5 DEF Key
  <2>6. ASSUME p \notin D, deletedBy'[p] # NULL
        PROVE  /\ object'[p] # NULL
               /\ pc'[p] \notin Constructing
               /\ ~InCache(p)'
               /\ request'[deletedBy'[p].by] # NULL
               /\ deletedBy'[p].how = "evict" \/ request'[deletedBy'[p].by].key = object'[p].key
    <3>1. deletedBy'[p] = deletedBy[p]
      BY <1>3, <2>6
    <3>2. /\ object[p] # NULL
          /\ pc[p] \notin Constructing
          /\ ~InCache(p)
          /\ request[deletedBy[p].by] # NULL
          /\ deletedBy[p].how = "evict" \/ request[deletedBy[p].by].key = object[p].key
      BY <3>1, <2>6 DEF HandlerInv, Ownership, Key
    <3>3. ~InCache(p)'
      BY <3>1, <3>2, <2>6 DEF InCache
    <3> QED
      BY <3>1, <3>2, <3>3, <1>5
  <2> QED
    BY <2>1, <2>2, <2>3, <2>4, <2>5, <2>6
<1>9. Pointers'
  <2> SUFFICES ASSUME NEW p \in Requests, pc'[p] \in Reading \cup {"recv"}
               PROVE  /\ ptr'[p] \in Constructed'
                      /\ object'[ptr'[p]].key = Key(p)'
                      /\ ptr'[p] \in Deleted' => deletedBy'[ptr'[p]].by # p
    BY DEF Pointers
  <2>1. CASE p = q
    <3>1. ptr[q] = q /\ object[q] # NULL /\ object[q].key = Key(q) /\ q \notin Deleted
      BY <2>1, <1>5 DEF HandlerInv, Ownership, Deleted
    <3>2. q \notin D
      BY <1>6
    <3>3. deletedBy'[q] = deletedBy[q]
      BY <1>3, <3>2
    <3> QED
      BY <2>1, <3>1, <3>3 DEF Constructed, Deleted, Key
  <2>2. CASE p # q
    <3>1. /\ ptr[p] \in Constructed
          /\ object[ptr[p]].key = Key(p)
          /\ ptr[p] \in Deleted => deletedBy[ptr[p]].by # p
      BY <2>2, <1>5 DEF HandlerInv, Pointers
    <3> QED
      BY <2>2, <3>1, <1>1, <1>3 DEF Constructed, Deleted, Key
  <2> QED
    BY <2>1, <2>2
<1> QED
  BY <1>4, <1>7, <1>8, <1>9

\* A step in which q puts its response into the cache.
LEMMA PutStep ==
  ASSUME HandlerInv, NEW q \in Requests, request[q] # NULL, pc[q] \in Constructing,
         AbleToCache(object[q].fields), PutOwn(q),
         NEW l \in {"log", "send"}, pc' = [pc EXCEPT ![q] = l],
         UNCHANGED <<request, ptr, object>>
  PROVE  /\ LRUInv' /\ CachedIsServable' /\ Ownership' /\ Pointers' /\ LifetimeOrNoStore'
         /\ deletedBy' \in [Requests -> Deletion \cup {NULL}]
<1> DEFINE k == Key(q)
           D == PutDeletes(k)
<1>1. /\ k \in Keys /\ q \in Responses /\ Put(k, q)
      /\ q \notin {holds[x] : x \in Keys}
      /\ object[q] # NULL /\ object[q].key = k /\ deletedBy[q] = NULL
  BY KeyType, RequestsAssumption DEF HandlerInv, Ownership, InCache, PutOwn
<1>2. LRUInv'
  BY <1>1, PutPreserves DEF HandlerInv
<1>3. /\ holds'[k] = q
      /\ \A x \in Keys \ {k} : holds'[x] \in {holds[x], NULL}
      /\ \A d \in D : /\ d \in Responses \ {q}
                      /\ \E x \in Cached : holds[x] = d
                      /\ \A x \in Keys : holds'[x] # d
                      /\ k \in Cached => d = holds[k]
  BY <1>1, PutEffect DEF HandlerInv
<1>4. \A o \in Requests : o # NULL
  BY NullAssumption, RequestsAssumption
<1>5. PICK how \in {"replace", "evict"} :
        /\ Delete(q, D, how)
        /\ how = "replace" => k \in Cached
  BY DEF PutOwn
<1>6. \A d \in D : /\ d \in Requests \ {q} /\ InCache(d) /\ ~InCache(d)'
                   /\ how = "evict" \/ object[d].key = k
  BY <1>3, <1>5, RequestsAssumption DEF InCache, Cached, HandlerInv, CachedIsServable
<1>7. \A o \in Requests \ {q} : InCache(o)' => InCache(o)
  BY <1>3, <1>4 DEF InCache
<1>8. pc'[q] = l
  BY DEF HandlerInv, TypeOK
<1> HIDE DEF D
<1>9. /\ Ownership' /\ Pointers' /\ LifetimeOrNoStore'
      /\ deletedBy' \in [Requests -> Deletion \cup {NULL}]
  <2>1. /\ pc[q] \in Constructing /\ pc'[q] \notin Constructing /\ pc'[q] \in AfterConstruct
        /\ l \notin Constructing \cup {"idle"}
        /\ how \in {"replace", "evict", "erase"}
    BY <1>5, <1>8 DEF Constructing, AfterConstruct
  <2>2. /\ pc[q] \in AfterConstruct => pc'[q] \in AfterConstruct
        /\ l \in Reading \cup {"recv"} => pc[q] \in Constructing
        /\ InCache(q)' => pc'[q] \notin Constructing /\ deletedBy[q] = NULL
        /\ InCache(q)' => object[q] # NULL
    BY <1>1, <2>1
  <2>3. \A d \in D : /\ d \in Requests \ {q} /\ InCache(d) /\ ~InCache(d)'
                     /\ how = "evict" \/ object[d].key = Key(q)
    BY <1>6
  <2> HIDE DEF k
  <2> QED
    BY ONLY HandlerInv, q \in Requests, request[q] # NULL, pc' = [pc EXCEPT ![q] = l],
            UNCHANGED <<request, ptr, object>>, <1>5, <1>7, <2>1, <2>2, <2>3, DeleteStep
<1>10. CachedIsServable'
  <2> SUFFICES ASSUME NEW x \in Keys, holds'[x] # NULL
               PROVE  CachedIsServable!(x)'
    BY DEF CachedIsServable, Cached
  <2>1. \A o \in Requests : o \notin D => deletedBy'[o] = deletedBy[o]
    BY <1>5 DEF Delete
  <2>2. CASE x = k
    <3>1. q \notin D
      BY <1>6
    <3> QED
      BY <2>1, <2>2, <3>1, <1>1, <1>3
         DEF AbleToCache, HandlerInv, LifetimeOrNoStore, Constructed, Deleted
  <2>3. CASE x # k
    <3>1. holds'[x] = holds[x] /\ x \in Cached
      BY <2>3, <1>3 DEF Cached
    <3>2. holds[x] \in Requests /\ holds[x] \notin D
      BY <3>1, <1>3, <1>6, RequestsAssumption DEF HandlerInv, CachedIsServable, Constructed, InCache
    <3> QED
      BY <2>1, <3>1, <3>2 DEF HandlerInv, CachedIsServable, Constructed, Deleted
  <2> QED
    BY <2>2, <2>3
<1> QED
  BY <1>2, <1>9, <1>10

\* A step in which q erases the expired entry it has found.
LEMMA EraseStep ==
  ASSUME HandlerInv, NEW q \in Requests, EraseExpired(q)
  PROVE  /\ LRUInv' /\ CachedIsServable' /\ Ownership' /\ Pointers' /\ LifetimeOrNoStore'
         /\ deletedBy' \in [Requests -> Deletion \cup {NULL}]
<1> DEFINE k == Key(q)
           D == EraseDeletes(k)
<1>1. /\ pc[q] = "erase" /\ pc' = [pc EXCEPT ![q] = "get"] /\ request[q] # NULL
      /\ k \in Keys /\ Erase(k) /\ Delete(q, D, "erase")
      /\ UNCHANGED <<request, ptr, object>>
      /\ object[q] = NULL /\ deletedBy[q] = NULL /\ ~InCache(q)
  BY KeyType DEF EraseExpired, At, Goto, HandlerInv, Ownership, AfterConstruct, Constructing
<1>2. LRUInv'
  BY <1>1, ErasePreserves DEF HandlerInv
<1>3. /\ \A x \in Keys : holds'[x] = IF x = k THEN NULL ELSE holds[x]
      /\ \A d \in D : d \in Responses /\ d = holds[k] /\ \A x \in Keys : holds'[x] # d
  BY <1>1, EraseEffect DEF HandlerInv
<1>4. \A o \in Requests : o # NULL
  BY NullAssumption, RequestsAssumption
<1>5. \A d \in D : d \in Requests \ {q} /\ InCache(d) /\ ~InCache(d)' /\ object[d].key = k
  BY <1>1, <1>3, <1>4, RequestsAssumption DEF InCache, HandlerInv, CachedIsServable, Cached
<1>6. \A o \in Requests : InCache(o)' => InCache(o)
  BY <1>3, <1>4 DEF InCache
<1>7. pc'[q] = "get"
  BY <1>1 DEF HandlerInv, TypeOK
<1> HIDE DEF D
<1>8. /\ Ownership' /\ Pointers' /\ LifetimeOrNoStore'
      /\ deletedBy' \in [Requests -> Deletion \cup {NULL}]
  BY <1>1, <1>5, <1>6, <1>7, DeleteStep DEF Constructing, AfterConstruct, Reading
<1>9. CachedIsServable'
  <2> SUFFICES ASSUME NEW x \in Keys, holds'[x] # NULL
               PROVE  CachedIsServable!(x)'
    BY DEF CachedIsServable, Cached
  <2>1. holds'[x] = holds[x] /\ x \in Cached /\ holds[x] \in Requests /\ holds[x] \notin D
    BY <1>3, <1>5 DEF Cached, HandlerInv, CachedIsServable, Constructed, InCache
  <2>2. deletedBy'[holds[x]] = deletedBy[holds[x]]
    BY <1>1, <2>1 DEF Delete
  <2> QED
    BY <1>1, <2>1, <2>2 DEF HandlerInv, CachedIsServable, Constructed, Deleted
<1> QED
  BY <1>2, <1>8, <1>9

-------------------------------------------------------------------------------
\* What a browser has been sent stays a sequence of answers.
LEMMA SendType ==
  ASSUME TypeOK, NEW q \in Requests, NEW kind \in {"response", "part", "502"},
         NEW o \in Requests \cup {NULL}, Send(q, kind, o)
  PROVE  answers' \in [Requests -> Seq(Answer)]
<1>1. [kind |-> kind, of |-> o] \in Answer
  BY DEF Answer
<1>2. answers \in [Requests -> Seq(Answer)]
  BY DEF TypeOK
<1>3. Append(answers[q], [kind |-> kind, of |-> o]) \in Seq(Answer)
  BY <1>1, <1>2, AppendProperties
<1> QED
  BY <1>2, <1>3 DEF Send

\* The actions that leave the shared state alone.
LEMMA LocalActions ==
  ASSUME HandlerInv, NEW q \in Requests,
         \/ CacheResponse(q) \/ DoGetFails(q) \/ KeepNew(q) \/ LogStored(q)
         \/ Revalidate(q) \/ RecvNotModified(q) \/ RecvNothing(q)
         \/ SendChecked(q) \/ BadGateway(q) \/ Abort(q) \/ WildCrash(q)
  PROVE  HandlerInv'
<1>1. TypeOK /\ pc \in [Requests -> Locations]
  BY DEF HandlerInv, TypeOK
<1>2. UNCHANGED Shared
  BY DEF Shared, CacheResponse, DoGetFails, KeepNew, LogStored, Revalidate,
         RecvNotModified, RecvNothing, SendChecked, BadGateway, Abort, WildCrash
<1>3. UNCHANGED <<now, expired>>
  BY DEF CacheResponse, DoGetFails, KeepNew, LogStored, Revalidate,
         RecvNotModified, RecvNothing, SendChecked, BadGateway, Abort, WildCrash
<1>4. \/ pc' = pc
      \/ \E l \in Locations \ (Constructing \cup {"idle"}) :
           /\ pc' = [pc EXCEPT ![q] = l]
           /\ pc[q] # "idle"
           /\ pc[q] \in AfterConstruct => l \in AfterConstruct
           /\ l \in Reading \cup {"recv"} => pc[q] \in Reading \cup {"recv"}
  <2>1. AfterDoGet(q) \in {"findAgain", "done"}
    BY DEF AfterDoGet
  <2>2. CASE CacheResponse(q)
    BY <2>2 DEF CacheResponse, At, Goto, Locations, Constructing, AfterConstruct, Reading
  <2>3. CASE DoGetFails(q)
    BY <2>1, <2>3 DEF DoGetFails, At, Goto, Locations, Constructing, AfterConstruct, Reading
  <2>4. CASE KeepNew(q) \/ LogStored(q)
    BY <2>1, <2>4 DEF KeepNew, LogStored, At, Goto, Locations, Constructing, AfterConstruct,
                      Reading
  <2>5. CASE Revalidate(q)
    BY <2>5 DEF Revalidate, At, Goto, Locations, Constructing, AfterConstruct, Reading
  <2>6. CASE RecvNotModified(q) \/ RecvNothing(q)
    BY <2>6 DEF RecvNotModified, RecvNothing, At, Goto, Locations, Constructing,
                AfterConstruct, Reading
  <2>7. CASE SendChecked(q) \/ BadGateway(q)
    BY <2>7 DEF SendChecked, BadGateway, At, Goto, Locations, Constructing, AfterConstruct,
                Reading
  <2>8. CASE Abort(q) \/ WildCrash(q)
    BY <2>8 DEF Abort, WildCrash
  <2> QED
    BY <2>2, <2>3, <2>4, <2>5, <2>6, <2>7, <2>8
<1>5. /\ pc' \in [Requests -> Locations]
      /\ \A p \in Requests :
           \/ pc'[p] = pc[p]
           \/ /\ pc[p] # "idle"
              /\ pc'[p] \notin Constructing
              /\ pc'[p] # "idle"
              /\ pc[p] \in AfterConstruct => pc'[p] \in AfterConstruct
              /\ pc'[p] \in Reading \cup {"recv"} => pc[p] \in Reading \cup {"recv"}
  BY <1>1, <1>4
<1>6. LRUInv' /\ CachedIsServable' /\ Ownership' /\ Pointers' /\ LifetimeOrNoStore'
  BY <1>2, <1>5, LocalStep
<1>7. answers' \in [Requests -> Seq(Answer)]
  <2>1. CASE SendChecked(q)
    <3>1. PICK x \in Seen(ptr[q]) : Send(q, "response", x)
      BY <2>1 DEF SendChecked
    <3>2. x \in Requests \cup {NULL}
      BY <1>1, <3>1 DEF Seen, Constructed, TypeOK
    <3> QED
      BY <1>1, <3>1, <3>2, SendType
  <2>2. CASE Send(q, "502", NULL)
    BY <1>1, <2>2, SendType
  <2>3. CASE Send(q, "part", NULL)
    BY <1>1, <2>3, SendType
  <2>4. CASE UNCHANGED answers
    BY <1>1, <2>4 DEF TypeOK
  <2> QED
    BY <2>1, <2>2, <2>3, <2>4
       DEF CacheResponse, DoGetFails, KeepNew, LogStored, Revalidate, RecvNotModified,
           RecvNothing, BadGateway, Abort, WildCrash
<1>8. running' \in BOOLEAN
  BY <1>1 DEF TypeOK, CacheResponse, DoGetFails, KeepNew, LogStored, Revalidate,
              RecvNotModified, RecvNothing, SendChecked, BadGateway, Abort, WildCrash
<1>9. asked' \subseteq Requests /\ failed' \subseteq Requests /\ wild' \subseteq Requests
  <2>1. /\ asked \subseteq Requests /\ failed \subseteq Requests /\ wild \subseteq Requests
    BY <1>1 DEF TypeOK
  <2>2. asked' \in {asked, asked \cup {q}}
    BY DEF CacheResponse, DoGetFails, KeepNew, LogStored, Revalidate, RecvNotModified,
           RecvNothing, SendChecked, BadGateway, Abort, WildCrash, history
  <2>3. failed' \in {failed, failed \cup {q}}
    BY DEF CacheResponse, DoGetFails, KeepNew, LogStored, Revalidate, RecvNotModified,
           RecvNothing, SendChecked, BadGateway, Abort, WildCrash, history
  <2>4. wild' \in {wild, wild \cup {q}}
    BY DEF NoteRead, CacheResponse, DoGetFails, KeepNew, LogStored, Revalidate,
           RecvNotModified, RecvNothing, SendChecked, BadGateway, Abort, WildCrash, history
  <2> QED
    BY <2>1, <2>2, <2>3, <2>4
<1>10. TypeOK'
  BY <1>1, <1>2, <1>3, <1>5, <1>6, <1>7, <1>8, <1>9
     DEF TypeOK, Shared, cacheVars, LRUInv
<1> QED
  BY <1>6, <1>10 DEF HandlerInv

\* Every step of a handler keeps the invariant.
LEMMA HandleStep ==
  ASSUME HandlerInv, NEW q \in Requests, Handle(q)
  PROVE  HandlerInv'
<1>1. TypeOK /\ pc \in [Requests -> Locations]
  BY DEF HandlerInv, TypeOK
<1>2. pc[q] # "idle" => request[q] # NULL
  BY DEF HandlerInv, Ownership
<1>3. CASE CheckGet(q) \/ FindAgain(q)
  <2>1. /\ request[q] # NULL /\ Find(Key(q))
        /\ ptr' = [ptr EXCEPT ![q] = holds[Key(q)]]
        /\ \/ pc[q] = "find" /\ pc' = [pc EXCEPT ![q] = IF Key(q) \in Cached
                                                        THEN "inspect" ELSE "get"]
           \/ pc[q] = "findAgain" /\ pc' = [pc EXCEPT ![q] = IF Key(q) \in Cached
                                                             THEN "send" ELSE "badGateway"]
        /\ UNCHANGED <<now, running, request, object, deletedBy, expired, answers, history>>
    BY <1>2, <1>3 DEF CheckGet, FindAgain, At, Goto
  <2>2. LRUInv' /\ CachedIsServable' /\ Ownership' /\ Pointers' /\ LifetimeOrNoStore'
    BY <2>1, LookupStep
  <2>3. Key(q) \in Keys
    BY <1>1, <2>1, KeyType
  <2>4. pc' \in [Requests -> Locations] /\ ptr' \in [Requests -> Requests \cup {NULL}]
    BY <1>1, <2>1, <2>3, RequestsAssumption DEF TypeOK, LRUTypeOK, Locations
  <2>5. TypeOK'
    BY <1>1, <2>1, <2>2, <2>4 DEF TypeOK, LRUInv, history
  <2> QED
    BY <2>2, <2>5 DEF HandlerInv
<1>4. CASE EraseExpired(q)
  <2>1. /\ LRUInv' /\ CachedIsServable' /\ Ownership' /\ Pointers' /\ LifetimeOrNoStore'
        /\ deletedBy' \in [Requests -> Deletion \cup {NULL}]
    BY <1>4, EraseStep
  <2>2. pc' \in [Requests -> Locations] /\ expired' \subseteq Requests
    BY <1>1, <1>4 DEF EraseExpired, Goto, TypeOK, Locations
  <2>3. TypeOK'
    BY <1>1, <1>4, <2>1, <2>2 DEF EraseExpired, TypeOK, LRUInv, history
  <2> QED
    BY <2>1, <2>3 DEF HandlerInv
<1>5. CASE DoGet(q) \/ RecvModified(q)
  <2>1. PICK h \in OriginHeaders : Construct(q, h)
    BY <1>5 DEF DoGet, RecvModified
  <2>2. /\ \/ pc[q] = "get" /\ pc' = [pc EXCEPT ![q] = "put"]
           \/ pc[q] = "recv" /\ pc' = [pc EXCEPT ![q] = "update"]
        /\ UNCHANGED answers \/ Send(q, "response", q)
        /\ asked' = asked \cup {q}
        /\ UNCHANGED <<cacheVars, now, running, request, deletedBy, expired, failed, wild>>
    BY <1>5 DEF DoGet, RecvModified, At, Goto
  <2>3. \E l \in Constructing : pc' = [pc EXCEPT ![q] = l]
    BY <2>2 DEF Constructing
  <2>4. /\ LRUInv' /\ CachedIsServable' /\ Ownership' /\ Pointers' /\ LifetimeOrNoStore'
        /\ object' \in [Requests -> Object \cup {NULL}]
    BY <1>2, <2>1, <2>2, <2>3, ConstructStep
  <2>5. answers' \in [Requests -> Seq(Answer)]
    BY <1>1, <2>2, SendType DEF TypeOK
  <2>6. pc' \in [Requests -> Locations] /\ ptr' \in [Requests -> Requests \cup {NULL}]
    BY <1>1, <2>1, <2>2 DEF TypeOK, Locations, Construct
  <2>7. TypeOK'
    BY <1>1, <2>2, <2>4, <2>5, <2>6 DEF TypeOK, LRUInv
  <2> QED
    BY <2>4, <2>7 DEF HandlerInv
<1>6. CASE StoreNew(q) \/ (Update(q) /\ AbleToCache(object[q].fields))
  <2>1. /\ pc[q] \in Constructing /\ AbleToCache(object[q].fields) /\ PutOwn(q)
        /\ \E l \in {"log", "send"} : pc' = [pc EXCEPT ![q] = l]
        /\ UNCHANGED <<now, running, request, ptr, object, expired, answers, history>>
    BY <1>6 DEF StoreNew, Update, At, Goto, Constructing
  <2>2. /\ LRUInv' /\ CachedIsServable' /\ Ownership' /\ Pointers' /\ LifetimeOrNoStore'
        /\ deletedBy' \in [Requests -> Deletion \cup {NULL}]
    BY <1>2, <2>1, PutStep DEF Constructing
  <2>3. pc' \in [Requests -> Locations]
    BY <1>1, <2>1 DEF Locations
  <2>4. TypeOK'
    BY <1>1, <2>1, <2>2, <2>3 DEF TypeOK, LRUInv, history
  <2> QED
    BY <2>2, <2>4 DEF HandlerInv
<1>7. CASE Update(q) /\ ~AbleToCache(object[q].fields)
  <2>1. /\ pc[q] = "update" /\ pc' = [pc EXCEPT ![q] = "send"]
        /\ UNCHANGED <<cacheVars, deletedBy>>
        /\ UNCHANGED <<now, running, request, ptr, object, expired, answers, history>>
    BY <1>7 DEF Update, At, Goto
  <2>2. /\ object[q] # NULL /\ ptr[q] = q /\ deletedBy[q] = NULL /\ object[q].key = Key(q)
    BY <2>1 DEF HandlerInv, Ownership, Constructing
  <2>3. /\ pc' \in [Requests -> Locations] /\ pc'[q] = "send"
        /\ \A p \in Requests \ {q} : pc'[p] = pc[p]
    BY <1>1, <2>1 DEF Locations
  <2>4. TypeOK'
    BY <1>1, <2>1, <2>3 DEF TypeOK, LRUTypeOK, cacheVars, history
  <2>5. LRUInv' /\ CachedIsServable' /\ LifetimeOrNoStore'
    BY <2>1 DEF HandlerInv, cacheVars, LRUInv, LRUTypeOK, OrderMatchesMap, WithinCapacity,
                NoSharedResponse, CachedIsServable, LifetimeOrNoStore, Cached, Constructed,
                Deleted
  <2>6. Ownership'
    BY <2>1, <2>3 DEF HandlerInv, Ownership, InCache, cacheVars, Key, AfterConstruct,
                      Constructing
  <2>7. Pointers'
    BY <2>1, <2>2, <2>3 DEF HandlerInv, Pointers, Constructed, Deleted, Key
  <2> QED
    BY <2>4, <2>5, <2>6, <2>7 DEF HandlerInv
<1> QED
  BY <1>3, <1>4, <1>5, <1>6, <1>7, LocalActions DEF Handle

(***************************************************************************)
(* Whatever requests arrive, whatever the origin server answers and in     *)
(* whatever order the handlers of proxy.cpp run, the invariant holds.      *)
(***************************************************************************)
THEOREM HandlerInvariant == Spec => []HandlerInv
<1>1. Init => HandlerInv
  <2> SUFFICES ASSUME Init PROVE HandlerInv
    OBVIOUS
  <2>1. LRUInv /\ Cached = {} /\ Constructed = {} /\ Deleted = {}
    <3>1. Len(recency) = 0 /\ Cached = {}
      BY DEF Init, LRUInit, Cached
    <3>2. LRUInv
      BY <3>1, CapacityAssumption
         DEF Init, LRUInit, LRUInv, LRUTypeOK, OrderMatchesMap, WithinCapacity,
             NoSharedResponse
    <3> QED
      BY <3>1, <3>2 DEF Init, Constructed, Deleted
  <2>2. TypeOK
    BY <2>1, TimeAssumption DEF Init, TypeOK, LRUInv, Locations
  <2>3. Ownership
    <3>1. \A q \in Requests : ~InCache(q)
      BY NullAssumption, RequestsAssumption DEF Init, LRUInit, InCache
    <3> QED
      BY <3>1 DEF Init, Ownership, Constructing
  <2>4. Pointers
    BY DEF Init, Pointers, Reading
  <2> QED
    BY <2>1, <2>2, <2>3, <2>4 DEF HandlerInv, CachedIsServable, LifetimeOrNoStore
<1>2. HandlerInv /\ [Next]_vars => HandlerInv'
  <2> SUFFICES ASSUME HandlerInv, [Next]_vars PROVE HandlerInv'
    OBVIOUS
  <2>1. CASE UNCHANGED <<Shared, now, running, pc, expired, answers, history>>
    <3>1. LRUInv' /\ CachedIsServable' /\ Ownership' /\ Pointers' /\ LifetimeOrNoStore'
      BY <2>1, LocalStep
    <3>2. TypeOK'
      BY <2>1, <3>1 DEF HandlerInv, TypeOK, LRUInv, Shared, history
    <3> QED
      BY <3>1, <3>2 DEF HandlerInv
  <2>2. CASE Tick
    <3>1. UNCHANGED <<Shared, running, pc, expired, answers, history>> /\ now' \in 0 .. MaxTime
      BY <2>2, TimeAssumption DEF Tick, Shared, HandlerInv, TypeOK
    <3>2. LRUInv' /\ CachedIsServable' /\ Ownership' /\ Pointers' /\ LifetimeOrNoStore'
      BY <3>1, LocalStep
    <3>3. TypeOK'
      BY <3>1, <3>2 DEF HandlerInv, TypeOK, LRUInv, Shared, history
    <3> QED
      BY <3>2, <3>3 DEF HandlerInv
  <2>3. ASSUME NEW q \in Requests, Arrive(q) PROVE HandlerInv'
    <3>1. LRUInv' /\ CachedIsServable' /\ Ownership' /\ Pointers' /\ LifetimeOrNoStore'
      BY <2>3, ArriveStep
    <3>2. PICK k \in Keys, s \in StaleTimes :
            request' = [request EXCEPT ![q] = [key |-> k, maxStale |-> s, arrived |-> now]]
      BY <2>3 DEF Arrive
    <3>3. [key |-> k, maxStale |-> s, arrived |-> now] \in RequestRecord
      BY DEF RequestRecord, HandlerInv, TypeOK
    <3>4. request' \in [Requests -> RequestRecord \cup {NULL}]
      BY <3>2, <3>3 DEF HandlerInv, TypeOK
    <3>5. pc' \in [Requests -> Locations]
      BY <2>3 DEF Arrive, Goto, HandlerInv, TypeOK, Locations
    <3>6. TypeOK'
      BY <2>3, <3>1, <3>4, <3>5 DEF Arrive, HandlerInv, TypeOK, LRUInv, history
    <3> QED
      BY <3>1, <3>6 DEF HandlerInv
  <2>4. ASSUME NEW q \in Requests, Handle(q) PROVE HandlerInv'
    BY <2>4, HandleStep
  <2> QED
    BY <2>1, <2>2, <2>3, <2>4 DEF Next, Finished, vars, Shared, history, cacheVars
<1> QED
  BY <1>1, <1>2, PTL DEF Spec

\* What a handler does to the cache is one of its calls, as its callers may make it.
LEMMA HandlerCalls ==
  ASSUME HandlerInv, NEW q \in Requests, Handle(q)
  PROVE  LRUNext \/ UNCHANGED lruVars
<1>1. TypeOK /\ (pc[q] # "idle" => request[q] # NULL /\ Key(q) \in Keys)
  BY KeyType DEF HandlerInv, Ownership
<1>2. CASE CheckGet(q) \/ FindAgain(q)
  <2>1. Find(Key(q)) /\ pc[q] # "idle"
    BY <1>2 DEF CheckGet, FindAgain, At
  <2> QED
    BY <1>1, <2>1 DEF LRUNext
<1>3. CASE EraseExpired(q)
  <2>1. Erase(Key(q)) /\ pc[q] # "idle"
    BY <1>3 DEF EraseExpired, At
  <2> QED
    BY <1>1, <2>1 DEF LRUNext
<1>4. CASE StoreNew(q) \/ (Update(q) /\ AbleToCache(object[q].fields))
  <2>1. PutOwn(q) /\ pc[q] \in Constructing /\ pc[q] # "idle"
    BY <1>4 DEF StoreNew, Update, At, Constructing
  <2>2. q \in Responses /\ q \notin {holds[x] : x \in Keys} /\ Put(Key(q), q)
    BY <2>1, RequestsAssumption DEF HandlerInv, Ownership, InCache, PutOwn
  <2> QED
    BY <1>1, <2>1, <2>2 DEF LRUNext
<1>5. CASE Update(q) /\ ~AbleToCache(object[q].fields)
  BY <1>5 DEF Update, cacheVars, lruVars
<1>6. CASE DoGet(q) \/ RecvModified(q)
  BY <1>6 DEF DoGet, RecvModified, cacheVars, lruVars
<1>7. CASE \/ CacheResponse(q) \/ DoGetFails(q) \/ KeepNew(q) \/ LogStored(q)
           \/ Revalidate(q) \/ RecvNotModified(q) \/ RecvNothing(q)
           \/ SendChecked(q) \/ BadGateway(q) \/ Abort(q) \/ WildCrash(q)
  BY <1>7 DEF CacheResponse, DoGetFails, KeepNew, LogStored, Revalidate, RecvNotModified,
     RecvNothing, SendChecked, BadGateway, Abort, WildCrash, cacheVars, lruVars
<1> QED
  BY <1>2, <1>3, <1>4, <1>5, <1>6, <1>7 DEF Handle

(***************************************************************************)
(* The handlers change the cache by its calls alone, and put into it only  *)
(* a response that it does not hold: what LRUCache promises of its own     *)
(* steps holds of the cache that the handlers share.                       *)
(***************************************************************************)
THEOREM HandlersUseTheMap == Spec => LRUSpec
<1>1. Init => LRUInit
  BY DEF Init
<1>2. HandlerInv /\ [Next]_vars => [LRUNext]_lruVars
  <2> SUFFICES ASSUME HandlerInv, [Next]_vars
               PROVE  LRUNext \/ UNCHANGED lruVars
    OBVIOUS
  <2>1. CASE UNCHANGED vars
    BY <2>1 DEF vars, cacheVars, lruVars
  <2>2. CASE Tick
    BY <2>2 DEF Tick, cacheVars, lruVars
  <2>3. ASSUME NEW q \in Requests, Arrive(q)
        PROVE  UNCHANGED lruVars
    BY <2>3 DEF Arrive, cacheVars, lruVars
  <2>4. CASE Finished
    BY <2>4 DEF Finished, vars, cacheVars, lruVars
  <2> QED
    BY <2>1, <2>2, <2>3, <2>4, HandlerCalls DEF Next
<1> QED
  BY <1>1, <1>2, HandlerInvariant, PTL DEF Spec, LRUSpec

\* Every variable of the handlers keeps its type.
THEOREM HandlerTypeCorrect == Spec => []TypeOK
<1>1. HandlerInv => TypeOK
  BY DEF HandlerInv
<1> QED
  BY <1>1, HandlerInvariant, PTL

(***************************************************************************)
(* A lookup never returns a response that was received for another line,   *)
(* must not be shared, has no lifetime or has been deleted.                *)
(***************************************************************************)
THEOREM CacheIsServable == Spec => []CachedIsServable
<1>1. HandlerInv => CachedIsServable
  BY DEF HandlerInv
<1> QED
  BY <1>1, HandlerInvariant, PTL

(***************************************************************************)
(* The unlocked use of the pointer that Cache::find returns is the only    *)
(* way to a deleted response: no handler reads one it has deleted itself.  *)
(***************************************************************************)
THEOREM DanglingIsARace == Spec => []DanglingNeedsARace
<1>1. HandlerInv => DanglingNeedsARace
  <2> SUFFICES ASSUME HandlerInv, NEW q \in Requests, pc[q] \in Reading, ptr[q] \in Deleted
               PROVE  /\ deletedBy[ptr[q]].by # q
                      /\ \/ deletedBy[ptr[q]].how = "evict"
                         \/ Key(deletedBy[ptr[q]].by) = Key(q)
    BY DEF DanglingNeedsARace
  <2>1. object[ptr[q]].key = Key(q) /\ deletedBy[ptr[q]].by # q
    BY DEF HandlerInv, Pointers
  <2>2. ptr[q] \in Requests /\ deletedBy[ptr[q]] # NULL
    BY DEF Deleted
  <2>3. \/ deletedBy[ptr[q]].how = "evict"
        \/ Key(deletedBy[ptr[q]].by) = object[ptr[q]].key
    BY <2>2 DEF HandlerInv, Ownership
  <2> QED
    BY <2>1, <2>3
<1> QED
  BY <1>1, HandlerInvariant, PTL
-------------------------------------------------------------------------------
(***************************************************************************)
(* What the browsers are sent.  AnswerInv, which is inductive once         *)
(* HandlerInv holds, is about each handler's own part of the state, its    *)
(* Story, and about the responses: a step of one handler changes no other  *)
(* handler's part and no response that is there (OthersStay).              *)
(***************************************************************************)

(***************************************************************************)
(* How many answers a request has had when its handler is at a location.   *)
(***************************************************************************)
Unanswered ==
  {"idle", "find", "inspect", "erase", "get", "revalidate", "recv", "update"}

Counted(q) ==
  LET n == Len(answers[q])
  IN  /\ pc[q] \in Unanswered => n = 0
      /\ pc[q] \in Unanswered \ {"get"} => q \notin expired
      /\ pc[q] \in {"put", "log"} => n = 1
      /\ pc[q] = "findAgain" => q \in expired /\ n <= 1
      /\ pc[q] \in {"send", "badGateway"} => n <= IF q \in expired THEN 1 ELSE 0
      /\ pc[q] = "done" => /\ n <= IF q \in expired THEN 2 ELSE 1
                           /\ n = 0 => q \in failed \ expired

(***************************************************************************)
(* A response that a handler uses and has not constructed may be shared    *)
(* and has a lifetime, because it was found in the cache.                  *)
(***************************************************************************)
Shareable(o) == ~object[o].fields.noStore /\ ~object[o].fields.isPrivate

Borrowed(q) ==
  pc[q] \in Reading \cup {"recv"} /\ ptr[q] # q =>
    Shareable(ptr[q]) /\ object[ptr[q]].fields.maxAge # Absent

MaySend(q, o) ==
  o \in Constructed /\ object[o].key = Key(q) /\ (o # q => Shareable(o))

SentWell(q) ==
  q \notin wild =>
    \A i \in 1 .. Len(answers[q]) :
      answers[q][i].kind = "response" => MaySend(q, answers[q][i].of)

(***************************************************************************)
(* A handler that has asked nobody has its response from the cache, and    *)
(* cacheResponse has not found it expired.                                 *)
(***************************************************************************)
Asking == {"put", "log", "findAgain", "update", "badGateway"}

NotLate(o, q) ==
  LET f == object[o].fields
  IN  \/ f.noCache
      \/ f.maxAge <= 0
      \/ f.expirationTime + request[q].maxStale > request[q].arrived

Unasked(q) ==
  /\ pc[q] \in Asking => q \in asked
  /\ pc[q] # "idle" => request[q].arrived <= now
  /\ q \notin wild \cup asked =>
       /\ pc[q] \in {"revalidate", "send"} => NotLate(ptr[q], q)
       /\ pc[q] = "send" => ~object[ptr[q]].fields.hasValidator
       /\ \A i \in 1 .. Len(answers[q]) :
            LET o == answers[q][i].of
            IN  o \in Constructed /\ ~object[o].fields.hasValidator /\ NotLate(o, q)

Story(q) == Counted(q) /\ Borrowed(q) /\ SentWell(q) /\ Unasked(q)

\* A response with a lifetime has an expiration time.
Expires ==
  \A o \in Constructed :
    object[o].fields.maxAge # Absent => object[o].fields.expirationTime \in Int

\* A response that may be cached is in the cache unless its handler is about to
\* put it there, or it has been deleted.
Kept ==
  \A o \in Constructed \ Deleted :
    pc[o] \in Constructing \/ ~AbleToCache(object[o].fields) \/ InCache(o)

AnswerInv == Expires /\ Kept /\ \A q \in Requests : Story(q)
-------------------------------------------------------------------------------
\* What a step of q leaves alone: what the other handlers are doing, and every
\* response that is there.
OthersStay(q) ==
  /\ \A p \in Requests \ {q} :
       /\ pc'[p] = pc[p] /\ ptr'[p] = ptr[p] /\ request'[p] = request[p]
       /\ answers'[p] = answers[p]
       /\ p \in expired' <=> p \in expired
       /\ p \in asked' <=> p \in asked
       /\ p \in failed' <=> p \in failed
       /\ p \in wild' <=> p \in wild
  /\ \A o \in Constructed : object'[o] = object[o] /\ o \in Constructed'
  /\ now' = now

\* A step of q leaves the other handlers and all responses alone.
LEMMA HandlersStay ==
  ASSUME HandlerInv, NEW q \in Requests, Arrive(q) \/ Handle(q)
  PROVE  OthersStay(q)
<1>1. /\ pc \in [Requests -> Locations]
      /\ ptr \in [Requests -> Requests \cup {NULL}]
      /\ request \in [Requests -> RequestRecord \cup {NULL}]
      /\ answers \in [Requests -> Seq(Answer)]
      /\ object \in [Requests -> Object \cup {NULL}]
  BY DEF HandlerInv, TypeOK
<1>2. now' = now
  BY DEF Arrive, Handle, CheckGet, CacheResponse, EraseExpired, DoGet, DoGetFails, StoreNew,
         KeepNew, LogStored, FindAgain, Revalidate, RecvNotModified, RecvModified,
         RecvNothing, Update, SendChecked, BadGateway, Abort, WildCrash
<1>3. \A p \in Requests \ {q} : pc'[p] = pc[p]
  BY <1>1 DEF Goto, Arrive, Handle, CheckGet, CacheResponse, EraseExpired, DoGet, DoGetFails,
         StoreNew, KeepNew, LogStored, FindAgain, Revalidate, RecvNotModified, RecvModified,
         RecvNothing, Update, SendChecked, BadGateway, Abort, WildCrash
<1>4. \A p \in Requests \ {q} : ptr'[p] = ptr[p]
  BY <1>1 DEF Construct, Arrive, Handle, CheckGet, CacheResponse, EraseExpired, DoGet,
         DoGetFails, StoreNew, KeepNew, LogStored, FindAgain, Revalidate, RecvNotModified,
         RecvModified, RecvNothing, Update, SendChecked, BadGateway, Abort, WildCrash
<1>5. \A p \in Requests \ {q} : request'[p] = request[p]
  BY <1>1 DEF Arrive, Handle, CheckGet, CacheResponse, EraseExpired, DoGet, DoGetFails,
         StoreNew, KeepNew, LogStored, FindAgain, Revalidate, RecvNotModified, RecvModified,
         RecvNothing, Update, SendChecked, BadGateway, Abort, WildCrash
<1>6. \A p \in Requests \ {q} : answers'[p] = answers[p]
  BY <1>1 DEF Send, Arrive, Handle, CheckGet, CacheResponse, EraseExpired, DoGet, DoGetFails,
         StoreNew, KeepNew, LogStored, FindAgain, Revalidate, RecvNotModified, RecvModified,
         RecvNothing, Update, SendChecked, BadGateway, Abort, WildCrash
<1>7. expired' \in {expired, expired \cup {q}}
  BY DEF Arrive, Handle, CheckGet, CacheResponse, EraseExpired, DoGet, DoGetFails,
         StoreNew, KeepNew, LogStored, FindAgain, Revalidate, RecvNotModified, RecvModified,
         RecvNothing, Update, SendChecked, BadGateway, Abort, WildCrash
<1>8. asked' \in {asked, asked \cup {q}} /\ failed' \in {failed, failed \cup {q}}
  BY DEF history, Arrive, Handle, CheckGet, CacheResponse, EraseExpired, DoGet, DoGetFails,
         StoreNew, KeepNew, LogStored, FindAgain, Revalidate, RecvNotModified, RecvModified,
         RecvNothing, Update, SendChecked, BadGateway, Abort, WildCrash
<1>9. wild' \in {wild, wild \cup {q}}
  BY DEF history, NoteRead, Arrive, Handle, CheckGet, CacheResponse, EraseExpired, DoGet,
         DoGetFails, StoreNew, KeepNew, LogStored, FindAgain, Revalidate, RecvNotModified,
         RecvModified, RecvNothing, Update, SendChecked, BadGateway, Abort, WildCrash
<1>10. \A o \in Constructed : object'[o] = object[o]
  <2>1. CASE DoGet(q) \/ RecvModified(q)
    <3>1. pc[q] \in {"get", "recv"} /\ \E h \in OriginHeaders : Construct(q, h)
      BY <2>1 DEF DoGet, RecvModified, At
    <3>2. q \notin Constructed
      BY <3>1 DEF HandlerInv, Ownership, AfterConstruct, Constructing, Constructed
    <3> QED
      BY <1>1, <3>1, <3>2 DEF Construct, Constructed
  <2>2. CASE ~(DoGet(q) \/ RecvModified(q))
    BY <2>2 DEF Arrive, Handle, CheckGet, CacheResponse, EraseExpired, DoGetFails,
         StoreNew, KeepNew, LogStored, FindAgain, Revalidate, RecvNotModified,
         RecvNothing, Update, SendChecked, BadGateway, Abort, WildCrash
  <2> QED
    BY <2>1, <2>2
<1> QED
  BY <1>2, <1>3, <1>4, <1>5, <1>6, <1>7, <1>8, <1>9, <1>10 DEF OthersStay, Constructed

\* What is known of a handler is still so after a step of another.
LEMMA OthersKeep ==
  ASSUME HandlerInv, NEW q \in Requests, NEW p \in Requests \ {q}, OthersStay(q), Story(p)
  PROVE  Story(p)'
<1>1. /\ pc'[p] = pc[p] /\ ptr'[p] = ptr[p] /\ request'[p] = request[p]
      /\ answers'[p] = answers[p] /\ now' = now
      /\ p \in expired' <=> p \in expired
      /\ p \in asked' <=> p \in asked
      /\ p \in failed' <=> p \in failed
      /\ p \in wild' <=> p \in wild
  BY DEF OthersStay
<1>2. \A o \in Constructed : object'[o] = object[o] /\ o \in Constructed'
  BY DEF OthersStay
<1>3. pc[p] \in Reading \cup {"recv"} => object'[ptr[p]] = object[ptr[p]]
  BY <1>2 DEF HandlerInv, Pointers
<1>4. Counted(p)'
  BY <1>1 DEF Story, Counted
<1>5. Borrowed(p)'
  BY <1>1, <1>3 DEF Story, Borrowed, Shareable
<1>6. SentWell(p)'
  BY <1>1, <1>2 DEF Story, SentWell, MaySend, Shareable, Key
<1>7. Unasked(p)'
  BY <1>1, <1>2, <1>3 DEF Story, Unasked, NotLate, Reading
<1> QED
  BY <1>4, <1>5, <1>6, <1>7 DEF Story

-------------------------------------------------------------------------------
\* What a step of q does to its own part of the invariant.

\* send adds one answer behind the others.
LEMMA SendAppends ==
  ASSUME TypeOK, NEW q \in Requests, NEW kind, NEW o, Send(q, kind, o)
  PROVE  /\ Len(answers[q]) \in Nat /\ Len(answers'[q]) = Len(answers[q]) + 1
         /\ answers'[q][Len(answers[q]) + 1] = [kind |-> kind, of |-> o]
         /\ \A i \in 1 .. Len(answers[q]) : answers'[q][i] = answers[q][i]
<1>1. answers \in [Requests -> Seq(Answer)]
  BY DEF TypeOK
<1>2. answers'[q] = Append(answers[q], [kind |-> kind, of |-> o]) /\ answers[q] \in Seq(Answer)
  BY <1>1 DEF Send
<1> QED
  BY <1>2

\* How many answers q has sent by each place in the code.
LEMMA CountedStep ==
  ASSUME HandlerInv, NEW q \in Requests, Arrive(q) \/ Handle(q), Counted(q)
  PROVE  Counted(q)'
<1>1. /\ pc \in [Requests -> Locations] /\ Len(answers[q]) \in Nat
      /\ expired \subseteq Requests
  BY DEF HandlerInv, TypeOK
<1>2. CASE CheckGet(q) \/ CacheResponse(q) \/ Arrive(q) \/ Revalidate(q) \/ RecvNotModified(q)
           \/ RecvModified(q) \/ RecvNothing(q) \/ Update(q)
  <2>1. UNCHANGED answers /\ UNCHANGED expired
    BY <1>2 DEF CheckGet, CacheResponse, Arrive, Revalidate, RecvNotModified,
                RecvModified, RecvNothing, Update
  <2>2. \/ pc[q] \in Unanswered \ {"get"} /\ pc'[q] \in Unanswered
        \/ pc[q] \in Unanswered \ {"get"} /\ pc'[q] \in {"send", "badGateway"}
    BY <1>1, <1>2 DEF CheckGet, CacheResponse, Arrive, Revalidate, RecvNotModified,
                RecvModified, RecvNothing, Update, At, Goto, Unanswered
  <2> QED
    BY <1>1, <2>1, <2>2 DEF Counted, Unanswered
<1>3. CASE EraseExpired(q)
  BY <1>1, <1>3 DEF EraseExpired, At, Goto, Counted, Unanswered
<1>4. CASE DoGet(q)
  <2>1. pc[q] = "get" /\ pc'[q] = "put" /\ Send(q, "response", q)
    BY <1>1, <1>4 DEF DoGet, At, Goto
  <2>2. Len(answers'[q]) = Len(answers[q]) + 1
    BY <2>1, SendAppends DEF HandlerInv
  <2> QED
    BY <1>1, <2>1, <2>2 DEF Counted, Unanswered
<1>5. CASE DoGetFails(q)
  <2>1. /\ pc[q] = "get" /\ pc'[q] = IF q \in expired THEN "findAgain" ELSE "done"
        /\ q \in failed' /\ UNCHANGED expired
        /\ UNCHANGED answers \/ Send(q, "part", NULL)
    BY <1>1, <1>5 DEF DoGetFails, At, Goto, AfterDoGet
  <2>2. Len(answers'[q]) \in {Len(answers[q]), Len(answers[q]) + 1}
    BY <2>1, SendAppends DEF HandlerInv
  <2> QED
    BY <1>1, <2>1, <2>2 DEF Counted, Unanswered
<1>6. CASE StoreNew(q) \/ KeepNew(q) \/ LogStored(q)
  <2>1. /\ pc[q] \in {"put", "log"}
        /\ pc'[q] \in {"log", IF q \in expired THEN "findAgain" ELSE "done"}
        /\ UNCHANGED <<answers, expired>>
    BY <1>1, <1>6 DEF StoreNew, KeepNew, LogStored, At, Goto, AfterDoGet
  <2>2. Len(answers'[q]) = 1 /\ (pc'[q] = "findAgain" => q \in expired')
    BY <2>1 DEF Counted
  <2> QED
    BY <2>1, <2>2 DEF Counted, Unanswered
<1>7. CASE FindAgain(q)
  BY <1>1, <1>7 DEF FindAgain, At, Goto, Counted, Unanswered
<1>8. CASE SendChecked(q) \/ BadGateway(q)
  <2>1. /\ pc[q] \in {"send", "badGateway"} /\ pc'[q] = "done" /\ UNCHANGED expired
        /\ \E kind, o : Send(q, kind, o)
    BY <1>1, <1>8 DEF SendChecked, BadGateway, At, Goto
  <2>2. Len(answers'[q]) = Len(answers[q]) + 1
    BY <2>1, SendAppends DEF HandlerInv
  <2> QED
    BY <1>1, <2>1, <2>2 DEF Counted, Unanswered
<1>9. CASE Abort(q) \/ WildCrash(q)
  BY <1>9 DEF Abort, WildCrash, Counted
<1> QED
  BY <1>2, <1>3, <1>4, <1>5, <1>6, <1>7, <1>8, <1>9 DEF Handle

\* What q holds of another handler's may be shared and has a lifetime.
LEMMA BorrowedStep ==
  ASSUME HandlerInv, NEW q \in Requests, Arrive(q) \/ Handle(q), Borrowed(q)
  PROVE  Borrowed(q)'
<1>1. /\ pc \in [Requests -> Locations] /\ ptr \in [Requests -> Requests \cup {NULL}]
  BY DEF HandlerInv, TypeOK
<1>2. OthersStay(q)
  BY HandlersStay
<1>3. CASE CheckGet(q) \/ FindAgain(q)
  <2>1. /\ ptr'[q] = holds[Key(q)]
        /\ pc'[q] \in Reading \cup {"recv"} => Key(q) \in Cached
    BY <1>1, <1>3 DEF CheckGet, FindAgain, Goto, Reading
  <2>2. Key(q) \in Cached => /\ ptr'[q] \in Constructed
                             /\ Shareable(ptr'[q])
                             /\ object[ptr'[q]].fields.maxAge # Absent
    BY <2>1 DEF HandlerInv, CachedIsServable, Shareable
  <2> QED
    BY <1>2, <2>1, <2>2 DEF Borrowed, Shareable, OthersStay
<1>4. CASE DoGet(q) \/ RecvModified(q)
  BY <1>1, <1>4 DEF DoGet, RecvModified, Construct, Borrowed
<1>5. CASE StoreNew(q) \/ Update(q)
  <2>1. ptr[q] = q /\ UNCHANGED ptr
    BY <1>5 DEF StoreNew, Update, At, HandlerInv, Ownership, Constructing
  <2> QED
    BY <2>1 DEF Borrowed
<1>6. CASE /\ UNCHANGED ptr
           /\ pc'[q] \in Reading \cup {"recv"} => pc[q] \in Reading \cup {"recv"}
  <2>1. pc[q] \in Reading \cup {"recv"} => ptr[q] \in Constructed
    BY DEF HandlerInv, Pointers
  <2> QED
    BY <1>2, <1>6, <2>1 DEF Borrowed, Shareable, OthersStay
<1>7. ASSUME Arrive(q) \/ CacheResponse(q) \/ EraseExpired(q) \/ DoGetFails(q) \/ KeepNew(q)
             \/ LogStored(q) \/ Revalidate(q) \/ RecvNotModified(q) \/ RecvNothing(q)
             \/ SendChecked(q) \/ BadGateway(q) \/ Abort(q) \/ WildCrash(q)
      PROVE  /\ UNCHANGED ptr
             /\ pc'[q] \in Reading \cup {"recv"} => pc[q] \in Reading \cup {"recv"}
  BY <1>1, <1>7 DEF Arrive, CacheResponse, EraseExpired, DoGetFails, KeepNew, LogStored,
     Revalidate, RecvNotModified, RecvNothing, SendChecked, BadGateway, Abort, WildCrash,
     At, Goto, AfterDoGet, Reading
<1> QED
  BY <1>3, <1>4, <1>5, <1>6, <1>7 DEF Handle

\* What a handler has sent of the response at its pointer, before the send is
\* noted: the pointer's own response, unless it reads a deleted one.
LEMMA SendCheckedSends ==
  ASSUME HandlerInv, NEW q \in Requests, SendChecked(q), q \notin wild'
  PROVE  /\ ptr[q] \in Constructed /\ object[ptr[q]].key = Key(q)
         /\ Send(q, "response", ptr[q])
<1>1. ptr[q] \notin Deleted
  BY DEF SendChecked, NoteRead, HandlerInv, TypeOK
<1>2. ptr[q] \in Constructed /\ object[ptr[q]].key = Key(q)
  BY DEF SendChecked, At, HandlerInv, Pointers, Reading
<1> QED
  BY <1>1, <1>2 DEF SendChecked, Seen

\* What a step of q sends, and that the request does not change after it.
LEMMA StepSends ==
  ASSUME HandlerInv, NEW q \in Requests, Arrive(q) \/ Handle(q)
  PROVE  /\ wild \subseteq wild' /\ asked \subseteq asked'
         /\ pc[q] # "idle" => request'[q] = request[q]
         /\ \/ answers'[q] = answers[q]
            \/ DoGet(q) /\ Send(q, "response", q)
            \/ DoGetFails(q) /\ Send(q, "part", NULL)
            \/ SendChecked(q)
            \/ BadGateway(q) /\ Send(q, "502", NULL)
<1>1. wild \subseteq wild' /\ asked \subseteq asked'
  BY DEF history, NoteRead, Arrive, Handle, CheckGet, CacheResponse, EraseExpired, DoGet,
         DoGetFails, StoreNew, KeepNew, LogStored, FindAgain, Revalidate, RecvNotModified,
         RecvModified, RecvNothing, Update, SendChecked, BadGateway, Abort, WildCrash
<1>2. pc[q] # "idle" => request'[q] = request[q]
  BY DEF At, Arrive, Handle, CheckGet, CacheResponse, EraseExpired, DoGet,
         DoGetFails, StoreNew, KeepNew, LogStored, FindAgain, Revalidate, RecvNotModified,
         RecvModified, RecvNothing, Update, SendChecked, BadGateway, Abort, WildCrash
<1>3. \/ answers'[q] = answers[q]
      \/ DoGet(q) /\ Send(q, "response", q)
      \/ DoGetFails(q) /\ Send(q, "part", NULL)
      \/ SendChecked(q)
      \/ BadGateway(q) /\ Send(q, "502", NULL)
  BY DEF Arrive, Handle, CheckGet, CacheResponse, EraseExpired, DoGet,
         DoGetFails, StoreNew, KeepNew, LogStored, FindAgain, Revalidate, RecvNotModified,
         RecvModified, RecvNothing, Update, BadGateway, Abort, WildCrash
<1> QED
  BY <1>1, <1>2, <1>3

\* What q sends is a response for its own line that it may send.
LEMMA SentWellStep ==
  ASSUME HandlerInv, HandlerInv', NEW q \in Requests, Arrive(q) \/ Handle(q),
         Counted(q), Borrowed(q), SentWell(q)
  PROVE  SentWell(q)'
<1> SUFFICES ASSUME q \notin wild', NEW i \in 1 .. Len(answers'[q]),
                    NEW kind, NEW o, answers'[q][i].kind = kind, answers'[q][i].of = o,
                    kind = "response"
             PROVE  MaySend(q, o)'
  BY DEF SentWell, MaySend, Shareable, Key, Constructed
<1>1. /\ wild \subseteq wild'
      /\ pc[q] # "idle" => request'[q] = request[q]
      /\ \/ answers'[q] = answers[q]
         \/ DoGet(q) /\ Send(q, "response", q)
         \/ DoGetFails(q) /\ Send(q, "part", NULL)
         \/ SendChecked(q)
         \/ BadGateway(q) /\ Send(q, "502", NULL)
  BY StepSends
<1>2. \A x \in Constructed : object'[x] = object[x] /\ x \in Constructed'
  BY HandlersStay DEF OthersStay
<1>3. ASSUME NEW x \in Requests, pc[q] # "idle", MaySend(q, x)
      PROVE  MaySend(q, x)'
  BY <1>1, <1>2, <1>3 DEF MaySend, Shareable, Key
<1>4. ASSUME i \in 1 .. Len(answers[q]), answers'[q][i] = answers[q][i]
      PROVE  MaySend(q, o)'
  <2>1. pc[q] # "idle"
    BY <1>4 DEF Counted, Unanswered
  <2>2. MaySend(q, o)
    BY <1>1, <1>4 DEF SentWell
  <2> QED
    BY <1>3, <2>1, <2>2 DEF MaySend, Constructed
<1>5. ASSUME NEW k, NEW x, Send(q, k, x), k = "response" => MaySend(q, x)'
      PROVE  MaySend(q, o)'
  <2>1. /\ Len(answers[q]) \in Nat /\ Len(answers'[q]) = Len(answers[q]) + 1
        /\ answers'[q][Len(answers[q]) + 1] = [kind |-> k, of |-> x]
        /\ \A j \in 1 .. Len(answers[q]) : answers'[q][j] = answers[q][j]
    BY <1>5, SendAppends DEF HandlerInv
  <2>2. CASE i = Len(answers[q]) + 1
    <3>1. k = kind /\ x = o
      BY <2>1, <2>2
    <3> QED
      BY <1>5, <3>1
  <2>3. CASE i \in 1 .. Len(answers[q])
    BY <1>4, <2>1, <2>3
  <2> QED
    BY <2>1, <2>2, <2>3
<1>6. CASE answers'[q] = answers[q]
  BY <1>4, <1>6
<1>7. CASE DoGet(q) /\ Send(q, "response", q)
  <2>1. pc'[q] = "put"
    BY <1>7 DEF DoGet, Goto, HandlerInv, TypeOK
  <2>2. MaySend(q, q)'
    BY <2>1 DEF HandlerInv, Ownership, Constructing, Constructed, MaySend
  <2> QED
    BY <1>5, <1>7, <2>2
<1>8. CASE \/ DoGetFails(q) /\ Send(q, "part", NULL)
           \/ BadGateway(q) /\ Send(q, "502", NULL)
  BY <1>5, <1>8
<1>9. CASE SendChecked(q)
  <2>1. /\ ptr[q] \in Constructed /\ object[ptr[q]].key = Key(q)
        /\ Send(q, "response", ptr[q])
    BY <1>9, SendCheckedSends
  <2>2. pc[q] = "send"
    BY <1>9 DEF SendChecked, At
  <2>3. MaySend(q, ptr[q])
    BY <2>1, <2>2 DEF Borrowed, Reading, MaySend
  <2>4. PICK x \in Requests : x = ptr[q]
    BY <2>1 DEF Constructed
  <2> QED
    BY <1>3, <1>5, <2>1, <2>2, <2>3, <2>4
<1> QED
  BY <1>1, <1>6, <1>7, <1>8, <1>9

-------------------------------------------------------------------------------
\* What cacheResponse has found out when it does not find an entry expired.
LEMMA InspectedNotLate ==
  ASSUME HandlerInv, Expires, NEW q \in Requests, CacheResponse(q), Borrowed(q),
         request[q].arrived <= now, q \notin wild', pc'[q] = "revalidate"
  PROVE  NotLate(ptr[q], q)
<1> DEFINE f == object[ptr[q]].fields
<1>1. pc[q] = "inspect" /\ request[q] # NULL /\ pc \in [Requests -> Locations] /\ now \in Int
  BY TimeAssumption DEF CacheResponse, At, HandlerInv, TypeOK, Ownership
<1>2. ptr[q] \in Constructed /\ ptr[q] # q
  BY <1>1 DEF HandlerInv, Pointers, Ownership, Reading, AfterConstruct, Constructing, Constructed
<1>3. ptr[q] \notin Deleted
  BY DEF CacheResponse, NoteRead, HandlerInv, TypeOK
<1>4. PICK late \in FoundExpired(f, request[q].maxStale) :
        pc'[q] = IF late THEN "erase" ELSE "revalidate"
  BY <1>1, <1>3 DEF CacheResponse, Seen, Goto
<1>5. ~late
  BY <1>4
<1>6. f.maxAge # Absent /\ f.maxAge \in Int /\ f.expirationTime \in Int
  <2>1. object[ptr[q]] \in Object
    BY <1>2 DEF Constructed, HandlerInv, TypeOK
  <2>2. f \in ResponseFields
    BY <2>1 DEF Object
  <2>3. f.maxAge # Absent
    BY <1>1, <1>2 DEF Borrowed, Reading
  <2>4. f.expirationTime \in Int
    BY <1>2, <2>3 DEF Expires
  <2> QED
    BY <2>2, <2>3, <2>4 DEF ResponseFields
<1>7. request[q].maxStale \in Int /\ request[q].arrived \in Int
  <2>1. request[q] \in RequestRecord
    BY <1>1 DEF HandlerInv, TypeOK
  <2>2. request[q].maxStale \in StaleTimes /\ request[q].arrived \in 0 .. MaxTime
    BY <2>1 DEF RequestRecord
  <2>3. request[q].maxStale \in Int
    BY <2>2, StaleAssumption
  <2>4. request[q].arrived \in Int
    BY <2>2, TimeAssumption
  <2> QED
    BY <2>3, <2>4
<1> HIDE DEF f
<1>8. f.noCache \/ ~(f.maxAge > 0) \/ f.expirationTime + request[q].maxStale > now
  BY <1>4, <1>5, <1>6 DEF FoundExpired, NoExpired
<1>9. f.noCache \/ f.maxAge <= 0 \/ f.expirationTime + request[q].maxStale > request[q].arrived
  BY <1>1, <1>6, <1>7, <1>8
<1> QED
  BY <1>9 DEF NotLate, f

\* What an answer that nobody was asked for has to be.
LEMMA UnaskedStep ==
  ASSUME HandlerInv, HandlerInv', Expires, NEW q \in Requests, Arrive(q) \/ Handle(q),
         Counted(q), Borrowed(q), Unasked(q)
  PROVE  Unasked(q)'
<1> DEFINE Unaided(o) ==
      o \in Constructed /\ ~object[o].fields.hasValidator /\ NotLate(o, q)
<1>1. /\ pc \in [Requests -> Locations] /\ ptr \in [Requests -> Requests \cup {NULL}]
      /\ request \in [Requests -> RequestRecord \cup {NULL}] /\ now \in Int
  BY TimeAssumption DEF HandlerInv, TypeOK
<1>2. /\ wild \subseteq wild' /\ asked \subseteq asked'
      /\ pc[q] # "idle" => request'[q] = request[q]
      /\ \/ answers'[q] = answers[q]
         \/ DoGet(q) /\ Send(q, "response", q)
         \/ DoGetFails(q) /\ Send(q, "part", NULL)
         \/ SendChecked(q)
         \/ BadGateway(q) /\ Send(q, "502", NULL)
  BY StepSends
<1>3. now' = now /\ \A x \in Constructed : object'[x] = object[x] /\ x \in Constructed'
  BY HandlersStay DEF OthersStay
<1>4. ASSUME NEW x \in Requests, pc[q] # "idle", Unaided(x)
      PROVE  Unaided(x)'
  BY <1>2, <1>3, <1>4 DEF NotLate
<1>5. pc'[q] \in Asking => q \in asked'
  BY <1>1, <1>2 DEF Unasked, Asking, Arrive, Handle, CheckGet, CacheResponse, EraseExpired,
     DoGet, DoGetFails, StoreNew, KeepNew, LogStored, FindAgain, Revalidate, RecvNotModified,
     RecvModified, RecvNothing, Update, SendChecked, BadGateway, Abort, WildCrash, At, Goto,
     HandlerInv, TypeOK
<1>6. pc'[q] # "idle" => request'[q].arrived <= now'
  <2>1. CASE Arrive(q)
    BY <1>1, <1>3, <2>1 DEF Arrive
  <2>2. CASE Handle(q)
    <3>1. pc[q] # "idle"
      BY <2>2 DEF Handle, CheckGet, CacheResponse, EraseExpired, DoGet, DoGetFails,
         StoreNew, KeepNew, LogStored, FindAgain, Revalidate, RecvNotModified, RecvModified,
         RecvNothing, Update, SendChecked, BadGateway, Abort, WildCrash, At, Reading
    <3> QED
      BY <1>2, <1>3, <3>1 DEF Unasked
  <2> QED
    BY <2>1, <2>2
<1>7. ASSUME q \notin wild' \cup asked'
      PROVE  /\ pc'[q] \in {"revalidate", "send"} => NotLate(ptr[q], q)' /\ UNCHANGED ptr
             /\ pc'[q] = "send" => ~object'[ptr[q]].fields.hasValidator
  <2>1. \/ pc'[q] \notin {"revalidate", "send"}
        \/ CacheResponse(q) /\ pc'[q] = "revalidate"
        \/ Revalidate(q) /\ pc'[q] = "send"
    BY <1>1, <1>2, <1>7 DEF Unasked, Asking, Arrive, Handle, CheckGet, CacheResponse,
       EraseExpired, DoGet, DoGetFails, StoreNew, KeepNew, LogStored, FindAgain, Revalidate,
       RecvNotModified, RecvModified, RecvNothing, Update, SendChecked, BadGateway, Abort,
       WildCrash, NoteRead, AfterDoGet, At, Goto, HandlerInv, TypeOK
  <2>2. CASE CacheResponse(q) /\ pc'[q] = "revalidate"
    <3>1. /\ pc[q] = "inspect" /\ UNCHANGED <<ptr, object, request>>
          /\ request[q].arrived <= now
      BY <2>2 DEF CacheResponse, At, Unasked
    <3>2. NotLate(ptr[q], q)
      BY <1>7, <2>2, <3>1, InspectedNotLate
    <3> QED
      BY <2>2, <3>1, <3>2 DEF NotLate
  <2>3. CASE Revalidate(q) /\ pc'[q] = "send"
    <3>1. ptr[q] \notin Deleted /\ pc[q] = "revalidate" /\ UNCHANGED <<ptr, object, request>>
      BY <1>7, <2>3 DEF Revalidate, NoteRead, At, HandlerInv, TypeOK
    <3>2. NotLate(ptr[q], q)
      BY <1>2, <1>7, <3>1 DEF Unasked
    <3>3. ~object[ptr[q]].fields.hasValidator
      BY <1>1, <2>3, <3>1 DEF Revalidate, Seen, Goto
    <3> QED
      BY <3>1, <3>2, <3>3 DEF NotLate
  <2> QED
    BY <2>1, <2>2, <2>3
<1>8. ASSUME q \notin wild' \cup asked', NEW i \in 1 .. Len(answers'[q]),
             NEW o, o = answers'[q][i].of
      PROVE  Unaided(o)'
  <2>1. q \notin wild \cup asked
    BY <1>2, <1>8
  <2>2. ASSUME i \in 1 .. Len(answers[q]), answers'[q][i] = answers[q][i]
        PROVE  Unaided(o)'
    <3>1. pc[q] # "idle"
      BY <2>2 DEF Counted, Unanswered
    <3>2. Unaided(o)
      BY <1>8, <2>1, <2>2 DEF Unasked
    <3> QED
      BY <1>4, <3>1, <3>2 DEF Constructed
  <2>3. CASE answers'[q] = answers[q]
    BY <1>8, <2>2, <2>3
  <2>4. CASE SendChecked(q)
    <3>1. /\ ptr[q] \in Constructed /\ pc[q] = "send"
          /\ Send(q, "response", ptr[q])
      BY <1>8, <2>4, SendCheckedSends DEF SendChecked, At
    <3>2. /\ Len(answers[q]) \in Nat /\ Len(answers'[q]) = Len(answers[q]) + 1
          /\ answers'[q][Len(answers[q]) + 1] = [kind |-> "response", of |-> ptr[q]]
          /\ \A j \in 1 .. Len(answers[q]) : answers'[q][j] = answers[q][j]
      BY <3>1, SendAppends DEF HandlerInv
    <3>3. CASE i = Len(answers[q]) + 1
      <4>1. o = ptr[q] /\ o \in Requests
        BY <1>8, <3>1, <3>2, <3>3 DEF Constructed
      <4>2. Unaided(o)
        BY <2>1, <3>1, <4>1 DEF Unasked
      <4> QED
        BY <1>4, <3>1, <4>1, <4>2
    <3>4. CASE i \in 1 .. Len(answers[q])
      BY <2>2, <3>2, <3>4
    <3> QED
      BY <3>2, <3>3, <3>4
  <2>5. ~DoGet(q) /\ ~DoGetFails(q) /\ ~BadGateway(q)
    BY <1>8, <2>1 DEF DoGet, DoGetFails, BadGateway, At, Unasked, Asking
  <2> QED
    BY <1>2, <2>3, <2>4, <2>5
<1> QED
  BY <1>5, <1>6, <1>7, <1>8 DEF Unasked, NotLate, Constructed

-------------------------------------------------------------------------------
\* put and erase delete every response that they take out of the map.
LEMMA PutDeletesDropped ==
  ASSUME LRUInv, NEW k \in Keys, NEW r \in Responses, Put(k, r),
         NEW x \in Cached, holds'[x] # holds[x]
  PROVE  holds[x] \in PutDeletes(k)
<1>1. holds \in [Keys -> Responses \cup {NULL}] /\ x \in Keys
  BY DEF LRUInv, LRUTypeOK, Cached
<1>2. CASE Replace(k, r)
  BY <1>1, <1>2 DEF Replace, PutDeletes
<1>3. CASE Insert(k, r)
  BY <1>1, <1>3 DEF Insert
<1>4. CASE Evict(k, r)
  <2>1. ~(Len(recency) < Capacity) /\ k \notin Cached
    BY <1>4, OrderLists, CapacityAssumption DEF Evict
  <2>2. x = Last(recency)
    BY <1>1, <1>4 DEF Evict
  <2> QED
    BY <2>1, <2>2 DEF PutDeletes
<1> QED
  BY <1>2, <1>3, <1>4 DEF Put

\* The response that erase takes from the cache is the one it deletes.
LEMMA EraseDeletesDropped ==
  ASSUME LRUInv, NEW k \in Keys, Erase(k), NEW x \in Cached, holds'[x] # holds[x]
  PROVE  holds[x] \in EraseDeletes(k)
  BY DEF LRUInv, LRUTypeOK, Cached, Erase, EraseDeletes

\* Keeping Kept, for a step that constructs nothing: what leaves the cache is
\* deleted, and what leaves its handler's hands is in the cache or may not be.
LEMMA KeptWhen ==
  ASSUME HandlerInv, Kept, NEW q \in Requests, OthersStay(q),
         UNCHANGED object, Deleted \subseteq Deleted',
         \A o \in Requests : InCache(o) => InCache(o)' \/ o \in Deleted',
         \/ pc[q] \notin Constructing
         \/ pc'[q] = pc[q]
         \/ InCache(q)'
         \/ ~AbleToCache(object[q].fields)
  PROVE  Kept'
<1> SUFFICES ASSUME NEW o \in Constructed' \ Deleted',
                    pc'[o] \notin Constructing, AbleToCache(object'[o].fields)
             PROVE  InCache(o)'
  BY DEF Kept
<1>1. o \in Requests /\ o \in Constructed \ Deleted /\ object'[o] = object[o]
  BY DEF Constructed
<1>2. pc[o] \in Constructing \/ InCache(o)
  BY <1>1 DEF Kept
<1>3. CASE InCache(o)
  BY <1>1, <1>3
<1>4. CASE pc[o] \in Constructing
  <2>1. o = q
    BY <1>1, <1>4 DEF OthersStay
  <2> QED
    BY <1>1, <1>4, <2>1
<1> QED
  BY <1>2, <1>3, <1>4

\* A response that leaves the cache, or is never put, is deleted or not for caching.
LEMMA KeptStep ==
  ASSUME HandlerInv, NEW q \in Requests, Arrive(q) \/ Handle(q), Kept
  PROVE  Kept'
<1>1. pc \in [Requests -> Locations] /\ object \in [Requests -> Object \cup {NULL}]
  BY DEF HandlerInv, TypeOK
<1>2. OthersStay(q)
  BY HandlersStay
<1>3. \A k \in Keys, o \in Requests : holds[k] = o => k \in Cached
  BY NullAssumption, RequestsAssumption DEF Cached
<1>4. CASE DoGet(q) \/ RecvModified(q)
  <2>1. /\ pc'[q] \in Constructing /\ UNCHANGED <<holds, deletedBy>>
        /\ \A o \in Requests \ {q} : object'[o] = object[o]
    BY <1>1, <1>4 DEF DoGet, RecvModified, Construct, Goto, cacheVars, Constructing
  <2> SUFFICES ASSUME NEW o \in Constructed' \ Deleted'
               PROVE  pc'[o] \in Constructing \/ ~AbleToCache(object'[o].fields) \/ InCache(o)'
    BY DEF Kept
  <2>2. CASE o = q
    BY <2>1, <2>2
  <2>3. CASE o # q
    BY <1>2, <2>1, <2>3 DEF Kept, Constructed, Deleted, InCache, OthersStay
  <2> QED
    BY <2>2, <2>3
<1>5. CASE (StoreNew(q) \/ Update(q)) /\ AbleToCache(object[q].fields)
  <2>1. PutOwn(q) /\ UNCHANGED object /\ pc[q] \in Constructing
    BY <1>5 DEF StoreNew, Update, At, Constructing
  <2>2. Key(q) \in Keys /\ q \in Responses /\ Put(Key(q), q)
    BY <2>1, KeyType, RequestsAssumption DEF HandlerInv, Ownership, Constructing, PutOwn
  <2>3. q \notin {holds[x] : x \in Keys}
    BY <2>1 DEF HandlerInv, Ownership, InCache
  <2>4. holds'[Key(q)] = q
    BY <2>2, <2>3, PutEffect DEF HandlerInv
  <2>5. InCache(q)'
    BY <2>2, <2>4 DEF InCache
  <2>6. \A o \in Requests : o \in Deleted' <=> o \in Deleted \/ o \in PutDeletes(Key(q))
    BY <2>1, NullIsNoRecord DEF PutOwn, Delete, Deleted, Deletion
  <2>7. ASSUME NEW o \in Requests, InCache(o), ~InCache(o)'
        PROVE  o \in Deleted'
    <3>1. PICK x \in Keys : holds[x] = o
      BY <2>7 DEF InCache
    <3>2. x \in Cached /\ holds'[x] # holds[x]
      BY <1>3, <2>7, <3>1 DEF InCache
    <3>3. holds[x] \in PutDeletes(Key(q))
      BY <2>2, <3>2, PutDeletesDropped DEF HandlerInv
    <3> QED
      BY <2>6, <3>1, <3>3
  <2>8. Deleted \subseteq Deleted'
    BY <2>6 DEF Deleted
  <2> QED
    BY <1>2, <2>1, <2>5, <2>7, <2>8, KeptWhen
<1>6. CASE EraseExpired(q)
  <2>1. Erase(Key(q)) /\ Delete(q, EraseDeletes(Key(q)), "erase") /\ UNCHANGED object
        /\ pc[q] = "erase"
    BY <1>6 DEF EraseExpired, At
  <2>2. Key(q) \in Keys
    BY <2>1, KeyType DEF HandlerInv, Ownership
  <2>3. \A o \in Requests : o \in Deleted' <=> o \in Deleted \/ o \in EraseDeletes(Key(q))
    BY <2>1, NullIsNoRecord DEF Delete, Deleted, Deletion
  <2>4. ASSUME NEW o \in Requests, InCache(o), ~InCache(o)'
        PROVE  o \in Deleted'
    <3>1. PICK x \in Keys : holds[x] = o
      BY <2>4 DEF InCache
    <3>2. x \in Cached /\ holds'[x] # holds[x]
      BY <1>3, <2>4, <3>1 DEF InCache
    <3>3. holds[x] \in EraseDeletes(Key(q))
      BY <2>1, <2>2, <3>2, EraseDeletesDropped DEF HandlerInv
    <3> QED
      BY <2>3, <3>1, <3>3
  <2>5. Deleted \subseteq Deleted'
    BY <2>3 DEF Deleted
  <2> QED
    BY <1>2, <2>1, <2>4, <2>5, KeptWhen DEF Constructing
<1>7. ASSUME \/ Arrive(q) \/ CheckGet(q) \/ CacheResponse(q) \/ DoGetFails(q) \/ KeepNew(q)
             \/ LogStored(q) \/ FindAgain(q) \/ Revalidate(q) \/ RecvNotModified(q)
             \/ RecvNothing(q) \/ SendChecked(q) \/ BadGateway(q) \/ Abort(q) \/ WildCrash(q)
             \/ (Update(q) /\ ~AbleToCache(object[q].fields))
      PROVE  Kept'
  <2>1. UNCHANGED <<object, holds, deletedBy>>
    BY <1>7 DEF Arrive, CheckGet, CacheResponse, DoGetFails, KeepNew, LogStored, FindAgain,
       Revalidate, RecvNotModified, RecvNothing, SendChecked, BadGateway, Abort, WildCrash,
       Update, Find, cacheVars
  <2>2. pc[q] \notin Constructing \/ pc'[q] = pc[q] \/ ~AbleToCache(object[q].fields)
    BY <1>7 DEF Arrive, CheckGet, CacheResponse, DoGetFails, KeepNew, LogStored, FindAgain,
       Revalidate, RecvNotModified, RecvNothing, SendChecked, BadGateway, Abort, WildCrash,
       Update, At, Constructing
  <2>3. Deleted \subseteq Deleted' /\ \A o \in Requests : InCache(o) => InCache(o)'
    BY <2>1 DEF Deleted, InCache
  <2> QED
    BY <1>2, <2>1, <2>2, <2>3, KeptWhen
<1> QED
  BY <1>4, <1>5, <1>6, <1>7 DEF Handle, StoreNew

\* The constructor gives an expiration time with every lifetime.
LEMMA ExpiresStep ==
  ASSUME HandlerInv, NEW q \in Requests, Arrive(q) \/ Handle(q), Expires
  PROVE  Expires'
<1>1. CASE DoGet(q) \/ RecvModified(q)
  <2>1. PICK h \in OriginHeaders : Construct(q, h)
    BY <1>1 DEF DoGet, RecvModified
  <2>2. now \in Int /\ object \in [Requests -> Object \cup {NULL}]
    BY TimeAssumption DEF HandlerInv, TypeOK
  <2>3. h \in HeaderSet
    BY OriginAssumption
  <2>4. Parse(h, now) \in ResponseFields
    BY <2>2, <2>3, ParseType
  <2>5. Parse(h, now).maxAge # Absent => Parse(h, now).expirationTime \in Int
    <3>1. Parse(h, now).maxAge = Lifetime(h, now)
      BY DEF Parse
    <3>2. Parse(h, now).expirationTime = IF Lifetime(h, now) = Absent THEN Absent
                                         ELSE now + Lifetime(h, now)
      BY DEF Parse
    <3>3. Lifetime(h, now) \in Int \cup {Absent}
      BY <2>4, <3>1 DEF ResponseFields
    <3> QED
      BY <2>2, <3>1, <3>2, <3>3
  <2>6. /\ object'[q].fields = Parse(h, now)
        /\ \A o \in Requests \ {q} : object'[o] = object[o]
    BY <2>1, <2>2 DEF Construct
  <2> QED
    BY <2>5, <2>6 DEF Expires, Constructed
<1>2. CASE ~(DoGet(q) \/ RecvModified(q))
  <2>1. UNCHANGED object
    BY <1>2 DEF Arrive, Handle, CheckGet, CacheResponse, EraseExpired, DoGetFails,
       StoreNew, KeepNew, LogStored, FindAgain, Revalidate, RecvNotModified,
       RecvNothing, Update, SendChecked, BadGateway, Abort, WildCrash
  <2> QED
    BY <2>1 DEF Expires, Constructed
<1> QED
  BY <1>1, <1>2

-------------------------------------------------------------------------------
\* No step of a handler breaks the second part of the invariant.
LEMMA AnswerStep ==
  ASSUME HandlerInv, HandlerInv', AnswerInv, NEW q \in Requests, Arrive(q) \/ Handle(q)
  PROVE  AnswerInv'
<1>1. Expires' /\ Kept'
  BY ExpiresStep, KeptStep DEF AnswerInv
<1>2. Story(q)'
  BY CountedStep, BorrowedStep, SentWellStep, UnaskedStep DEF AnswerInv, Story
<1>3. ASSUME NEW p \in Requests \ {q} PROVE Story(p)'
  BY HandlersStay, OthersKeep DEF AnswerInv
<1> QED
  BY <1>1, <1>2, <1>3 DEF AnswerInv

(***************************************************************************)
(* The second part of the handlers' inductive invariant: what each of them *)
(* has sent so far, and what it knows of the response it is about to send. *)
(***************************************************************************)
THEOREM AnswersInvariant == Spec => []AnswerInv
<1>1. Init => AnswerInv
  <2> SUFFICES ASSUME Init PROVE AnswerInv
    OBVIOUS
  <2>1. Constructed = {}
    BY DEF Init, Constructed
  <2>2. ASSUME NEW q \in Requests PROVE Story(q)
    <3>1. pc[q] = "idle" /\ answers[q] = <<>> /\ q \notin expired
      BY DEF Init
    <3> QED
      BY <3>1 DEF Story, Counted, Borrowed, SentWell, Unasked, Reading, Asking
  <2> QED
    BY <2>1, <2>2 DEF AnswerInv, Expires, Kept
<1>2. HandlerInv /\ HandlerInv' /\ AnswerInv /\ [Next]_vars => AnswerInv'
  <2> SUFFICES ASSUME HandlerInv, HandlerInv', AnswerInv, [Next]_vars PROVE AnswerInv'
    OBVIOUS
  <2>1. CASE UNCHANGED vars
    <3>1. UNCHANGED <<cacheVars, pc, request, ptr, object, deletedBy, expired, answers, history>>
          /\ now' = now
      BY <2>1 DEF vars
    <3>2. Expires' /\ Kept'
      BY <3>1 DEF AnswerInv, Expires, Kept, InCache, Constructed, Deleted, cacheVars
    <3>3. ASSUME NEW q \in Requests PROVE Story(q)'
      <4>1. Counted(q)' /\ Borrowed(q)' /\ SentWell(q)'
        BY <3>1 DEF AnswerInv, Story, Counted, Borrowed, Shareable, SentWell, MaySend, Key,
           Constructed, history
      <4>2. Unasked(q)'
        BY <3>1 DEF AnswerInv, Story, Unasked, NotLate, Constructed, history
      <4> QED
        BY <4>1, <4>2 DEF Story
    <3> QED
      BY <3>2, <3>3 DEF AnswerInv
  <2>2. CASE Tick
    <3>1. UNCHANGED <<cacheVars, pc, request, ptr, object, deletedBy, expired, answers, history>>
          /\ now' = now + 1
      BY <2>2 DEF Tick
    <3>2. Expires' /\ Kept'
      BY <3>1 DEF AnswerInv, Expires, Kept, InCache, Constructed, Deleted, cacheVars
    <3>3. ASSUME NEW q \in Requests PROVE Story(q)'
      <4>1. Counted(q)' /\ Borrowed(q)' /\ SentWell(q)'
        BY <3>1 DEF AnswerInv, Story, Counted, Borrowed, Shareable, SentWell, MaySend, Key,
           Constructed, history
      <4>2. pc[q] # "idle" => request[q].arrived <= now + 1
        <5>1. pc[q] # "idle" => request[q] \in RequestRecord
          BY DEF HandlerInv, TypeOK, Ownership
        <5>2. pc[q] # "idle" => request[q].arrived \in 0 .. MaxTime
          BY <5>1 DEF RequestRecord
        <5>3. pc[q] # "idle" => request[q].arrived <= now
          BY DEF AnswerInv, Story, Unasked
        <5>4. now \in 0 .. MaxTime
          BY DEF HandlerInv, TypeOK
        <5> QED
          BY <5>2, <5>3, <5>4, TimeAssumption
      <4>3. Unasked(q)'
        BY <3>1, <4>2 DEF AnswerInv, Story, Unasked, NotLate, Constructed, history
      <4> QED
        BY <4>1, <4>3 DEF Story
    <3> QED
      BY <3>2, <3>3 DEF AnswerInv
  <2>3. ASSUME NEW q \in Requests, Arrive(q) \/ Handle(q) PROVE AnswerInv'
    BY <2>3, AnswerStep
  <2> QED
    BY <2>1, <2>2, <2>3 DEF Next, Finished
<1> QED
  BY <1>1, <1>2, HandlerInvariant, PTL DEF Spec

(***************************************************************************)
(* A browser gets a second answer only after its request has found an      *)
(* expired entry, never a third, and none only when do_get has failed.     *)
(***************************************************************************)
THEOREM AnswersAreCounted == Spec => []AnswerCount
<1>1. HandlerInv /\ AnswerInv => AnswerCount
  <2> SUFFICES ASSUME HandlerInv, AnswerInv, NEW q \in Requests
               PROVE  /\ Len(answers[q]) <= IF q \in expired THEN 2 ELSE 1
                      /\ pc[q] = "done" /\ answers[q] = <<>> => q \in failed \ expired
    BY DEF AnswerCount
  <2> DEFINE n == Len(answers[q])
  <2>1. pc[q] \in Locations /\ n \in Nat
    BY DEF HandlerInv, TypeOK
  <2>2. answers[q] = <<>> => n = 0
    OBVIOUS
  <2>3. /\ pc[q] \in Unanswered => n = 0
        /\ pc[q] \in {"put", "log"} => n = 1
        /\ pc[q] = "findAgain" => q \in expired /\ n <= 1
        /\ pc[q] \in {"send", "badGateway"} => n <= IF q \in expired THEN 1 ELSE 0
        /\ pc[q] = "done" => n <= IF q \in expired THEN 2 ELSE 1
        /\ pc[q] = "done" /\ n = 0 => q \in failed \ expired
    BY DEF AnswerInv, Story, Counted
  <2> HIDE DEF n
  <2>4. n <= IF q \in expired THEN 2 ELSE 1
    BY <2>1, <2>3 DEF Locations, Unanswered
  <2> QED
    BY <2>2, <2>3, <2>4 DEF n
<1> QED
  BY <1>1, HandlerInvariant, AnswersInvariant, PTL

(***************************************************************************)
(* What a handler passes on from another was received for the same line    *)
(* and was neither private nor no-store.                                   *)
(***************************************************************************)
THEOREM OnlyShareableIsShared == Spec => []SharedAnswersAreShareable
<1>1. AnswerInv => SharedAnswersAreShareable
  BY DEF AnswerInv, Story, SentWell, MaySend, Shareable, SharedAnswersAreShareable
<1> QED
  BY <1>1, AnswersInvariant, PTL

(***************************************************************************)
(* An answer given without asking the server was not late when the request *)
(* arrived, as far as the code looks at it, and could not be revalidated.  *)
(***************************************************************************)
THEOREM UnaskedIsFresh == Spec => []UnaskedAnswersAreFresh
<1>1. AnswerInv => UnaskedAnswersAreFresh
  BY DEF AnswerInv, Story, Unasked, NotLate, UnaskedAnswersAreFresh
<1> QED
  BY <1>1, AnswersInvariant, PTL

(***************************************************************************)
(* A response that may be cached is never lost: when its handler is done   *)
(* it is in the cache or has been deleted.                                 *)
(***************************************************************************)
THEOREM NothingCacheableLeaks == Spec => []OnlyUncacheableLeaks
<1>1. AnswerInv => OnlyUncacheableLeaks
  BY DEF AnswerInv, Kept, Constructing, InCache, OnlyUncacheableLeaks
<1> QED
  BY <1>1, AnswersInvariant, PTL
===============================================================================
