------------------------------ MODULE Cache_proofs ------------------------------
(***************************************************************************)
(* The pointers of class Cache form one list whatever the calls, for every *)
(* set of keys, addresses and responses and every capacity; each call is a *)
(* step of the abstract map LRUCache; and, with the history of MCCache, an *)
(* entry used recently is there.                                           *)
(***************************************************************************)
EXTENDS MCCache, FiniteSetTheorems, SequenceTheorems, TLAPS

LinksType ==
  [prev : [Address -> Address \cup {NULL}], next : [Address -> Address \cup {NULL}]]

(***************************************************************************)
(* Path p reads list l: from head, place 0, through the n nodes of set N,  *)
(* each once, to tail, place n + 1, and back.                              *)
(***************************************************************************)
Reads(l, p, n, N) ==
  /\ p \in [0 .. n + 1 -> Address]
  /\ p[0] = head /\ p[n + 1] = tail
  /\ \A i \in 1 .. n : p[i] \in N
  /\ \A a \in N : \E i \in 1 .. n : p[i] = a
  /\ \A i, j \in 0 .. n + 1 : p[i] = p[j] => i = j
  /\ \A i \in 0 .. n : l.next[p[i]] = p[i + 1] /\ l.prev[p[i + 1]] = p[i]

\* Some path reads the list of allocated nodes: no node is out of its reach.
Readable == \E n \in Nat : \E p \in [0 .. n + 1 -> Address] : Reads(links, p, n, Linked)

CacheInv == TypeOK /\ MapMatchesNodes /\ OwnsLiveResponses /\ Readable

\* The path after addToHead(a), and after removeNode of its j-th node.
WithFirst(p, n, a) ==
  [i \in 0 .. n + 2 |-> IF i = 0 THEN head ELSE IF i = 1 THEN a ELSE p[i - 1]]
Without(p, n, j) == [i \in 0 .. n |-> IF i < j THEN p[i] ELSE p[i + 1]]
-------------------------------------------------------------------------------
\* addToHead makes a node that is not in the list its first.
LEMMA AddReads ==
  ASSUME NEW l \in LinksType, NEW n \in Nat, NEW N \in SUBSET Nodes, NEW p,
         Reads(l, p, n, N), NEW a \in Nodes, a \notin N
  PROVE  /\ AddToHead(l, a) \in LinksType
         /\ Reads(AddToHead(l, a), WithFirst(p, n, a), n + 1, N \cup {a})
<1> DEFINE m == AddToHead(l, a)
           q == WithFirst(p, n, a)
           first == l.next[head]
<1>1. /\ head \in Address /\ tail \in Address /\ a \in Address /\ Nodes \subseteq Address
      /\ head # tail /\ head \notin Nodes /\ tail \notin Nodes
  BY AddressAssumption DEF Address
<1>2. /\ p \in [0 .. n + 1 -> Address] /\ p[0] = head /\ p[n + 1] = tail
      /\ \A i \in 1 .. n : p[i] \in N
      /\ \A b \in N : \E i \in 1 .. n : p[i] = b
      /\ \A i, j \in 0 .. n + 1 : p[i] = p[j] => i = j
      /\ \A i \in 0 .. n : l.next[p[i]] = p[i + 1] /\ l.prev[p[i + 1]] = p[i]
  BY DEF Reads
<1>3. first = p[1] /\ first \in Address
  <2>1. 0 \in 0 .. n /\ 0 + 1 = 1 /\ 1 \in 0 .. n + 1
    OBVIOUS
  <2> QED
    BY <1>2, <2>1
<1>4. /\ m.prev = [l.prev EXCEPT ![a] = head, ![first] = a]
      /\ m.next = [l.next EXCEPT ![a] = first, ![head] = a]
      /\ m = [prev |-> m.prev, next |-> m.next]
  BY DEF AddToHead
<1>5. /\ l.prev \in [Address -> Address \cup {NULL}]
      /\ l.next \in [Address -> Address \cup {NULL}]
  BY DEF LinksType
<1> HIDE DEF m, first
<1>6. /\ m.prev \in [Address -> Address \cup {NULL}]
      /\ m.next \in [Address -> Address \cup {NULL}]
  BY <1>1, <1>3, <1>4, <1>5
<1>7. m \in LinksType
  BY <1>4, <1>6 DEF LinksType
<1>8. \A i \in 1 .. n + 1 : p[i] # a /\ p[i] # head
  <2> TAKE i \in 1 .. n + 1
  <2>1. i \in 0 .. n + 1 /\ 0 \in 0 .. n + 1 /\ i # 0 /\ (i \in 1 .. n \/ i = n + 1)
    OBVIOUS
  <2> QED
    BY <1>1, <1>2, <2>1
<1>9. /\ m.next[head] = a /\ m.next[a] = first
      /\ m.prev[first] = a /\ (a # first => m.prev[a] = head)
      /\ \A b \in Address : b # a /\ b # head => m.next[b] = l.next[b]
      /\ \A b \in Address : b # a /\ b # first => m.prev[b] = l.prev[b]
  BY <1>1, <1>3, <1>4, <1>5
<1>10. a # first
  BY <1>3, <1>8
<1>11. /\ q \in [0 .. (n + 1) + 1 -> Address]
       /\ q[0] = head /\ q[1] = a /\ \A i \in 1 .. n + 1 : q[i + 1] = p[i]
       /\ \A i \in 2 .. n + 2 : q[i] = p[i - 1] /\ i - 1 \in 1 .. n + 1
  BY <1>1, <1>2 DEF WithFirst
<1> HIDE DEF q
<1>12. q[(n + 1) + 1] = tail
  BY <1>2, <1>11
<1>13. \A i \in 1 .. n + 1 : q[i] \in N \cup {a}
  <2> TAKE i \in 1 .. n + 1
  <2>1. i = 1 \/ (i \in 2 .. n + 2 /\ i - 1 \in 1 .. n)
    OBVIOUS
  <2> QED
    BY <1>2, <1>11, <2>1
<1>14. \A b \in N \cup {a} : \E i \in 1 .. n + 1 : q[i] = b
  <2> TAKE b \in N \cup {a}
  <2>1. CASE b = a
    <3>1. 1 \in 1 .. n + 1
      OBVIOUS
    <3> QED
      BY <1>11, <2>1, <3>1
  <2>2. CASE b \in N
    <3>1. PICK i \in 1 .. n : p[i] = b
      BY <1>2, <2>2
    <3>2. i + 1 \in 1 .. n + 1 /\ i \in 1 .. n + 1
      OBVIOUS
    <3> QED
      BY <1>11, <3>1, <3>2
  <2> QED
    BY <2>1, <2>2
<1>15. \A i, j \in 0 .. (n + 1) + 1 : q[i] = q[j] => i = j
  <2> SUFFICES ASSUME NEW i \in 0 .. (n + 1) + 1, NEW j \in 0 .. (n + 1) + 1, q[i] = q[j]
               PROVE  i = j
    OBVIOUS
  <2>1. /\ i = 0 \/ i = 1 \/ i \in 2 .. n + 2
        /\ j = 0 \/ j = 1 \/ j \in 2 .. n + 2
    OBVIOUS
  <2>2. CASE i \in 2 .. n + 2 /\ j \in 2 .. n + 2
    <3>1. p[i - 1] = p[j - 1] /\ i - 1 \in 0 .. n + 1 /\ j - 1 \in 0 .. n + 1
      BY <1>11, <2>2
    <3>2. i - 1 = j - 1
      BY <1>2, <3>1
    <3> QED
      BY <3>2
  <2>3. CASE i \notin 2 .. n + 2 \/ j \notin 2 .. n + 2
    <3>1. \A x \in 2 .. n + 2 : q[x] # a /\ q[x] # head
      BY ONLY <1>8, <1>11
    <3>2. a # head /\ q[0] = head /\ q[1] = a
      BY <1>1, <1>11
    <3> QED
      BY ONLY <2>1, <2>3, <3>1, <3>2, q[i] = q[j]
  <2> QED
    BY <2>2, <2>3
<1>16. ASSUME NEW i \in 0 .. n + 1
       PROVE  m.next[q[i]] = q[i + 1] /\ m.prev[q[i + 1]] = q[i]
  <2>1. CASE i = 0
    BY <1>9, <1>10, <1>11, <2>1
  <2>2. CASE i = 1
    <3>1. q[1 + 1] = p[1]
      <4>1. 1 \in 1 .. n + 1
        OBVIOUS
      <4> QED
        BY <1>11, <4>1
    <3> QED
      BY <1>3, <1>9, <1>11, <2>2, <3>1
  <2>3. CASE i # 0 /\ i # 1
    <3>1. /\ i - 1 \in 1 .. n + 1 /\ i \in 1 .. n + 1 /\ i - 1 \in 0 .. n /\ (i - 1) + 1 = i
          /\ i \in 2 .. n + 2 /\ i - 1 \in 0 .. n + 1 /\ i \in 0 .. n + 1 /\ 1 \in 0 .. n + 1
      BY <2>3
    <3>2. q[i] = p[i - 1] /\ q[i + 1] = p[i]
      BY <1>11, <3>1
    <3>3. l.next[p[i - 1]] = p[i] /\ l.prev[p[i]] = p[i - 1]
      BY <1>2, <3>1
    <3>4. /\ p[i - 1] # a /\ p[i - 1] # head /\ p[i - 1] \in Address
          /\ p[i] # a /\ p[i] \in Address /\ p[i] # first
      BY <1>2, <1>3, <1>8, <2>3, <3>1
    <3> QED
      BY <1>9, <3>2, <3>3, <3>4
  <2> QED
    BY <2>1, <2>2, <2>3
<1>17. Reads(m, q, n + 1, N \cup {a})
  BY <1>11, <1>12, <1>13, <1>14, <1>15, <1>16 DEF Reads
<1> QED
  BY <1>7, <1>17 DEF m, q

\* removeNode takes exactly its node out of the list, and "delete" disturbs no other.
LEMMA RemoveReads ==
  ASSUME NEW l \in LinksType, NEW n \in Nat, NEW N \in SUBSET Nodes, NEW p,
         Reads(l, p, n, N), NEW j \in 1 .. n
  PROVE  /\ n - 1 \in Nat /\ N \ {p[j]} \in SUBSET Nodes /\ p[j] \in N
         /\ RemoveNode(l, p[j]) \in LinksType
         /\ Reads(RemoveNode(l, p[j]), Without(p, n, j), n - 1, N \ {p[j]})
         /\ Deleted(l, p[j]) \in LinksType
         /\ Reads(Deleted(l, p[j]), Without(p, n, j), n - 1, N \ {p[j]})
<1> DEFINE a == p[j]
           before == l.prev[a]
           after == l.next[a]
           m == RemoveNode(l, a)
           d == Deleted(l, a)
           q == Without(p, n, j)
<1>1. /\ head \in Address /\ tail \in Address /\ Nodes \subseteq Address
      /\ head # tail /\ head \notin Nodes /\ tail \notin Nodes
  BY AddressAssumption DEF Address
<1>2. /\ p \in [0 .. n + 1 -> Address] /\ p[0] = head /\ p[n + 1] = tail
      /\ \A i \in 1 .. n : p[i] \in N
      /\ \A b \in N : \E i \in 1 .. n : p[i] = b
      /\ \A i, k \in 0 .. n + 1 : p[i] = p[k] => i = k
      /\ \A i \in 0 .. n : l.next[p[i]] = p[i + 1] /\ l.prev[p[i + 1]] = p[i]
  BY DEF Reads
<1>3. /\ j \in 0 .. n /\ j - 1 \in 0 .. n /\ (j - 1) + 1 = j
      /\ j + 1 \in 0 .. n + 1 /\ j - 1 \in 0 .. n + 1 /\ j \in 0 .. n + 1
      /\ n - 1 \in Nat /\ (n - 1) + 1 = n
  OBVIOUS
<1>4. before = p[j - 1] /\ after = p[j + 1]
  BY <1>2, <1>3
<1>5. a \in N /\ a \in Address /\ before \in Address /\ after \in Address
  BY <1>1, <1>2, <1>3, <1>4
<1>6. /\ m.prev = [l.prev EXCEPT ![after] = before]
      /\ m.next = [l.next EXCEPT ![before] = after]
      /\ m = [prev |-> m.prev, next |-> m.next]
  BY DEF RemoveNode
<1>7. d = [prev |-> [m.prev EXCEPT ![a] = NULL], next |-> [m.next EXCEPT ![a] = NULL]]
  BY DEF Deleted
<1>8. /\ l.prev \in [Address -> Address \cup {NULL}]
      /\ l.next \in [Address -> Address \cup {NULL}]
  BY DEF LinksType
<1>9. /\ q \in [0 .. n -> Address]
      /\ \A i \in 0 .. n : q[i] = IF i < j THEN p[i] ELSE p[i + 1]
  BY <1>2, <1>3 DEF Without
<1> HIDE DEF m, d, before, after, q
<1>10. /\ m.prev \in [Address -> Address \cup {NULL}]
       /\ m.next \in [Address -> Address \cup {NULL}]
  BY <1>5, <1>6, <1>8
<1>11. m \in LinksType
  BY <1>6, <1>10 DEF LinksType
<1>12. /\ d.prev = [m.prev EXCEPT ![a] = NULL] /\ d.next = [m.next EXCEPT ![a] = NULL]
       /\ d = [prev |-> d.prev, next |-> d.next]
  BY <1>7
<1> HIDE DEF a
<1>13. /\ d.prev \in [Address -> Address \cup {NULL}]
       /\ d.next \in [Address -> Address \cup {NULL}]
  BY <1>5, <1>10, <1>12
<1>14. d \in LinksType
  BY <1>12, <1>13 DEF LinksType
<1>15. /\ m.next[before] = after /\ m.prev[after] = before
       /\ \A b \in Address : b # before => m.next[b] = l.next[b]
       /\ \A b \in Address : b # after => m.prev[b] = l.prev[b]
       /\ \A b \in Address : b # a => d.next[b] = m.next[b] /\ d.prev[b] = m.prev[b]
  BY <1>5, <1>6, <1>8, <1>10, <1>12
<1>16. q[0] = head /\ q[(n - 1) + 1] = tail
  BY <1>2, <1>3, <1>9
<1>17. \A i \in 1 .. n - 1 : q[i] \in N \ {a}
  <2> TAKE i \in 1 .. n - 1
  <2>1. i \in 0 .. n /\ i \in 1 .. n /\ i + 1 \in 1 .. n /\ i \in 0 .. n + 1 /\ i + 1 \in 0 .. n + 1
    OBVIOUS
  <2>2. CASE i < j
    BY <1>2, <1>3, <1>9, <2>1, <2>2 DEF a
  <2>3. CASE ~(i < j)
    <3>1. i + 1 # j
      BY <2>3
    <3> QED
      BY <1>2, <1>3, <1>9, <2>1, <2>3, <3>1 DEF a
  <2> QED
    BY <2>2, <2>3
<1>18. \A b \in N \ {a} : \E i \in 1 .. n - 1 : q[i] = b
  <2> TAKE b \in N \ {a}
  <2>1. PICK i \in 1 .. n : p[i] = b
    BY <1>2
  <2>2. i # j
    BY <2>1 DEF a
  <2>3. CASE i < j
    <3>1. i \in 1 .. n - 1 /\ i \in 0 .. n
      BY <2>3
    <3> QED
      BY <1>9, <2>1, <2>3, <3>1
  <2>4. CASE ~(i < j)
    <3>1. i - 1 \in 1 .. n - 1 /\ i - 1 \in 0 .. n /\ ~(i - 1 < j) /\ (i - 1) + 1 = i
      BY <2>2, <2>4
    <3> QED
      BY <1>9, <2>1, <3>1
  <2> QED
    BY <2>3, <2>4
<1>19. \A i, k \in 0 .. (n - 1) + 1 : q[i] = q[k] => i = k
  <2> SUFFICES ASSUME NEW i \in 0 .. n, NEW k \in 0 .. n, q[i] = q[k]
               PROVE  i = k
    BY <1>3
  <2>1. PICK x \in 0 .. n + 1 : /\ q[i] = p[x]
                                /\ (i < j /\ x = i) \/ (~(i < j) /\ x = i + 1)
    BY <1>9
  <2>2. PICK y \in 0 .. n + 1 : /\ q[k] = p[y]
                                /\ (k < j /\ y = k) \/ (~(k < j) /\ y = k + 1)
    BY <1>9
  <2>3. x = y
    <3>1. p[x] = p[y]
      BY <2>1, <2>2
    <3> QED
      BY <1>2, <3>1
  <2> QED
    BY <2>1, <2>2, <2>3
<1>20. ASSUME NEW i \in 0 .. n - 1
       PROVE  /\ m.next[q[i]] = q[i + 1] /\ m.prev[q[i + 1]] = q[i]
              /\ q[i] \in Address /\ q[i + 1] \in Address /\ q[i] # a /\ q[i + 1] # a
  <2>1. i \in 0 .. n /\ i + 1 \in 0 .. n /\ i \in 0 .. n + 1 /\ i + 1 \in 0 .. n + 1
        /\ (i + 1) + 1 \in 0 .. n + 1
    OBVIOUS
  <2>2. CASE i + 1 < j
    <3>1. i < j /\ i # j - 1 /\ i + 1 # j + 1 /\ i # j /\ i + 1 # j
      BY <2>2
    <3>2. q[i] = p[i] /\ q[i + 1] = p[i + 1]
      BY <1>9, <2>1, <2>2, <3>1
    <3>3. p[i] # before /\ p[i + 1] # after /\ p[i] # a /\ p[i + 1] # a
      BY <1>2, <1>3, <1>4, <2>1, <3>1 DEF a
    <3>4. /\ p[i] \in Address /\ p[i + 1] \in Address
          /\ l.next[p[i]] = p[i + 1] /\ l.prev[p[i + 1]] = p[i]
      BY <1>2, <2>1
    <3> QED
      BY <1>15, <3>2, <3>3, <3>4
  <2>3. CASE i + 1 = j
    <3>1. i < j /\ ~(i + 1 < j) /\ i = j - 1 /\ (i + 1) + 1 = j + 1 /\ j - 1 # j /\ j + 1 # j
      BY <2>3
    <3>2. q[i] = before /\ q[i + 1] = after
      BY <1>4, <1>9, <2>1, <3>1
    <3>3. before # a /\ after # a
      BY <1>2, <1>3, <1>4, <3>1 DEF a
    <3> QED
      BY <1>5, <1>15, <3>2, <3>3
  <2>4. CASE ~(i + 1 < j) /\ i + 1 # j
    <3>1. /\ ~(i < j) /\ ~(i + 1 < j) /\ i + 1 # j - 1 /\ (i + 1) + 1 # j + 1
          /\ i + 1 # j /\ (i + 1) + 1 # j
      BY <2>4
    <3>2. q[i] = p[i + 1] /\ q[i + 1] = p[(i + 1) + 1]
      BY <1>9, <2>1, <3>1
    <3>3. /\ p[i + 1] # before /\ p[(i + 1) + 1] # after
          /\ p[i + 1] # a /\ p[(i + 1) + 1] # a
      BY <1>2, <1>3, <1>4, <2>1, <3>1 DEF a
    <3>4. /\ p[i + 1] \in Address /\ p[(i + 1) + 1] \in Address
          /\ i + 1 \in 0 .. n
      BY <1>2, <2>1
    <3>5. l.next[p[i + 1]] = p[(i + 1) + 1] /\ l.prev[p[(i + 1) + 1]] = p[i + 1]
      BY <1>2, <3>4
    <3> QED
      BY <1>15, <3>2, <3>3, <3>4, <3>5
  <2> QED
    BY <2>2, <2>3, <2>4
<1>21. Reads(m, q, n - 1, N \ {a})
  <2>1. 0 .. (n - 1) + 1 = 0 .. n
    BY <1>3
  <2> QED
    BY <1>9, <1>16, <1>17, <1>18, <1>19, <1>20, <2>1 DEF Reads
<1>22. \A i \in 0 .. n - 1 : d.next[q[i]] = q[i + 1] /\ d.prev[q[i + 1]] = q[i]
  BY <1>15, <1>20
<1>23. Reads(d, q, n - 1, N \ {a})
  <2>1. 0 .. (n - 1) + 1 = 0 .. n
    BY <1>3
  <2> QED
    BY <1>9, <1>16, <1>17, <1>18, <1>19, <1>22, <2>1 DEF Reads
<1> QED
  BY <1>3, <1>5, <1>11, <1>14, <1>21, <1>23 DEF a, m, d, q

\* prev and next of l mirror each other on the nodes of N and do not leave them.
Mirrored(l, N) ==
  /\ \A a \in N \cup {head} : l.next[a] \in N \cup {tail} /\ l.prev[l.next[a]] = a
  /\ \A a \in N \cup {tail} : l.prev[a] \in N \cup {head} /\ l.next[l.prev[a]] = a

\* What WellLinked and TypeOK say of the list follows from reading it.
LEMMA ReadsLinks ==
  ASSUME NEW l \in LinksType, NEW n \in Nat, NEW N \in SUBSET Nodes, NEW p,
         Reads(l, p, n, N)
  PROVE  Mirrored(l, N) /\ l.prev[tail] = p[n]
<1>1. /\ p[0] = head /\ p[n + 1] = tail
      /\ \A i \in 1 .. n : p[i] \in N
      /\ \A b \in N : \E i \in 1 .. n : p[i] = b
      /\ \A i \in 0 .. n : l.next[p[i]] = p[i + 1] /\ l.prev[p[i + 1]] = p[i]
  BY DEF Reads
<1>2. \A i \in 0 .. n : p[i] \in N \cup {head} /\ p[i + 1] \in N \cup {tail}
  <2> TAKE i \in 0 .. n
  <2>1. (i = 0 \/ i \in 1 .. n) /\ (i + 1 = n + 1 \/ i + 1 \in 1 .. n)
    OBVIOUS
  <2> QED
    BY <1>1, <2>1
<1>3. ASSUME NEW a \in N \cup {head}
      PROVE  l.next[a] \in N \cup {tail} /\ l.prev[l.next[a]] = a
  <2>1. PICK i \in 0 .. n : p[i] = a
    <3>1. 0 \in 0 .. n /\ 1 .. n \subseteq 0 .. n
      OBVIOUS
    <3> QED
      BY <1>1, <3>1
  <2> QED
    BY <1>1, <1>2, <2>1
<1>4. ASSUME NEW a \in N \cup {tail}
      PROVE  l.prev[a] \in N \cup {head} /\ l.next[l.prev[a]] = a
  <2>1. PICK i \in 0 .. n : p[i + 1] = a
    <3>1. n \in 0 .. n /\ \A k \in 1 .. n : k - 1 \in 0 .. n /\ (k - 1) + 1 = k
      OBVIOUS
    <3>2. CASE a = tail
      BY <1>1, <3>1, <3>2
    <3>3. CASE a \in N
      <4>1. PICK k \in 1 .. n : p[k] = a
        BY <1>1, <3>3
      <4> QED
        BY <3>1, <4>1
    <3> QED
      BY <3>2, <3>3
  <2> QED
    BY <1>1, <1>2, <2>1
<1>5. l.prev[tail] = p[n]
  <2>1. n \in 0 .. n
    OBVIOUS
  <2> QED
    BY <1>1, <2>1
<1> QED
  BY <1>3, <1>4, <1>5 DEF Mirrored

\* A path has as many nodes as there are, and as many keys map to them.
LEMMA ReadsCount ==
  ASSUME NEW l, NEW n \in Nat, NEW N \in SUBSET Nodes, NEW p, Reads(l, p, n, N)
  PROVE  IsFiniteSet(N) /\ Cardinality(N) = n
<1> DEFINE f == [i \in 1 .. n |-> p[i]]
<1>1. f \in Bijection(1 .. n, N)
  <2>1. /\ \A i \in 1 .. n : p[i] \in N
        /\ \A b \in N : \E i \in 1 .. n : p[i] = b
        /\ \A i, j \in 1 .. n : p[i] = p[j] => i = j
    <3>1. 1 .. n \subseteq 0 .. n + 1
      OBVIOUS
    <3> QED
      BY <3>1 DEF Reads
  <2> QED
    BY <2>1 DEF Bijection, Injection, Surjection, IsInjective
<1>2. ExistsBijection(1 .. n, N)
  BY <1>1 DEF ExistsBijection
<1>3. IsFiniteSet(1 .. n) /\ Cardinality(1 .. n) = n
  BY FS_Interval
<1> QED
  BY <1>2, <1>3, FS_Bijection

\* moveToHead makes the j-th node of the list its first.
LEMMA MoveReads ==
  ASSUME NEW l \in LinksType, NEW n \in Nat, NEW N \in SUBSET Nodes, NEW p,
         Reads(l, p, n, N), NEW j \in 1 .. n
  PROVE  /\ MoveToHead(l, p[j]) \in LinksType
         /\ Reads(MoveToHead(l, p[j]), WithFirst(Without(p, n, j), n - 1, p[j]), n, N)
<1> DEFINE m == RemoveNode(l, p[j])
           q == Without(p, n, j)
           r == WithFirst(q, n - 1, p[j])
<1>1. /\ n - 1 \in Nat /\ N \ {p[j]} \in SUBSET Nodes /\ p[j] \in N
      /\ m \in LinksType /\ Reads(m, q, n - 1, N \ {p[j]})
  BY RemoveReads
<1>2. p[j] \in Nodes /\ p[j] \notin N \ {p[j]}
  BY <1>1
<1> HIDE DEF m, q
<1>3. /\ AddToHead(m, p[j]) \in LinksType
      /\ Reads(AddToHead(m, p[j]), r, (n - 1) + 1, (N \ {p[j]}) \cup {p[j]})
  BY <1>1, <1>2, AddReads
<1>4. (n - 1) + 1 = n /\ (N \ {p[j]}) \cup {p[j]} = N
  BY <1>1
<1>5. MoveToHead(l, p[j]) = AddToHead(m, p[j])
  BY DEF MoveToHead, m
<1> QED
  BY <1>3, <1>4, <1>5 DEF q

\* As many keys are in the map as nodes in the list.
LEMMA KeysCount ==
  ASSUME TypeOK, MapMatchesNodes, NEW n \in Nat, NEW p, Reads(links, p, n, Linked)
  PROVE  Cardinality({k \in Keys : Exist(k)}) = n
<1> DEFINE E == {k \in Keys : Exist(k)}
           f == [a \in Linked |-> key[a]]
<1>1. /\ cache_ \in [Keys -> Nodes \cup {NULL}] /\ key \in [Nodes -> Keys \cup {NULL}]
      /\ NULL \notin Keys /\ NULL \notin Nodes
      /\ \A k \in Keys : cache_[k] # NULL => key[cache_[k]] = k
      /\ \A a \in Linked : cache_[key[a]] = a
  BY AddressAssumption DEF TypeOK, MapMatchesNodes, Exist
<1>2. f \in Bijection(Linked, E)
  <2>1. \A a \in Linked : f[a] \in E
    BY <1>1 DEF Linked, Exist
  <2>2. \A a, b \in Linked : f[a] = f[b] => a = b
    BY <1>1
  <2>3. \A k \in E : cache_[k] \in Linked /\ f[cache_[k]] = k
    BY <1>1 DEF Linked, Exist
  <2>4. f \in [Linked -> E]
    BY <2>1
  <2> HIDE DEF f, E
  <2> QED
    BY <2>2, <2>3, <2>4 DEF Bijection, Injection, Surjection, IsInjective
<1>3. ExistsBijection(Linked, E)
  BY <1>2 DEF ExistsBijection
<1>4. Linked \in SUBSET Nodes
  BY DEF Linked
<1>5. IsFiniteSet(Linked) /\ Cardinality(Linked) = n
  BY <1>4, ReadsCount
<1> QED
  BY <1>3, <1>5, FS_Bijection

\* A cached key has its node in the list, and the node its response.
LEMMA CachedNode ==
  ASSUME CacheInv, NEW k \in Keys, Exist(k)
  PROVE  /\ cache_[k] \in Linked /\ cache_[k] \in Nodes /\ key[cache_[k]] = k
         /\ value[cache_[k]] \in live
BY AddressAssumption DEF CacheInv, TypeOK, MapMatchesNodes, OwnsLiveResponses, Linked, Exist

\* What holds of the list, once it can be read.
LEMMA ListTypeOK ==
  ASSUME CacheInv
  PROVE  /\ links \in LinksType /\ Linked \in SUBSET Nodes
         /\ \E n \in Nat : \E p : Reads(links, p, n, Linked)
BY DEF CacheInv, TypeOK, LinksType, Linked, Readable

\* What a call must show of the list it leaves.
LEMMA ListKept ==
  ASSUME links' \in LinksType, Linked' \in SUBSET Nodes,
         \E n \in Nat : \E p : Reads(links', p, n, Linked')
  PROVE  /\ Readable'
         /\ links' \in [prev : [Address -> Address \cup {NULL}],
                        next : [Address -> Address \cup {NULL}]]
         /\ links'.next[head] \in Nodes \cup {tail}
         /\ links'.prev[tail] \in Nodes \cup {head}
<1>1. PICK n, p : n \in Nat /\ Reads(links', p, n, Linked')
  OBVIOUS
<1>2. p \in [0 .. n + 1 -> Address]
  BY <1>1 DEF Reads
<1>3. Readable'
  BY <1>1, <1>2 DEF Readable
<1>4. links'.next[head] \in Nodes \cup {tail} /\ links'.prev[tail] \in Nodes \cup {head}
  BY <1>1, ReadsLinks DEF Mirrored
<1> QED
  BY <1>3, <1>4 DEF LinksType

-------------------------------------------------------------------------------
\* The constructor leaves an empty list, which head and tail alone read.
LEMMA InitEstablishes ==
  ASSUME Init
  PROVE  CacheInv
<1>1. /\ cache_ = [k \in Keys |-> NULL] /\ key = [n \in Nodes |-> NULL]
      /\ value = [n \in Nodes |-> NULL] /\ live = {}
      /\ links = [prev |-> [a \in Address |-> IF a = tail THEN head ELSE NULL],
                  next |-> [a \in Address |-> IF a = head THEN tail ELSE NULL]]
  BY DEF Init
<1>2. /\ head \in Address /\ tail \in Address /\ head # tail /\ NULL \notin Nodes
  BY AddressAssumption DEF Address
<1>3. Linked = {}
  BY <1>1 DEF Linked
<1>4. TypeOK
  BY <1>1, <1>2 DEF TypeOK
<1>5. MapMatchesNodes /\ OwnsLiveResponses
  BY <1>1, <1>3 DEF MapMatchesNodes, OwnsLiveResponses, Exist
<1> DEFINE p == [i \in 0 .. 0 + 1 |-> IF i = 0 THEN head ELSE tail]
<1>6. p \in [0 .. 0 + 1 -> Address] /\ Reads(links, p, 0, Linked)
  <2>1. p \in [0 .. 0 + 1 -> Address] /\ p[0] = head /\ p[0 + 1] = tail
    BY <1>2
  <2>2. /\ links.next[head] = tail /\ links.prev[tail] = head
    BY <1>1, <1>2
  <2>3. /\ 1 .. 0 = {} /\ 0 .. 0 = {0} /\ 0 .. 0 + 1 = {0, 0 + 1}
    OBVIOUS
  <2> HIDE DEF p
  <2> QED
    BY <1>2, <1>3, <2>1, <2>2, <2>3 DEF Reads
<1>7. Readable
  BY <1>6 DEF Readable
<1> QED
  BY <1>4, <1>5, <1>7 DEF CacheInv

\* Find moves the node of its key to the head and changes nothing else.
LEMMA FindStep ==
  ASSUME CacheInv, NEW k \in Keys, Find(k)
  PROVE  CacheInv'
<1>1. TypeOK /\ MapMatchesNodes /\ OwnsLiveResponses
  BY DEF CacheInv
<1>2. UNCHANGED <<cache_, key, value, live>>
  BY DEF Find
<1>3. MapMatchesNodes' /\ OwnsLiveResponses' /\ Linked' = Linked
  BY <1>1, <1>2 DEF MapMatchesNodes, OwnsLiveResponses, Exist, Linked
<1>4. links' \in LinksType /\ \E n \in Nat : \E p : Reads(links', p, n, Linked)
  <2>1. CASE Exist(k)
    <3>1. PICK n, p : n \in Nat /\ Reads(links, p, n, Linked)
      BY ListTypeOK
    <3>2. PICK j \in 1 .. n : p[j] = cache_[k]
      BY <2>1, <3>1, CachedNode DEF Reads
    <3>3. links' = MoveToHead(links, p[j])
      BY <2>1, <3>2 DEF Find
    <3> QED
      BY <3>1, <3>3, ListTypeOK, MoveReads
  <2>2. CASE ~Exist(k)
    BY <2>2, ListTypeOK DEF Find
  <2> QED
    BY <2>1, <2>2
<1>5. TypeOK' /\ Readable'
  <2>1. Linked' \in SUBSET Nodes
    BY <1>3 DEF Linked
  <2> QED
    BY <1>1, <1>2, <1>3, <1>4, <2>1, ListKept DEF TypeOK
<1> QED
  BY <1>3, <1>5 DEF CacheInv

\* Erase takes the node of its key out of the list, and deletes it and its response.
LEMMA EraseStep ==
  ASSUME CacheInv, NEW k \in Keys, Exist(k), Erase(k)
  PROVE  CacheInv' /\ Linked' = Linked \ {cache_[k]}
<1> DEFINE a == cache_[k]
<1>1. /\ cache_ \in [Keys -> Nodes \cup {NULL}] /\ key \in [Nodes -> Keys \cup {NULL}]
      /\ value \in [Nodes -> Responses \cup {NULL}] /\ live \subseteq Responses
      /\ NULL \notin Keys /\ NULL \notin Nodes
  BY AddressAssumption DEF CacheInv, TypeOK
<1>2. /\ a \in Linked /\ a \in Nodes /\ key[a] = k /\ Linked \in SUBSET Nodes
  BY CachedNode, ListTypeOK
<1>3. /\ cache_' = [cache_ EXCEPT ![k] = NULL] /\ key' = [key EXCEPT ![a] = NULL]
      /\ value' = [value EXCEPT ![a] = NULL] /\ links' = Deleted(links, a)
      /\ live' = live \ {value[a]}
  BY DEF Erase
<1> HIDE DEF a
<1>4. Linked' = Linked \ {a}
  BY <1>1, <1>2, <1>3 DEF Linked
<1>5. links' \in LinksType /\ \E n \in Nat : \E p : Reads(links', p, n, Linked')
  <2>1. PICK n, p : n \in Nat /\ Reads(links, p, n, Linked)
    BY ListTypeOK
  <2>2. PICK j \in 1 .. n : p[j] = a
    BY <1>2, <2>1 DEF Reads
  <2>3. /\ Deleted(links, p[j]) \in LinksType /\ n - 1 \in Nat
        /\ Reads(Deleted(links, p[j]), Without(p, n, j), n - 1, Linked \ {p[j]})
    BY <2>1, ListTypeOK, RemoveReads
  <2> QED
    BY <1>3, <1>4, <2>2, <2>3
<1>6. TypeOK' /\ Readable'
  <2>1. Linked' \in SUBSET Nodes
    BY <1>2, <1>4
  <2>2. /\ cache_' \in [Keys -> Nodes \cup {NULL}] /\ key' \in [Nodes -> Keys \cup {NULL}]
        /\ value' \in [Nodes -> Responses \cup {NULL}] /\ live' \subseteq Responses
    BY <1>1, <1>3
  <2> QED
    BY <1>5, <2>1, <2>2, ListKept DEF TypeOK
<1>7. MapMatchesNodes'
  <2>1. /\ \A x \in Keys : cache_[x] # NULL => key[cache_[x]] = x /\ cache_[x] \in Nodes
        /\ \A b \in Linked : cache_[key[b]] = b /\ key[b] \in Keys
    BY <1>1 DEF CacheInv, MapMatchesNodes, Exist, Linked
  <2>2. ASSUME NEW x \in Keys, cache_'[x] # NULL
        PROVE  key'[cache_'[x]] = x
    BY <1>1, <1>2, <1>3, <2>1, <2>2 DEF a
  <2>3. ASSUME NEW b \in Linked \ {a}
        PROVE  cache_'[key'[b]] = b
    BY <1>1, <1>2, <1>3, <2>1, <2>3 DEF a
  <2> QED
    BY <1>4, <2>2, <2>3 DEF MapMatchesNodes, Exist
<1>8. OwnsLiveResponses'
  <2>1. /\ {value[b] : b \in Linked} = live
        /\ \A b, c \in Linked : value[b] = value[c] => b = c
    BY DEF CacheInv, OwnsLiveResponses
  <2>2. \A b \in Linked \ {a} : value'[b] = value[b]
    BY <1>1, <1>2, <1>3
  <2> QED
    BY <1>2, <1>3, <1>4, <2>1, <2>2 DEF OwnsLiveResponses
<1> QED
  BY <1>4, <1>6, <1>7, <1>8 DEF CacheInv, a

\* put of a cached key swaps its response for the new one and moves its node.
LEMMA PutCachedStep ==
  ASSUME CacheInv, NEW k \in Keys, NEW r \in Responses \ live, PutCached(k, r)
  PROVE  CacheInv' /\ Linked' = Linked
<1> DEFINE a == cache_[k]
<1>1. /\ cache_ \in [Keys -> Nodes \cup {NULL}] /\ key \in [Nodes -> Keys \cup {NULL}]
      /\ value \in [Nodes -> Responses \cup {NULL}] /\ live \subseteq Responses
  BY DEF CacheInv, TypeOK
<1>2. /\ Exist(k) /\ UNCHANGED <<cache_, key>>
      /\ value' = [value EXCEPT ![a] = r] /\ links' = MoveToHead(links, a)
      /\ live' = (live \cup {r}) \ {value[a]}
  BY DEF PutCached
<1>3. a \in Linked /\ a \in Nodes /\ value[a] \in live
  BY <1>2, CachedNode
<1> HIDE DEF a
<1>4. Linked' = Linked /\ MapMatchesNodes'
  BY <1>2 DEF CacheInv, Linked, MapMatchesNodes, Exist
<1>5. links' \in LinksType /\ \E n \in Nat : \E p : Reads(links', p, n, Linked')
  <2>1. PICK n, p : n \in Nat /\ Reads(links, p, n, Linked)
    BY ListTypeOK
  <2>2. PICK j \in 1 .. n : p[j] = a
    BY <1>3, <2>1 DEF Reads
  <2>3. /\ MoveToHead(links, p[j]) \in LinksType
        /\ Reads(MoveToHead(links, p[j]), WithFirst(Without(p, n, j), n - 1, p[j]), n, Linked)
    BY <2>1, ListTypeOK, MoveReads
  <2> QED
    BY <1>2, <1>4, <2>1, <2>2, <2>3
<1>6. TypeOK' /\ Readable'
  <2>1. Linked' \in SUBSET Nodes
    BY <1>4, ListTypeOK
  <2>2. /\ cache_' \in [Keys -> Nodes \cup {NULL}] /\ key' \in [Nodes -> Keys \cup {NULL}]
        /\ value' \in [Nodes -> Responses \cup {NULL}] /\ live' \subseteq Responses
    BY <1>1, <1>2
  <2> QED
    BY <1>5, <2>1, <2>2, ListKept DEF TypeOK
<1>7. OwnsLiveResponses'
  <2>1. /\ {value[b] : b \in Linked} = live
        /\ \A b, c \in Linked : value[b] = value[c] => b = c
    BY DEF CacheInv, OwnsLiveResponses
  <2>2. value'[a] = r /\ \A b \in Linked \ {a} : value'[b] = value[b]
    BY <1>1, <1>2, <1>3 DEF Linked
  <2> QED
    BY <1>2, <1>3, <1>4, <2>1, <2>2 DEF OwnsLiveResponses
<1> QED
  BY <1>4, <1>6, <1>7 DEF CacheInv

\* put of a new key: when there is room for it, and when it takes node rm's place.
PutRoom(k, r, a) ==
  /\ key[a] = NULL /\ ~Exist(k) /\ ~Full
  /\ cache_' = [cache_ EXCEPT ![k] = a]
  /\ key' = [key EXCEPT ![a] = k]
  /\ value' = [value EXCEPT ![a] = r]
  /\ links' = AddToHead(links, a)
  /\ live' = live \cup {r}

PutFull(k, r, a, rm) ==
  /\ key[a] = NULL /\ ~Exist(k) /\ Full
  /\ rm = AddToHead(links, a).prev[tail]
  /\ cache_' = [cache_ EXCEPT ![k] = a, ![key[rm]] = NULL]
  /\ key' = [key EXCEPT ![a] = k, ![rm] = NULL]
  /\ value' = [value EXCEPT ![a] = r, ![rm] = NULL]
  /\ links' = Deleted(AddToHead(links, a), rm)
  /\ live' = (live \cup {r}) \ {value[rm]}

\* They are all the cases of put of a new key.
LEMMA PutNewCases ==
  ASSUME NEW k \in Keys, NEW r, PutNew(k, r)
  PROVE  \E a \in Nodes : PutRoom(k, r, a) \/ \E rm : PutFull(k, r, a, rm)
BY DEF PutNew, PutRoom, PutFull

\* put of a new key with room for it links its node and takes over its response.
LEMMA PutRoomStep ==
  ASSUME CacheInv, NEW k \in Keys, NEW r \in Responses \ live, NEW a \in Nodes,
         PutRoom(k, r, a)
  PROVE  CacheInv' /\ Linked' = Linked \cup {a}
<1> USE DEF PutRoom
<1>1. /\ cache_ \in [Keys -> Nodes \cup {NULL}] /\ key \in [Nodes -> Keys \cup {NULL}]
      /\ value \in [Nodes -> Responses \cup {NULL}] /\ live \subseteq Responses
      /\ NULL \notin Keys /\ NULL \notin Nodes
  BY AddressAssumption DEF CacheInv, TypeOK
<1>2. Linked \in SUBSET Nodes /\ a \notin Linked
  BY DEF Linked
<1>3. Linked' = Linked \cup {a}
  BY <1>1 DEF Linked
<1>4. links' \in LinksType /\ \E n \in Nat : \E p : Reads(links', p, n, Linked')
  <2>1. PICK n, p : n \in Nat /\ Reads(links, p, n, Linked)
    BY ListTypeOK
  <2>2. /\ AddToHead(links, a) \in LinksType /\ n + 1 \in Nat
        /\ Reads(AddToHead(links, a), WithFirst(p, n, a), n + 1, Linked \cup {a})
    BY <1>2, <2>1, ListTypeOK, AddReads
  <2> QED
    BY <1>3, <2>2
<1>5. TypeOK' /\ Readable'
  <2>1. Linked' \in SUBSET Nodes
    BY <1>2, <1>3
  <2>2. /\ cache_' \in [Keys -> Nodes \cup {NULL}] /\ key' \in [Nodes -> Keys \cup {NULL}]
        /\ value' \in [Nodes -> Responses \cup {NULL}] /\ live' \subseteq Responses
    BY <1>1
  <2> QED
    BY <1>4, <2>1, <2>2, ListKept DEF TypeOK
<1>6. MapMatchesNodes'
  <2>1. /\ \A x \in Keys : cache_[x] # NULL => key[cache_[x]] = x /\ cache_[x] \in Nodes
        /\ \A b \in Linked : cache_[key[b]] = b /\ key[b] \in Keys /\ key[b] # k
    BY <1>1 DEF CacheInv, MapMatchesNodes, Exist, Linked
  <2>2. ASSUME NEW x \in Keys, cache_'[x] # NULL
        PROVE  key'[cache_'[x]] = x
    BY <1>1, <1>2, <2>1, <2>2
  <2>3. ASSUME NEW b \in Linked \cup {a}
        PROVE  cache_'[key'[b]] = b
    BY <1>1, <1>2, <2>1, <2>3
  <2> QED
    BY <1>3, <2>2, <2>3 DEF MapMatchesNodes, Exist
<1>7. OwnsLiveResponses'
  <2>1. /\ {value[b] : b \in Linked} = live
        /\ \A b, c \in Linked : value[b] = value[c] => b = c
    BY DEF CacheInv, OwnsLiveResponses
  <2>2. value'[a] = r /\ \A b \in Linked : value'[b] = value[b]
    BY <1>1, <1>2
  <2> QED
    BY <1>2, <1>3, <2>1, <2>2 DEF OwnsLiveResponses
<1> QED
  BY <1>3, <1>5, <1>6, <1>7 DEF CacheInv

\* The last node of a list that is not empty stays the last when one is added.
LEMMA LastAfterAdd ==
  ASSUME NEW l \in LinksType, NEW n \in Nat, n # 0, NEW N \in SUBSET Nodes, NEW p,
         Reads(l, p, n, N), NEW a \in Nodes, a \notin N
  PROVE  /\ n + 1 \in 1 .. n + 1 /\ n + 1 \in Nat /\ N \cup {a} \in SUBSET Nodes
         /\ AddToHead(l, a) \in LinksType
         /\ Reads(AddToHead(l, a), WithFirst(p, n, a), n + 1, N \cup {a})
         /\ AddToHead(l, a).prev[tail] = p[n]
         /\ WithFirst(p, n, a)[n + 1] = p[n]
         /\ p[n] \in N
<1> DEFINE m == AddToHead(l, a)
           q == WithFirst(p, n, a)
           M == N \cup {a}
<1>1. n + 1 \in 1 .. n + 1 /\ n + 1 \in Nat /\ M \in SUBSET Nodes
  OBVIOUS
<1>2. m \in LinksType /\ Reads(m, q, n + 1, M)
  BY AddReads
<1>3. q[n + 1] = p[n]
  <2>1. n + 1 \in 0 .. n + 2 /\ n + 1 # 0 /\ n + 1 # 1 /\ (n + 1) - 1 = n
    OBVIOUS
  <2> QED
    BY <2>1 DEF WithFirst
<1>4. p[n] \in N
  <2>1. n \in 1 .. n
    OBVIOUS
  <2> QED
    BY <2>1 DEF Reads
<1> HIDE DEF m, q, M
<1>5. m.prev[tail] = q[n + 1]
  BY <1>1, <1>2, ReadsLinks
<1> QED
  BY <1>1, <1>2, <1>3, <1>4, <1>5 DEF m, q, M

(***************************************************************************)
(* put of a new key that finds the cache full: the last node, which is not *)
(* the new one because capacity is not 0, is taken out and deleted.        *)
(***************************************************************************)
LEMMA PutFullStep ==
  ASSUME CacheInv, NEW k \in Keys, NEW r \in Responses \ live,
         NEW a \in Nodes, NEW rm, PutFull(k, r, a, rm)
  PROVE  /\ CacheInv' /\ Linked' = (Linked \cup {a}) \ {rm} /\ rm \in Linked
         /\ \A n \in Nat : \A p : Reads(links, p, n, Linked) =>
              n >= Capacity /\ n \in Nat \ {0} /\ rm = p[n]
<1> USE DEF PutFull
<1>1. /\ cache_ \in [Keys -> Nodes \cup {NULL}] /\ key \in [Nodes -> Keys \cup {NULL}]
      /\ value \in [Nodes -> Responses \cup {NULL}] /\ live \subseteq Responses
      /\ NULL \notin Keys /\ NULL \notin Nodes
  BY AddressAssumption DEF CacheInv, TypeOK
<1>2. Linked \in SUBSET Nodes /\ a \notin Linked
  BY DEF Linked
<1> DEFINE linked == AddToHead(links, a)
<1>3. ASSUME NEW n \in Nat, NEW p, Reads(links, p, n, Linked)
      PROVE  /\ n >= Capacity /\ n \in Nat \ {0}
             /\ linked \in LinksType /\ Linked \cup {a} \in SUBSET Nodes
             /\ Reads(linked, WithFirst(p, n, a), n + 1, Linked \cup {a})
             /\ rm = p[n] /\ rm = WithFirst(p, n, a)[n + 1] /\ rm \in Linked
  <2>1. n + 1 > Capacity /\ Capacity \in Nat \ {0}
    BY <1>3, KeysCount, CapacityAssumption DEF CacheInv, Full
  <2>2. n >= Capacity /\ n \in Nat \ {0} /\ n \in 1 .. n /\ n + 1 \in Nat
    BY <2>1
  <2>3. /\ n # 0
        /\ linked \in LinksType /\ Linked \cup {a} \in SUBSET Nodes
        /\ Reads(linked, WithFirst(p, n, a), n + 1, Linked \cup {a})
        /\ linked.prev[tail] = p[n] /\ WithFirst(p, n, a)[n + 1] = p[n] /\ p[n] \in Linked
    BY <1>2, <1>3, <2>2, ListTypeOK, LastAfterAdd
  <2> QED
    BY <2>2, <2>3
<1>4. rm \in Linked /\ rm \in Nodes /\ rm # a /\ key[rm] \in Keys /\ key[rm] # k
  <2>1. rm \in Linked
    BY <1>3, ListTypeOK
  <2> QED
    BY <1>1, <1>2, <2>1 DEF CacheInv, MapMatchesNodes, Exist, Linked
<1>5. Linked' = (Linked \cup {a}) \ {rm}
  BY <1>1, <1>4 DEF Linked
<1>6. links' \in LinksType /\ \E n \in Nat : \E p : Reads(links', p, n, Linked')
  <2>1. PICK n, p : n \in Nat /\ Reads(links, p, n, Linked)
    BY ListTypeOK
  <2> DEFINE q == WithFirst(p, n, a)
  <2> HIDE DEF linked, q
  <2>2. /\ linked \in LinksType /\ Linked \cup {a} \in SUBSET Nodes /\ n + 1 \in Nat
        /\ Reads(linked, q, n + 1, Linked \cup {a}) /\ rm = q[n + 1] /\ n + 1 \in 1 .. n + 1
    <3>1. /\ linked \in LinksType /\ Linked \cup {a} \in SUBSET Nodes
          /\ Reads(linked, q, n + 1, Linked \cup {a}) /\ rm = q[n + 1]
      BY ONLY <1>3, <2>1 DEF q
    <3>2. n + 1 \in Nat /\ n + 1 \in 1 .. n + 1
      BY ONLY <2>1
    <3> QED
      BY ONLY <3>1, <3>2
  <2>3. /\ Deleted(linked, q[n + 1]) \in LinksType /\ (n + 1) - 1 \in Nat
        /\ Reads(Deleted(linked, q[n + 1]), Without(q, n + 1, n + 1), (n + 1) - 1,
                 (Linked \cup {a}) \ {q[n + 1]})
    BY <2>2, RemoveReads
  <2> QED
    BY <1>5, <2>2, <2>3 DEF linked
<1> HIDE DEF linked
<1>7. TypeOK' /\ Readable'
  <2>1. Linked' \in SUBSET Nodes
    BY <1>2, <1>5
  <2>2. /\ cache_' \in [Keys -> Nodes \cup {NULL}] /\ key' \in [Nodes -> Keys \cup {NULL}]
        /\ value' \in [Nodes -> Responses \cup {NULL}] /\ live' \subseteq Responses
    BY <1>1, <1>4
  <2> QED
    BY <1>6, <2>1, <2>2, ListKept DEF TypeOK
<1>8. /\ cache_'[k] = a /\ cache_'[key[rm]] = NULL
      /\ \A x \in Keys : x # k /\ x # key[rm] => cache_'[x] = cache_[x]
      /\ key'[a] = k /\ key'[rm] = NULL /\ value'[a] = r
      /\ \A b \in Nodes : b # a /\ b # rm => key'[b] = key[b] /\ value'[b] = value[b]
  BY <1>1, <1>4
<1>9. MapMatchesNodes'
  <2>1. /\ \A x \in Keys : cache_[x] # NULL => key[cache_[x]] = x /\ cache_[x] \in Nodes
        /\ \A b \in Linked : cache_[key[b]] = b /\ key[b] \in Keys /\ key[b] # k
        /\ key[a] = NULL
    BY <1>1 DEF CacheInv, MapMatchesNodes, Exist, Linked
  <2>2. ASSUME NEW x \in Keys, cache_'[x] # NULL
        PROVE  key'[cache_'[x]] = x
    BY <1>1, <1>4, <1>8, <2>1, <2>2
  <2>3. ASSUME NEW b \in (Linked \cup {a}) \ {rm}
        PROVE  cache_'[key'[b]] = b
    BY <1>1, <1>2, <1>4, <1>8, <2>1, <2>3
  <2> QED
    BY <1>5, <2>2, <2>3 DEF MapMatchesNodes, Exist
<1>10. OwnsLiveResponses'
  <2>1. /\ {value[b] : b \in Linked} = live
        /\ \A b, c \in Linked : value[b] = value[c] => b = c
    BY DEF CacheInv, OwnsLiveResponses
  <2>2. \A b \in Linked \ {rm} : value'[b] = value[b]
    BY <1>2, <1>8
  <2> DEFINE w == value'
  <2>3. w[a] = r /\ \A b \in Linked \ {rm} : w[b] = value[b]
    BY <1>8, <2>2
  <2>4. (\A b \in Linked : value[b] \in live) /\ \A x \in live : \E b \in Linked : value[b] = x
    BY <2>1
  <2>5. r \notin live
    OBVIOUS
  <2> HIDE DEF w
  <2>6. \A b \in (Linked \cup {a}) \ {rm} : w[b] \in (live \cup {r}) \ {value[rm]}
    BY ONLY <1>2, <1>4, <2>1, <2>3, <2>4, <2>5
  <2>7. ASSUME NEW x \in (live \cup {r}) \ {value[rm]}
        PROVE  \E b \in (Linked \cup {a}) \ {rm} : w[b] = x
    <3>1. CASE x = r
      BY ONLY <1>4, <2>3, <3>1
    <3>2. CASE x # r
      <4>1. PICK b \in Linked : value[b] = x
        BY ONLY <2>4, <2>7, <3>2
      <4> QED
        BY ONLY <2>3, <2>7, <4>1, b \in Linked
    <3> QED
      BY <3>1, <3>2
  <2>8. \A b, c \in (Linked \cup {a}) \ {rm} : w[b] = w[c] => b = c
    BY ONLY <1>2, <1>4, <2>1, <2>3, <2>4, <2>5
  <2>9. {w[b] : b \in (Linked \cup {a}) \ {rm}} = (live \cup {r}) \ {value[rm]}
    BY ONLY <2>6, <2>7
  <2> QED
    BY <1>5, <2>8, <2>9 DEF OwnsLiveResponses, w
<1> QED
  BY <1>3, <1>4, <1>5, <1>7, <1>9, <1>10 DEF CacheInv

\* A call that changes nothing.
LEMMA StutterKeeps ==
  ASSUME CacheInv, UNCHANGED vars
  PROVE  CacheInv'
<1>1. UNCHANGED <<cache_, key, value, links, live>> /\ Linked' = Linked
  BY DEF vars, Linked
<1>2. TypeOK' /\ MapMatchesNodes' /\ OwnsLiveResponses'
  BY <1>1 DEF CacheInv, TypeOK, MapMatchesNodes, OwnsLiveResponses, Exist
<1>3. Readable'
  BY <1>1 DEF CacheInv, Readable
<1> QED
  BY <1>2, <1>3 DEF CacheInv

\* No call of class Cache breaks the invariant.
LEMMA StepKeeps ==
  ASSUME CacheInv, Next
  PROVE  CacheInv'
<1>1. ASSUME NEW k \in Keys, Find(k)
      PROVE  CacheInv'
  BY <1>1, FindStep
<1>2. ASSUME NEW k \in Keys, Erase(k)
      PROVE  CacheInv'
  <2>1. CASE Exist(k)
    BY <1>2, <2>1, EraseStep
  <2>2. CASE ~Exist(k)
    BY <1>2, <2>2, StutterKeeps DEF Erase
  <2> QED
    BY <2>1, <2>2
<1>3. ASSUME NEW k \in Keys, NEW r \in Responses, Put(k, r)
      PROVE  CacheInv'
  <2>1. r \in Responses \ live
    BY <1>3 DEF Put
  <2>2. CASE PutCached(k, r)
    BY <2>1, <2>2, PutCachedStep
  <2>3. CASE PutNew(k, r)
    BY <2>1, <2>3, PutNewCases, PutRoomStep, PutFullStep
  <2> QED
    BY <1>3, <2>2, <2>3 DEF Put
<1> QED
  BY <1>1, <1>2, <1>3 DEF Next

-------------------------------------------------------------------------------
(***************************************************************************)
(* The inductive invariant of class Cache: the map, the nodes and the      *)
(* responses match, and one path from head to tail reads every allocated   *)
(* node.  WellLinked alone is not inductive: it allows nodes in a ring of  *)
(* their own, and a full cache whose last node is the new one.             *)
(***************************************************************************)
THEOREM CacheInvariant == Spec => []CacheInv
<1>1. Init => CacheInv
  BY InitEstablishes
<1>2. CacheInv /\ [Next]_vars => CacheInv'
  BY StepKeeps, StutterKeeps
<1> QED
  BY <1>1, <1>2, PTL DEF Spec

\* Every field of class Cache has its type, and the sentinels' inner pointers
\* are never null.
THEOREM CacheTypeCorrect == Spec => []TypeOK
<1>1. CacheInv => TypeOK
  BY DEF CacheInv
<1> QED
  BY <1>1, CacheInvariant, PTL

\* No pointer of the list leads to a deleted node, and prev mirrors next.
THEOREM CacheWellLinked == Spec => []WellLinked
<1>1. CacheInv => WellLinked
  <2> SUFFICES ASSUME CacheInv
               PROVE  WellLinked
    OBVIOUS
  <2>1. PICK n, p : n \in Nat /\ Reads(links, p, n, Linked)
    BY ListTypeOK
  <2> QED
    <3>1. links \in LinksType /\ Linked \in SUBSET Nodes
      BY ListTypeOK
    <3>2. Mirrored(links, Linked)
      BY <2>1, <3>1, ReadsLinks
    <3> QED
      BY <3>2 DEF WellLinked, Mirrored
<1> QED
  BY <1>1, CacheInvariant, PTL

\* The hash map and the list hold the same nodes: none dangles, none is lost.
THEOREM CacheMapMatchesNodes == Spec => []MapMatchesNodes
<1>1. CacheInv => MapMatchesNodes
  BY DEF CacheInv
<1> QED
  BY <1>1, CacheInvariant, PTL

\* No response is leaked, kept after its delete, or owned by two nodes.
THEOREM CacheOwnsLiveResponses == Spec => []OwnsLiveResponses
<1>1. CacheInv => OwnsLiveResponses
  BY DEF CacheInv
<1> QED
  BY <1>1, CacheInvariant, PTL

-------------------------------------------------------------------------------
(* The list read forward.  At is a function defined by recursion; that it  *)
(* satisfies its equation is proved here with the least-number principle.  *)

\* Every set of numbers that is not empty has a least one.
LEMMA LeastNumber ==
  ASSUME NEW S \in SUBSET Nat, S # {}
  PROVE  \E m \in S : \A y \in S : m <= y
<1> DEFINE R == {ss \in Nat \X Nat : ss[1] < ss[2]}
<1>1. IsWellFoundedOn(R, Nat)
  BY NatLessThanWellFounded DEF OpToRel
<1>2. PICK x \in S : \A y \in S : ~(<<y, x>> \in R)
  <2> HIDE DEF R
  <2> QED
    BY <1>1, WFMin
<1>3. ASSUME NEW y \in S PROVE x <= y
  <2>1. x \in Nat /\ y \in Nat /\ <<y, x>> \in Nat \X Nat
    OBVIOUS
  <2>2. ~(y < x)
    BY <1>2, <2>1
  <2> QED
    BY <2>1, <2>2
<1> QED
  BY <1>3

\* What At is, for any next and any first address.
Iterate(next, first) ==
  CHOOSE f : f = [i \in Nat |-> IF i = 0 THEN first ELSE next[f[i - 1]]]

\* f follows next from first for m steps.
Follows(f, next, first, m) ==
  f = [i \in 0 .. m |-> IF i = 0 THEN first ELSE next[f[i - 1]]]

\* Two functions that follow next agree as far as both go.
LEMMA FollowsUnique ==
  ASSUME NEW next, NEW first, NEW f, NEW g, NEW m \in Nat, NEW n \in Nat,
         Follows(f, next, first, m), Follows(g, next, first, n)
  PROVE  \A i \in Nat : i <= m /\ i <= n => f[i] = g[i]
<1> DEFINE S == {i \in Nat : i <= m /\ i <= n /\ f[i] # g[i]}
<1> SUFFICES ASSUME S # {}
             PROVE  FALSE
  OBVIOUS
<1>1. PICK i \in S : \A y \in S : i <= y
  <2> S \in SUBSET Nat
    OBVIOUS
  <2> HIDE DEF S
  <2> QED
    BY LeastNumber
<1>2. i \in Nat /\ i <= m /\ i <= n /\ f[i] # g[i]
  BY <1>1
<1>3. /\ f[i] = IF i = 0 THEN first ELSE next[f[i - 1]]
      /\ g[i] = IF i = 0 THEN first ELSE next[g[i - 1]]
  <2>1. i \in 0 .. m /\ i \in 0 .. n
    BY <1>2
  <2>2. /\ f = [x \in 0 .. m |-> IF x = 0 THEN first ELSE next[f[x - 1]]]
        /\ g = [x \in 0 .. n |-> IF x = 0 THEN first ELSE next[g[x - 1]]]
    BY DEF Follows
  <2> QED
    BY ONLY <2>1, <2>2
<1>4. i # 0
  BY <1>2, <1>3
<1>5. i - 1 \in Nat /\ i - 1 <= m /\ i - 1 <= n /\ ~(i <= i - 1)
  BY <1>2, <1>4
<1>6. f[i - 1] = g[i - 1]
  BY <1>1, <1>5
<1> QED
  BY <1>2, <1>3, <1>4, <1>6

\* next can be followed for any number of steps.
LEMMA FollowsExists ==
  ASSUME NEW next, NEW first
  PROVE  \A m \in Nat : \E f : Follows(f, next, first, m)
<1> DEFINE S == {m \in Nat : ~\E f : Follows(f, next, first, m)}
<1> SUFFICES ASSUME S # {}
             PROVE  FALSE
  OBVIOUS
<1>1. PICK m \in S : \A y \in S : m <= y
  <2> S \in SUBSET Nat
    OBVIOUS
  <2> HIDE DEF S
  <2> QED
    BY LeastNumber
<1>2. m \in Nat /\ ~\E f : Follows(f, next, first, m)
  BY <1>1
<1>3. CASE m = 0
  <2> DEFINE f == [i \in 0 .. m |-> first]
  <2>1. f = [i \in 0 .. m |-> IF i = 0 THEN first ELSE next[f[i - 1]]]
    BY <1>3
  <2> HIDE DEF f
  <2> QED
    BY <1>2, <2>1 DEF Follows
<1>4. CASE m # 0
  <2>1. m - 1 \in Nat /\ ~(m <= m - 1)
    BY <1>2, <1>4
  <2>2. PICK f : Follows(f, next, first, m - 1)
    BY <1>1, <2>1
  <2>3. /\ f = [i \in 0 .. m - 1 |-> IF i = 0 THEN first ELSE next[f[i - 1]]]
    BY <2>2 DEF Follows
  <2> DEFINE g == [i \in 0 .. m |-> IF i < m THEN f[i] ELSE next[f[m - 1]]]
  <2>4. ASSUME NEW i \in 0 .. m
        PROVE  g[i] = IF i = 0 THEN first ELSE next[g[i - 1]]
    <3>1. CASE i < m
      <4>1. i \in 0 .. m - 1 /\ (i # 0 => i - 1 \in 0 .. m /\ i - 1 < m)
        BY <1>2, <3>1
      <4>2. f[i] = IF i = 0 THEN first ELSE next[f[i - 1]]
        BY ONLY <2>3, <4>1
      <4> QED
        BY <3>1, <4>1, <4>2
    <3>2. CASE ~(i < m)
      <4>1. i = m /\ i # 0 /\ m - 1 \in 0 .. m /\ m - 1 < m
        BY <1>2, <1>4, <3>2
      <4> QED
        BY <3>2, <4>1
    <3> QED
      BY <3>1, <3>2
  <2>5. g = [i \in 0 .. m |-> IF i = 0 THEN first ELSE next[g[i - 1]]]
    <3>1. g = [i \in 0 .. m |-> g[i]]
      OBVIOUS
    <3> HIDE DEF g
    <3> QED
      BY <2>4, <3>1
  <2> HIDE DEF g
  <2> QED
    BY <1>2, <2>5 DEF Follows
<1> QED
  BY <1>3, <1>4

\* The recursive definition has a solution, so it says what it seems to say.
LEMMA IterateEquation ==
  ASSUME NEW next, NEW first
  PROVE  \A i \in Nat : Iterate(next, first)[i] =
                          IF i = 0 THEN first ELSE next[Iterate(next, first)[i - 1]]
<1> DEFINE upto(m) == CHOOSE f : Follows(f, next, first, m)
           F == [i \in Nat |-> upto(i)[i]]
<1>1. ASSUME NEW m \in Nat
      PROVE  Follows(upto(m), next, first, m)
  BY FollowsExists
<1>2. ASSUME NEW i \in Nat
      PROVE  F[i] = IF i = 0 THEN first ELSE next[F[i - 1]]
  <2> DEFINE f == upto(i)
             g == upto(i - 1)
  <2>1. Follows(f, next, first, i) /\ F[i] = f[i] /\ i \in 0 .. i
    BY <1>1
  <2>2. i # 0 => /\ i - 1 \in Nat /\ i - 1 <= i /\ i - 1 <= i - 1
                 /\ Follows(g, next, first, i - 1) /\ F[i - 1] = g[i - 1]
    BY <1>1
  <2> HIDE DEF F, f, g
  <2>3. f = [x \in 0 .. i |-> IF x = 0 THEN first ELSE next[f[x - 1]]]
    BY <2>1 DEF Follows
  <2>4. f[i] = IF i = 0 THEN first ELSE next[f[i - 1]]
    BY ONLY <2>1, <2>3
  <2>5. i # 0 => f[i - 1] = g[i - 1]
    BY <2>1, <2>2, FollowsUnique
  <2> QED
    BY <2>1, <2>2, <2>4, <2>5
<1>3. F = [i \in Nat |-> IF i = 0 THEN first ELSE next[F[i - 1]]]
  <2>1. F = [i \in Nat |-> F[i]]
    OBVIOUS
  <2> HIDE DEF F
  <2> QED
    BY <1>2, <2>1
<1> DEFINE I == Iterate(next, first)
<1> HIDE DEF F
<1>4. I = [i \in Nat |-> IF i = 0 THEN first ELSE next[I[i - 1]]]
  BY <1>3 DEF Iterate
<1> HIDE DEF I
<1>5. \A i \in Nat : I[i] = IF i = 0 THEN first ELSE next[I[i - 1]]
  BY ONLY <1>4
<1> QED
  BY <1>5 DEF I

\* Followed from head, next is the path that reads the list.
LEMMA IterateReads ==
  ASSUME NEW l, NEW n \in Nat, NEW N, NEW p, Reads(l, p, n, N)
  PROVE  \A i \in 0 .. n + 1 : Iterate(l.next, head)[i] = p[i]
<1> DEFINE I == Iterate(l.next, head)
           S == {i \in 0 .. n + 1 : I[i] # p[i]}
<1> SUFFICES ASSUME S # {}
             PROVE  FALSE
  OBVIOUS
<1>1. PICK m \in S : \A y \in S : m <= y
  <2> S \in SUBSET Nat
    OBVIOUS
  <2> HIDE DEF S
  <2> QED
    BY LeastNumber
<1>2. m \in 0 .. n + 1 /\ m \in Nat /\ I[m] # p[m]
  BY <1>1
<1>3. I[m] = IF m = 0 THEN head ELSE l.next[I[m - 1]]
  BY <1>2, IterateEquation
<1>4. m # 0
  BY <1>2, <1>3 DEF Reads
<1>5. m - 1 \in 0 .. n + 1 /\ m - 1 \in 0 .. n /\ (m - 1) + 1 = m /\ ~(m <= m - 1)
  BY <1>2, <1>4
<1> HIDE DEF I
<1>6. I[m - 1] = p[m - 1]
  BY <1>1, <1>5
<1>7. l.next[p[m - 1]] = p[m]
  BY <1>5 DEF Reads
<1> QED
  BY <1>2, <1>3, <1>4, <1>6, <1>7

\* The keys of the first n nodes of a path.
KeysAlong(g, p, n) == [i \in 1 .. n |-> g[p[i]]]

\* What the refinement makes of the state: the order and the map of LRUCache.
Recency == [i \in 1 .. Size |-> key[At[i]]]
Holds == [k \in Keys |-> IF Exist(k) THEN value[cache_[k]] ELSE NULL]

\* The recency order is the keys along any path that reads the list, before
\* and after a call.
LEMMA RecencyIs ==
  ASSUME NEW n \in Nat, NEW p, Linked \in SUBSET Nodes, Reads(links, p, n, Linked)
  PROVE  Recency = KeysAlong(key, p, n)
<1>1. At = Iterate(links.next, head)
  BY DEF At, Iterate
<1>2. Size = n
  BY ReadsCount DEF Size
<1>3. \A i \in 1 .. n : At[i] = p[i]
  <2>1. \A i \in 1 .. n : i \in 0 .. n + 1
    OBVIOUS
  <2> QED
    BY <1>1, <2>1, IterateReads
<1> QED
  BY <1>2, <1>3 DEF Recency, KeysAlong

\* The same of the state a call leaves.
LEMMA NextRecencyIs ==
  ASSUME NEW n \in Nat, NEW p, Linked' \in SUBSET Nodes, Reads(links', p, n, Linked')
  PROVE  Recency' = KeysAlong(key', p, n)
<1>1. At' = Iterate(links'.next, head)
  BY DEF At, Iterate
<1>2. Size' = n
  BY ReadsCount DEF Size
<1>3. \A i \in 1 .. n : At'[i] = p[i]
  <2>1. \A i \in 1 .. n : i \in 0 .. n + 1
    OBVIOUS
  <2> QED
    BY <1>1, <2>1, IterateReads
<1> QED
  BY <1>2, <1>3 DEF Recency, KeysAlong

\* The order lists keys, each once.
LEMMA RecencyType ==
  ASSUME CacheInv, NEW n \in Nat, NEW p, Reads(links, p, n, Linked)
  PROVE  /\ Recency = KeysAlong(key, p, n)
         /\ Recency \in Seq(Keys) /\ Len(Recency) = n
         /\ \A i \in 1 .. n : Recency[i] = key[p[i]] /\ p[i] \in Linked
         /\ \A i, j \in 1 .. n : Recency[i] = Recency[j] => i = j
<1>1. Recency = KeysAlong(key, p, n)
  BY RecencyIs, ListTypeOK
<1>2. \A i \in 1 .. n : p[i] \in Linked /\ key[p[i]] \in Keys /\ cache_[key[p[i]]] = p[i]
  BY DEF Reads, CacheInv, TypeOK, MapMatchesNodes, Linked
<1>3. \A i, j \in 1 .. n : p[i] = p[j] => i = j
  <2>1. \A i \in 1 .. n : i \in 0 .. n + 1
    OBVIOUS
  <2> QED
    BY <2>1 DEF Reads
<1>4. Recency \in Seq(Keys) /\ Len(Recency) = n
  BY <1>1, <1>2, IsASeq DEF KeysAlong
<1>5. \A i \in 1 .. n : Recency[i] = key[p[i]]
  BY <1>1 DEF KeysAlong
<1> QED
  BY <1>1, <1>2, <1>3, <1>4, <1>5

-------------------------------------------------------------------------------
(* What the sequence operators of LRUCache return.                         *)

\* A sequence is k in front of s when its elements are.
LEMMA ConsIs ==
  ASSUME NEW S, NEW s \in Seq(S), NEW k \in S, NEW t \in Seq(S),
         Len(t) = Len(s) + 1, t[1] = k, \A i \in 1 .. Len(s) : t[i + 1] = s[i]
  PROVE  t = <<k>> \o s
<1> DEFINE u == <<k>> \o s
           n == Len(s)
<1>1. <<k>> \in Seq(S) /\ Len(<<k>>) = 1 /\ <<k>>[1] = k /\ n \in Nat
  OBVIOUS
<1>2. /\ u \in Seq(S) /\ Len(u) = 1 + n
      /\ \A i \in 1 .. 1 + n : u[i] = IF i <= 1 THEN <<k>>[i] ELSE s[i - 1]
  BY <1>1, ConcatProperties
<1> HIDE DEF u
<1>3. ASSUME NEW i \in 1 .. 1 + n
      PROVE  t[i] = u[i]
  <2>1. CASE i = 1
    BY <1>1, <1>2, <2>1
  <2>2. CASE i # 1
    <3>1. ~(i <= 1) /\ i - 1 \in 1 .. n /\ (i - 1) + 1 = i
      BY <1>1, <2>2
    <3> QED
      BY <1>2, <3>1
  <2> QED
    BY <2>1, <2>2
<1>4. Len(t) = Len(u) /\ 1 .. Len(t) = 1 .. 1 + n
  BY <1>1, <1>2
<1>5. t = u
  BY <1>2, <1>3, <1>4, SeqEqual
<1> QED
  BY <1>5 DEF u

\* A sequence is s without its i-th element when the others have moved up.
LEMMA RemoveAtIs ==
  ASSUME NEW S, NEW s \in Seq(S), NEW i \in 1 .. Len(s), NEW t \in Seq(S),
         Len(t) = Len(s) - 1,
         \A j \in 1 .. Len(s) - 1 : t[j] = IF j < i THEN s[j] ELSE s[j + 1]
  PROVE  t = LRU!RemoveAt(s, i)
<1> DEFINE a == SubSeq(s, 1, i - 1)
           b == SubSeq(s, i + 1, Len(s))
           n == Len(s)
           u == a \o b
<1>1. n \in Nat /\ i \in 1 .. n /\ \A j \in 1 .. n : s[j] \in S
  BY ElementOfSeq
<1>2. a \in Seq(S) /\ Len(a) = i - 1 /\ \A j \in 1 .. i - 1 : a[j] = s[j]
  <2>1. \A j \in 1 .. i - 1 : s[j] \in S
    BY <1>1
  <2>2. /\ a \in Seq(S)
        /\ Len(a) = IF 1 <= i - 1 THEN (i - 1) - 1 + 1 ELSE 0
        /\ \A j \in 1 .. (i - 1) - 1 + 1 : a[j] = s[1 + j - 1]
    BY <1>1, <2>1, SubSeqProperties
  <2> QED
    BY <1>1, <2>2
<1>3. b \in Seq(S) /\ Len(b) = n - i /\ \A j \in 1 .. n - i : b[j] = s[i + j]
  <2>1. \A j \in i + 1 .. n : s[j] \in S
    BY <1>1
  <2>2. /\ b \in Seq(S)
        /\ Len(b) = IF i + 1 <= n THEN n - (i + 1) + 1 ELSE 0
        /\ \A j \in 1 .. n - (i + 1) + 1 : b[j] = s[(i + 1) + j - 1]
    BY <1>1, <2>1, SubSeqProperties
  <2> QED
    BY <1>1, <2>2
<1>4. /\ u \in Seq(S) /\ Len(u) = Len(a) + Len(b)
      /\ \A j \in 1 .. Len(a) + Len(b) : u[j] = IF j <= Len(a) THEN a[j] ELSE b[j - Len(a)]
  BY <1>2, <1>3, ConcatProperties
<1>5. LRU!RemoveAt(s, i) = u
  BY DEF LRU!RemoveAt
<1> HIDE DEF a, b, u
<1>6. Len(u) = n - 1 /\ Len(t) = n - 1
  BY <1>1, <1>2, <1>3, <1>4
<1>7. ASSUME NEW j \in 1 .. n - 1
      PROVE  t[j] = u[j]
  <2>1. CASE j < i
    <3>1. j \in 1 .. i - 1 /\ j <= i - 1 /\ j \in 1 .. (i - 1) + (n - i)
      BY <1>1, <2>1
    <3> QED
      BY <1>2, <1>3, <1>4, <2>1, <3>1
  <2>2. CASE ~(j < i)
    <3>1. /\ ~(j <= i - 1) /\ j \in 1 .. (i - 1) + (n - i)
          /\ j - (i - 1) \in 1 .. n - i /\ i + (j - (i - 1)) = j + 1
      BY <1>1, <2>2
    <3>2. u[j] = b[j - (i - 1)] /\ b[j - (i - 1)] = s[i + (j - (i - 1))]
      BY <1>2, <1>3, <1>4, <3>1
    <3> QED
      BY <2>2, <3>1, <3>2
  <2> QED
    BY <2>1, <2>2
<1> HIDE DEF n
<1>8. t = u
  BY <1>4, <1>6, <1>7, SeqEqual
<1> QED
  BY <1>5, <1>8

\* A sequence is s without its last element when the others are where they were.
LEMMA FrontIs ==
  ASSUME NEW S, NEW s \in Seq(S), s # <<>>, NEW t \in Seq(S),
         Len(t) = Len(s) - 1, \A i \in 1 .. Len(s) - 1 : t[i] = s[i]
  PROVE  t = LRU!Front(s) /\ LRU!Last(s) = s[Len(s)]
<1> DEFINE n == Len(s)
           u == SubSeq(s, 1, n - 1)
<1>1. n \in Nat /\ n # 0 /\ \A j \in 1 .. n : s[j] \in S
  BY ElementOfSeq, EmptySeq
<1>2. \A j \in 1 .. n - 1 : s[j] \in S
  BY <1>1
<1>3. /\ u \in Seq(S)
      /\ Len(u) = IF 1 <= n - 1 THEN (n - 1) - 1 + 1 ELSE 0
      /\ \A j \in 1 .. (n - 1) - 1 + 1 : u[j] = s[1 + j - 1]
  BY <1>1, <1>2, SubSeqProperties
<1> HIDE DEF u
<1>4. Len(u) = n - 1 /\ \A j \in 1 .. n - 1 : u[j] = s[j]
  BY <1>1, <1>3
<1>5. t = u
  BY <1>3, <1>4, SeqEqual
<1> QED
  BY <1>5 DEF u, LRU!Front, LRU!Last

-------------------------------------------------------------------------------
(* Each call as a step of LRUCache.                                        *)

\* What LRUCache holds, and for which keys.
LEMMA HoldsIs ==
  ASSUME CacheInv
  PROVE  /\ LRU!Cached = {k \in Keys : Exist(k)}
         /\ \A k \in Keys : Holds[k] \in live \cup {NULL} /\ (~Exist(k) => Holds[k] = NULL)
<1>1. NULL \notin live
  BY AddressAssumption DEF CacheInv, TypeOK
<1>2. \A k \in Keys : Exist(k) => value[cache_[k]] \in live
  BY CachedNode
<1>3. \A k \in Keys : Holds[k] = IF Exist(k) THEN value[cache_[k]] ELSE NULL
  BY DEF Holds
<1>4. LRU!Cached = {k \in Keys : Holds[k] # NULL}
  BY DEF LRU!Cached, Holds
<1> QED
  BY <1>1, <1>2, <1>3, <1>4

\* A key's place in the order is its node's place in the list.
LEMMA PositionIs ==
  ASSUME CacheInv, NEW n \in Nat, NEW p, Reads(links, p, n, Linked), NEW j \in 1 .. n
  PROVE  LRU!Position(key[p[j]]) = j /\ j \in 1 .. Len(Recency)
<1>1. /\ Len(Recency) = n /\ \A i \in 1 .. n : Recency[i] = key[p[i]]
      /\ \A x, y \in 1 .. n : Recency[x] = Recency[y] => x = y
  BY RecencyType
<1>2. LRU!Position(key[p[j]]) = CHOOSE i \in 1 .. Len(Recency) : Recency[i] = key[p[j]]
  BY DEF LRU!Position, Recency
<1> QED
  BY <1>1, <1>2

\* Without its j-th node the list reads as the order without the j-th key.
LEMMA WithoutIs ==
  ASSUME CacheInv, NEW n \in Nat, NEW p, Reads(links, p, n, Linked), NEW j \in 1 .. n
  PROVE  /\ KeysAlong(key, Without(p, n, j), n - 1)
              = LRU!RemoveAt(Recency, LRU!Position(key[p[j]]))
         /\ KeysAlong(key, Without(p, n, j), n - 1) \in Seq(Keys)
         /\ n - 1 \in Nat
<1> DEFINE q == Without(p, n, j)
           t == KeysAlong(key, q, n - 1)
<1>1. /\ Recency \in Seq(Keys) /\ Len(Recency) = n
      /\ \A i \in 1 .. n : Recency[i] = key[p[i]] /\ p[i] \in Linked
  BY RecencyType
<1>2. \A i \in 1 .. n : key[p[i]] \in Keys
  BY <1>1 DEF CacheInv, TypeOK, Linked
<1>3. LRU!Position(key[p[j]]) = j /\ j \in 1 .. Len(Recency)
  BY PositionIs
<1>4. \A i \in 1 .. n - 1 : q[i] = IF i < j THEN p[i] ELSE p[i + 1]
  BY DEF Without
<1>5. \A i \in 1 .. n - 1 : i \in 1 .. n /\ i + 1 \in 1 .. n /\ n - 1 \in Nat
  OBVIOUS
<1>6. n - 1 \in Nat
  OBVIOUS
<1> HIDE DEF q
<1>7. \A i \in 1 .. n - 1 : key[q[i]] \in Keys
  BY <1>2, <1>4, <1>5
<1>8. t \in Seq(Keys) /\ Len(t) = n - 1
  BY <1>6, <1>7, IsASeq DEF KeysAlong
<1>9. \A i \in 1 .. n - 1 : t[i] = IF i < j THEN Recency[i] ELSE Recency[i + 1]
  BY <1>1, <1>4, <1>5 DEF KeysAlong
<1> HIDE DEF t
<1>10. t = LRU!RemoveAt(Recency, j)
  BY <1>1, <1>3, <1>8, <1>9, RemoveAtIs
<1> QED
  BY <1>3, <1>6, <1>8, <1>10 DEF t, q

\* With a node in front the list reads as the order with its key in front.
LEMMA WithFirstIs ==
  ASSUME NEW g, NEW q, NEW n \in Nat, NEW a,
         KeysAlong(g, q, n) \in Seq(Keys), g[a] \in Keys
  PROVE  KeysAlong(g, WithFirst(q, n, a), n + 1) = <<g[a]>> \o KeysAlong(g, q, n)
<1> DEFINE r == WithFirst(q, n, a)
           s == KeysAlong(g, q, n)
           t == KeysAlong(g, r, n + 1)
           k == g[a]
<1>1. /\ r[1] = a /\ \A i \in 1 .. n : r[i + 1] = q[i]
  BY DEF WithFirst
<1>2. Len(s) = n /\ \A i \in 1 .. n : s[i] = g[q[i]]
  BY DEF KeysAlong
<1>3. \A i \in 1 .. n : s[i] \in Keys
  BY <1>2, ElementOfSeq
<1>4. /\ \A i \in 1 .. n + 1 : i = 1 \/ (i - 1 \in 1 .. n /\ (i - 1) + 1 = i)
      /\ \A i \in 1 .. n : i + 1 \in 1 .. n + 1
      /\ 1 \in 1 .. n + 1 /\ n + 1 \in Nat
  OBVIOUS
<1> HIDE DEF r, s
<1>5. \A i \in 1 .. n + 1 : g[r[i]] \in Keys
  <2> TAKE i \in 1 .. n + 1
  <2>1. CASE i = 1
    BY <1>1, <2>1
  <2>2. CASE i # 1
    <3>1. i - 1 \in 1 .. n /\ r[i] = q[i - 1]
      BY <1>1, <1>4, <2>2
    <3> QED
      BY <1>2, <1>3, <3>1
  <2> QED
    BY <2>1, <2>2
<1>6. t \in Seq(Keys) /\ Len(t) = n + 1
  BY <1>4, <1>5, IsASeq DEF KeysAlong
<1>7. t[1] = k /\ \A i \in 1 .. n : t[i + 1] = s[i]
  BY <1>1, <1>2, <1>4 DEF KeysAlong
<1> HIDE DEF t, k
<1>8. k \in Keys /\ s \in Seq(Keys)
  BY DEF k, s
<1>9. t = <<k>> \o s
  BY <1>2, <1>6, <1>7, <1>8, ConsIs
<1> QED
  BY <1>9 DEF t, k, r, s

\* moveToHead is MovedToFront.
LEMMA MovedIs ==
  ASSUME CacheInv, NEW k \in Keys, Exist(k), links' = MoveToHead(links, cache_[k]),
         UNCHANGED <<cache_, key>>
  PROVE  Recency' = LRU!MovedToFront(k)
<1>1. PICK n, p : n \in Nat /\ Reads(links, p, n, Linked)
  BY ListTypeOK
<1>2. PICK j \in 1 .. n : p[j] = cache_[k]
  BY <1>1, CachedNode DEF Reads
<1>3. key[p[j]] = k /\ Linked' = Linked
  BY <1>2, CachedNode DEF Linked
<1> DEFINE q == Without(p, n, j)
           m == n - 1
           r == WithFirst(q, m, p[j])
<1>4. /\ KeysAlong(key, q, m) = LRU!RemoveAt(Recency, LRU!Position(k))
      /\ KeysAlong(key, q, m) \in Seq(Keys) /\ m \in Nat /\ m + 1 = n
  BY <1>1, <1>3, WithoutIs
<1>5. Reads(links', r, n, Linked')
  BY <1>1, <1>2, <1>3, ListTypeOK, MoveReads
<1> HIDE DEF m, q
<1>6. Recency' = KeysAlong(key, r, n)
  BY <1>1, <1>3, <1>5, ListTypeOK, NextRecencyIs
<1>7. KeysAlong(key, r, m + 1) = <<key[p[j]]>> \o KeysAlong(key, q, m)
  BY <1>3, <1>4, WithFirstIs
<1> HIDE DEF r
<1>8. m + 1 = n
  BY <1>4
<1>9. Recency' = <<k>> \o LRU!RemoveAt(Recency, LRU!Position(k))
  BY <1>3, <1>4, <1>6, <1>7, <1>8
<1> QED
  BY <1>9 DEF LRU!MovedToFront, Recency

\* Two readings of one path agree when no node on it changed its key.
LEMMA KeysAlongSame ==
  ASSUME NEW g, NEW h, NEW p, NEW q, NEW n, \A i \in 1 .. n : g[p[i]] = h[q[i]]
  PROVE  KeysAlong(g, p, n) = KeysAlong(h, q, n)
BY DEF KeysAlong

\* find on the pointers is Find on the order.
LEMMA FindIsFind ==
  ASSUME CacheInv, NEW k \in Keys, Find(k)
  PROVE  /\ Recency' = IF k \in LRU!Cached THEN LRU!MovedToFront(k) ELSE Recency
         /\ Holds' = Holds
<1>1. UNCHANGED <<cache_, key, value>>
  BY DEF Find
<1>2. Holds' = Holds
  BY <1>1 DEF Holds, Exist
<1>3. CASE Exist(k)
  <2>1. Recency' = LRU!MovedToFront(k)
    BY <1>1, <1>3, MovedIs DEF Find
  <2> QED
    BY <1>2, <1>3, <2>1, HoldsIs
<1>4. CASE ~Exist(k)
  <2>1. links' = links
    BY <1>4 DEF Find
  <2>2. Recency' = Recency
    BY <1>1, <2>1 DEF Recency, Size, Linked, At
  <2> QED
    BY <1>2, <1>4, <2>2, HoldsIs
<1> QED
  BY <1>3, <1>4

\* put of a cached key is Replace: the entry moves to the front with its new response.
LEMMA PutCachedIsReplace ==
  ASSUME CacheInv, NEW k \in Keys, NEW r \in Responses \ live, PutCached(k, r)
  PROVE  /\ k \in LRU!Cached
         /\ Recency' = LRU!MovedToFront(k)
         /\ Holds' = [Holds EXCEPT ![k] = r]
<1>1. /\ Exist(k) /\ UNCHANGED <<cache_, key>> /\ links' = MoveToHead(links, cache_[k])
      /\ value' = [value EXCEPT ![cache_[k]] = r]
  BY DEF PutCached
<1>2. k \in LRU!Cached /\ Recency' = LRU!MovedToFront(k)
  BY <1>1, HoldsIs, MovedIs
<1>3. value \in [Nodes -> Responses \cup {NULL}]
  BY DEF CacheInv, TypeOK
<1>4. cache_[k] \in Nodes /\ key[cache_[k]] = k
  BY <1>1, CachedNode
<1>5. ASSUME NEW x \in Keys
      PROVE  Holds'[x] = IF x = k THEN r ELSE Holds[x]
  <2>1. CASE Exist(x)
    <3>1. cache_[x] \in Nodes /\ key[cache_[x]] = x
      BY <2>1, CachedNode
    <3>2. value'[cache_[x]] = IF x = k THEN r ELSE value[cache_[x]]
      BY <1>1, <1>3, <1>4, <3>1
    <3> QED
      BY <1>1, <2>1, <3>2 DEF Holds, Exist
  <2>2. CASE ~Exist(x)
    BY <1>1, <2>2 DEF Holds, Exist
  <2> QED
    BY <2>1, <2>2
<1>6. Holds' = [Holds EXCEPT ![k] = r]
  BY <1>5 DEF Holds
<1> QED
  BY <1>2, <1>6

\* put of a new key with room for it is Insert.
LEMMA PutRoomIsInsert ==
  ASSUME CacheInv, NEW k \in Keys, NEW r \in Responses \ live, NEW a \in Nodes,
         PutRoom(k, r, a)
  PROVE  /\ k \notin LRU!Cached
         /\ Len(Recency) < Capacity
         /\ Recency' = <<k>> \o Recency
         /\ Holds' = [Holds EXCEPT ![k] = r]
<1>1. /\ key[a] = NULL /\ ~Exist(k) /\ ~Full /\ cache_' = [cache_ EXCEPT ![k] = a]
      /\ key' = [key EXCEPT ![a] = k] /\ value' = [value EXCEPT ![a] = r]
      /\ links' = AddToHead(links, a)
  BY DEF PutRoom
<1>2. /\ cache_ \in [Keys -> Nodes \cup {NULL}] /\ key \in [Nodes -> Keys \cup {NULL}]
      /\ value \in [Nodes -> Responses \cup {NULL}] /\ NULL \notin Nodes
  BY AddressAssumption DEF CacheInv, TypeOK
<1>3. k \notin LRU!Cached
  BY <1>1, HoldsIs
<1>4. PICK n, p : n \in Nat /\ Reads(links, p, n, Linked)
  BY ListTypeOK
<1>5. /\ Recency = KeysAlong(key, p, n) /\ Recency \in Seq(Keys) /\ Len(Recency) = n
      /\ \A i \in 1 .. n : p[i] \in Linked
  BY <1>4, RecencyType
<1>6. Len(Recency) < Capacity
  <2>1. Cardinality({x \in Keys : Exist(x)}) = n
    BY <1>4, KeysCount DEF CacheInv
  <2>2. ~(n + 1 > Capacity) /\ Capacity \in Nat
    BY <1>1, <2>1, CapacityAssumption DEF Full
  <2> QED
    BY <1>4, <1>5, <2>2
<1>7. Linked' = Linked \cup {a} /\ a \notin Linked /\ Linked \in SUBSET Nodes
  BY <1>1, PutRoomStep DEF Linked
<1> DEFINE q == WithFirst(p, n, a)
<1>8. Reads(links', q, n + 1, Linked') /\ n + 1 \in Nat /\ Linked' \in SUBSET Nodes
  BY <1>1, <1>4, <1>7, ListTypeOK, AddReads
<1> HIDE DEF q
<1>9. Recency' = KeysAlong(key', q, n + 1)
  BY <1>8, NextRecencyIs
<1>10. key'[a] = k /\ \A b \in Linked : key'[b] = key[b]
  BY <1>1, <1>2, <1>7
<1>11. KeysAlong(key', p, n) = Recency
  BY <1>5, <1>10, KeysAlongSame
<1>12. Recency' = <<k>> \o Recency
  <2>1. KeysAlong(key', WithFirst(p, n, a), n + 1) = <<key'[a]>> \o KeysAlong(key', p, n)
    BY <1>4, <1>5, <1>10, <1>11, WithFirstIs
  <2> QED
    BY ONLY <1>9, <1>10, <1>11, <2>1 DEF q
<1>13. ASSUME NEW x \in Keys
       PROVE  Holds'[x] = IF x = k THEN r ELSE Holds[x]
  <2>1. CASE x = k
    BY <1>1, <1>2, <2>1 DEF Holds, Exist
  <2>2. CASE x # k
    <3>1. cache_'[x] = cache_[x]
      BY <1>1, <1>2, <2>2
    <3>2. Exist(x) => cache_[x] \in Linked
      BY CachedNode
    <3>3. Exist(x) => value'[cache_[x]] = value[cache_[x]]
      BY <1>1, <1>2, <1>7, <3>2
    <3> QED
      BY <2>2, <3>1, <3>3 DEF Holds, Exist
  <2> QED
    BY <2>1, <2>2
<1>14. Holds' = [Holds EXCEPT ![k] = r]
  BY <1>13 DEF Holds
<1> QED
  BY <1>3, <1>6, <1>12, <1>14

\* put of a new key into a full cache is Evict: node tail->prev holds the last key.
LEMMA PutFullIsEvict ==
  ASSUME CacheInv, NEW k \in Keys, NEW r \in Responses \ live, NEW a \in Nodes, NEW rm,
         PutFull(k, r, a, rm)
  PROVE  /\ k \notin LRU!Cached
         /\ Len(Recency) >= Capacity
         /\ Recency' = <<k>> \o LRU!Front(Recency)
         /\ Holds' = [Holds EXCEPT ![k] = r, ![LRU!Last(Recency)] = NULL]
<1>1. /\ key[a] = NULL /\ ~Exist(k)
      /\ cache_' = [cache_ EXCEPT ![k] = a, ![key[rm]] = NULL]
      /\ key' = [key EXCEPT ![a] = k, ![rm] = NULL]
      /\ value' = [value EXCEPT ![a] = r, ![rm] = NULL]
      /\ links' = Deleted(AddToHead(links, a), rm)
  BY DEF PutFull
<1>2. /\ cache_ \in [Keys -> Nodes \cup {NULL}] /\ key \in [Nodes -> Keys \cup {NULL}]
      /\ value \in [Nodes -> Responses \cup {NULL}] /\ NULL \notin Nodes
  BY AddressAssumption DEF CacheInv, TypeOK
<1>3. k \notin LRU!Cached
  BY <1>1, HoldsIs
<1>4. PICK n, p : n \in Nat /\ Reads(links, p, n, Linked)
  BY ListTypeOK
<1>5. /\ Linked' = (Linked \cup {a}) \ {rm} /\ rm \in Linked
      /\ n >= Capacity /\ n \in Nat \ {0} /\ rm = p[n]
      /\ a \notin Linked /\ Linked \in SUBSET Nodes
  BY <1>1, <1>4, PutFullStep DEF Linked
<1>6. /\ Recency = KeysAlong(key, p, n) /\ Recency \in Seq(Keys) /\ Len(Recency) = n
      /\ \A i \in 1 .. n : Recency[i] = key[p[i]] /\ p[i] \in Linked
  BY <1>4, RecencyType
<1>7. Len(Recency) >= Capacity
  BY <1>5, <1>6
<1> DEFINE m == n - 1
           q == WithFirst(p, n, a)
           t == Without(q, n + 1, n + 1)
           f == WithFirst(p, m, a)
<1>8. m \in Nat /\ m + 1 = n /\ \A i \in 1 .. m : i \in 1 .. n /\ i \in 0 .. n + 1
  BY <1>5
<1>9. /\ AddToHead(links, a) \in LinksType /\ n + 1 \in Nat
      /\ Reads(AddToHead(links, a), q, n + 1, Linked \cup {a})
      /\ q[n + 1] = p[n] /\ n + 1 \in 1 .. n + 1 /\ Linked \cup {a} \in SUBSET Nodes
  BY <1>4, <1>5, ListTypeOK, LastAfterAdd
<1>10. Reads(links', t, n, Linked') /\ Linked' \in SUBSET Nodes
  <2> HIDE DEF q
  <2>1. /\ Reads(Deleted(AddToHead(links, a), q[n + 1]), Without(q, n + 1, n + 1),
                 (n + 1) - 1, (Linked \cup {a}) \ {q[n + 1]})
    BY <1>9, RemoveReads
  <2>2. (n + 1) - 1 = n /\ q[n + 1] = rm
    BY <1>5, <1>9
  <2> QED
    BY <1>1, <1>5, <2>1, <2>2
<1>11. \A i \in 1 .. n : t[i] = f[i]
  <2>1. \A i \in 1 .. n : /\ i \in 0 .. n + 1 /\ i < n + 1 /\ i \in 0 .. n + 2 /\ i # 0
                          /\ i \in 0 .. m + 2
    BY <1>8
  <2>2. \A i \in 1 .. n : t[i] = q[i]
    BY <2>1 DEF Without
  <2>3. \A i \in 1 .. n : q[i] = IF i = 1 THEN a ELSE p[i - 1]
    BY <2>1 DEF WithFirst
  <2>4. \A i \in 1 .. n : f[i] = IF i = 1 THEN a ELSE p[i - 1]
    BY <2>1 DEF WithFirst
  <2> QED
    BY <2>2, <2>3, <2>4
<1> HIDE DEF m, q, t, f
<1>12. Recency' = KeysAlong(key', t, n)
  BY <1>5, <1>10, NextRecencyIs
<1>13. Recency' = KeysAlong(key', f, n)
  BY <1>11, <1>12, KeysAlongSame
<1>14. \A i \in 1 .. m : p[i] \in Linked /\ p[i] # rm
  <2>1. \A i \in 1 .. m : p[i] \in Linked
    BY <1>6, <1>8
  <2>2. n \in 0 .. n + 1 /\ \A i \in 1 .. m : i # n
    BY <1>5, <1>8
  <2>3. \A i, j \in 0 .. n + 1 : p[i] = p[j] => i = j
    BY <1>4 DEF Reads
  <2> QED
    BY <1>5, <1>8, <2>1, <2>2, <2>3
<1>15. /\ key'[a] = k /\ \A b \in Linked : b # rm => key'[b] = key[b] /\ value'[b] = value[b]
       /\ value'[a] = r
  BY <1>1, <1>2, <1>5
<1>16. KeysAlong(key', p, m) = KeysAlong(key, p, m)
  BY <1>14, <1>15, KeysAlongSame
<1> DEFINE s == KeysAlong(key, p, m)
<1>17. s \in Seq(Keys) /\ Len(s) = m /\ \A i \in 1 .. m : s[i] = Recency[i]
  <2>1. \A i \in 1 .. m : key[p[i]] \in Keys
    BY <1>2, <1>5, <1>14 DEF Linked
  <2>2. s \in Seq(Keys) /\ Len(s) = m
    BY <1>8, <2>1, IsASeq DEF KeysAlong
  <2>3. \A i \in 1 .. m : s[i] = key[p[i]]
    BY DEF KeysAlong
  <2> QED
    BY <1>6, <1>8, <2>2, <2>3
<1> HIDE DEF s
<1>18. s = LRU!Front(Recency) /\ LRU!Last(Recency) = key[rm]
  <2>1. Recency # <<>> /\ Len(Recency) - 1 = m /\ n \in 1 .. n
    BY <1>5, <1>6, <1>8 DEF m
  <2> HIDE DEF Recency
  <2>2. s = LRU!Front(Recency) /\ LRU!Last(Recency) = Recency[n]
    BY <1>6, <1>17, <2>1, FrontIs
  <2> QED
    BY <1>5, <1>6, <2>1, <2>2
<1>19. Recency' = <<k>> \o LRU!Front(Recency)
  <2>1. KeysAlong(key', WithFirst(p, m, a), m + 1) = <<key'[a]>> \o KeysAlong(key', p, m)
    BY <1>8, <1>15, <1>16, <1>17, WithFirstIs DEF s
  <2> QED
    BY <1>8, <1>13, <1>15, <1>16, <1>18, <2>1 DEF f, s
<1> DEFINE z == key[rm]
<1>20. z \in Keys /\ z # k /\ cache_[z] = rm
  BY <1>1, <1>2, <1>5 DEF CacheInv, MapMatchesNodes, Linked, Exist
<1> HIDE DEF z
<1>21. ASSUME NEW x \in Keys
       PROVE  Holds'[x] = IF x = z THEN NULL ELSE IF x = k THEN r ELSE Holds[x]
  <2>1. cache_'[x] = IF x = z THEN NULL ELSE IF x = k THEN a ELSE cache_[x]
    BY <1>1, <1>2, <1>20 DEF z
  <2>2. CASE x = z
    BY <2>1, <2>2 DEF Holds, Exist
  <2>3. CASE x = k
    BY <1>2, <1>15, <1>20, <2>1, <2>3 DEF Holds, Exist
  <2>4. CASE x # k /\ x # z
    <3>1. Exist(x) => cache_[x] \in Linked /\ key[cache_[x]] = x
      BY CachedNode
    <3>2. Exist(x) => value'[cache_[x]] = value[cache_[x]]
      BY <1>15, <2>4, <3>1 DEF z
    <3> QED
      BY <2>1, <2>4, <3>2 DEF Holds, Exist
  <2> QED
    BY <2>2, <2>3, <2>4
<1>22. Holds' = [Holds EXCEPT ![k] = r, ![z] = NULL]
  BY <1>21 DEF Holds
<1> QED
  BY <1>3, <1>7, <1>18, <1>19, <1>22 DEF z

\* erase on the pointers is Erase on the order, also of a key that is not cached.
LEMMA EraseIsErase ==
  ASSUME CacheInv, NEW k \in Keys, Erase(k)
  PROVE  /\ Recency' = IF k \in LRU!Cached
                       THEN LRU!RemoveAt(Recency, LRU!Position(k)) ELSE Recency
         /\ Holds' = [Holds EXCEPT ![k] = NULL]
<1>1. CASE ~Exist(k)
  <2>1. UNCHANGED <<cache_, key, value, links>>
    BY <1>1 DEF Erase, vars
  <2>2. Recency' = Recency /\ Holds' = Holds
    BY <2>1 DEF Recency, Holds, Size, Linked, At, Exist
  <2>3. Holds = [Holds EXCEPT ![k] = NULL]
    BY <1>1 DEF Holds
  <2> QED
    BY <1>1, <2>2, <2>3, HoldsIs
<1>2. CASE Exist(k)
  <2> DEFINE a == cache_[k]
  <2>1. /\ cache_' = [cache_ EXCEPT ![k] = NULL] /\ key' = [key EXCEPT ![a] = NULL]
        /\ value' = [value EXCEPT ![a] = NULL] /\ links' = Deleted(links, a)
    BY <1>2 DEF Erase
  <2>2. a \in Linked /\ a \in Nodes /\ key[a] = k /\ k \in LRU!Cached
    BY <1>2, CachedNode, HoldsIs
  <2> HIDE DEF a
  <2>3. /\ cache_ \in [Keys -> Nodes \cup {NULL}] /\ key \in [Nodes -> Keys \cup {NULL}]
        /\ value \in [Nodes -> Responses \cup {NULL}]
    BY DEF CacheInv, TypeOK
  <2>4. \A b \in Linked : b # a => key'[b] = key[b] /\ value'[b] = value[b]
    BY <2>1, <2>2, <2>3 DEF Linked
  <2>5. PICK n, p : n \in Nat /\ Reads(links, p, n, Linked)
    BY ListTypeOK
  <2>6. PICK j \in 1 .. n : p[j] = a
    BY <2>2, <2>5 DEF Reads
  <2> DEFINE q == Without(p, n, j)
             m == n - 1
  <2>7. m \in Nat /\ Reads(links', q, m, Linked \ {a})
    BY <2>1, <2>5, <2>6, ListTypeOK, RemoveReads
  <2>8. Linked' = Linked \ {a} /\ Linked' \in SUBSET Nodes
    BY <1>2, EraseStep, ListTypeOK DEF a
  <2> HIDE DEF q, m
  <2>9. Recency' = KeysAlong(key', q, m)
    BY <2>7, <2>8, NextRecencyIs
  <2>10. KeysAlong(key', q, m) = KeysAlong(key, q, m)
    <3>1. \A i \in 1 .. m : q[i] \in Linked \ {a}
      BY <2>7 DEF Reads
    <3> QED
      BY <2>4, <3>1, KeysAlongSame
  <2>11. KeysAlong(key, q, m) = LRU!RemoveAt(Recency, LRU!Position(k))
    BY <2>2, <2>5, <2>6, WithoutIs DEF q, m
  <2>12. ASSUME NEW x \in Keys
         PROVE  Holds'[x] = IF x = k THEN NULL ELSE Holds[x]
    <3>1. CASE x = k
      BY <2>1, <2>3, <3>1 DEF Holds, Exist
    <3>2. CASE x # k
      <4>1. cache_'[x] = cache_[x]
        BY <2>1, <2>3, <3>2
      <4>2. Exist(x) => cache_[x] \in Linked /\ key[cache_[x]] = x
        BY CachedNode
      <4>3. Exist(x) => value'[cache_[x]] = value[cache_[x]]
        BY <2>2, <2>4, <3>2, <4>2
      <4> QED
        BY <3>2, <4>1, <4>3 DEF Holds, Exist
    <3> QED
      BY <3>1, <3>2
  <2>13. Holds' = [Holds EXCEPT ![k] = NULL]
    BY <2>12 DEF Holds
  <2> QED
    BY <2>2, <2>9, <2>10, <2>11, <2>13
<1> QED
  BY <1>1, <1>2

\* The response a caller hands to put is held under no key yet.
LEMMA NewResponse ==
  ASSUME CacheInv, NEW r \in Responses \ live
  PROVE  r \notin {Holds[x] : x \in Keys}
BY HoldsIs, AddressAssumption

\* The list that the constructor leaves reads as the empty order.
LEMMA StartsEmpty ==
  ASSUME Init
  PROVE  LRU!LRUInit
<1>1. CacheInv /\ Linked = {}
  BY InitEstablishes DEF Init, Linked
<1>2. Size = 0 /\ 1 .. 0 = {}
  BY <1>1, FS_EmptySet DEF Size
<1>3. Recency = <<>>
  BY <1>2 DEF Recency
<1>4. Holds = [k \in Keys |-> NULL]
  BY DEF Init, Holds, Exist
<1> QED
  BY <1>3, <1>4 DEF LRU!LRUInit, Recency, Holds

\* Each call is the call of the same name of LRUCache.
LEMMA StepIsLRUStep ==
  ASSUME CacheInv, Next
  PROVE  LRU!LRUNext
<1>1. ASSUME NEW k \in Keys, Find(k)
      PROVE  LRU!Find(k)
  BY <1>1, FindIsFind DEF LRU!Find, Recency, Holds
<1>2. ASSUME NEW k \in Keys, Erase(k)
      PROVE  LRU!Erase(k)
  BY <1>2, EraseIsErase DEF LRU!Erase, Recency, Holds
<1>3. ASSUME NEW k \in Keys, NEW r \in Responses, Put(k, r)
      PROVE  r \notin {Holds[x] : x \in Keys} /\ LRU!Put(k, r)
  <2>1. r \in Responses \ live
    BY <1>3 DEF Put
  <2>2. CASE PutCached(k, r)
    <3>1. LRU!Replace(k, r)
      BY <2>1, <2>2, PutCachedIsReplace DEF LRU!Replace, Recency, Holds
    <3> QED
      BY <2>1, <3>1, NewResponse DEF LRU!Put
  <2>3. CASE PutNew(k, r)
    <3>1. PICK a \in Nodes : PutRoom(k, r, a) \/ \E rm : PutFull(k, r, a, rm)
      BY <2>3, PutNewCases
    <3>2. CASE PutRoom(k, r, a)
      <4>1. LRU!Insert(k, r)
        BY <2>1, <3>2, PutRoomIsInsert DEF LRU!Insert, Recency, Holds
      <4> QED
        BY <2>1, <4>1, NewResponse DEF LRU!Put
    <3>3. CASE \E rm : PutFull(k, r, a, rm)
      <4>1. LRU!Evict(k, r)
        BY <2>1, <3>3, PutFullIsEvict DEF LRU!Evict, Recency, Holds
      <4> QED
        BY <2>1, <4>1, NewResponse DEF LRU!Put
    <3> QED
      BY <3>1, <3>2, <3>3
  <2> QED
    BY <1>3, <2>2, <2>3 DEF Put
<1> QED
  BY <1>1, <1>2, <1>3 DEF Next, LRU!LRUNext, Holds

\* A step of nothing in the code is a step of nothing in the abstract map.
LEMMA StutterIsLRUStutter ==
  ASSUME UNCHANGED vars
  PROVE  UNCHANGED LRU!lruVars
<1>1. Recency' = Recency /\ Holds' = Holds
  BY DEF vars, Recency, Holds, Size, Linked, At, Exist
<1> QED
  BY <1>1 DEF LRU!lruVars, Recency, Holds

(***************************************************************************)
(* Class Cache implements the LRU map, for every set of keys, addresses    *)
(* and responses and every capacity: each call of cache.cpp, with all its  *)
(* pointer assignments, is one step of LRUCache on the list read from head *)
(* to tail, and put evicts what was used longest ago.                      *)
(***************************************************************************)
THEOREM CacheImplementsLRU == Spec => ImplementsLRU
<1>1. Init => LRU!LRUInit
  BY StartsEmpty
<1>2. CacheInv /\ [Next]_vars => [LRU!LRUNext]_(LRU!lruVars)
  BY StepIsLRUStep, StutterIsLRUStutter
<1> QED
  BY <1>1, <1>2, CacheInvariant, PTL DEF Spec, ImplementsLRU, LRU!LRUSpec

-------------------------------------------------------------------------------
(* What the history of MCCache says of the order: which keys were used     *)
(* since each key's last use.                                              *)

\* Every key of s was used after the last use of the keys behind it.
Ordered(s, h) == \A i, j \in 1 .. Len(s) : i < j => s[i] \in h[s[j]]

(***************************************************************************)
(* The inductive invariant behind RecentlyUsedIsCached: the order is that  *)
(* of the last uses, and for a key that is not cached Capacity others were *)
(* used since.                                                             *)
(***************************************************************************)
HistoryInv ==
  /\ since \in [Keys -> SUBSET Keys]
  /\ Ordered(Recency, since)
  /\ \A k \in Keys : Holds[k] = NULL => Cardinality(since[k]) >= Capacity

\* The elements of a sequence without its i-th.
LEMMA RemoveAtElements ==
  ASSUME NEW S, NEW s \in Seq(S), NEW i \in 1 .. Len(s)
  PROVE  /\ LRU!RemoveAt(s, i) \in Seq(S) /\ Len(LRU!RemoveAt(s, i)) = Len(s) - 1
         /\ \A j \in 1 .. Len(s) - 1 :
              LRU!RemoveAt(s, i)[j] = IF j < i THEN s[j] ELSE s[j + 1]
<1> DEFINE n == Len(s)
           t == [j \in 1 .. n - 1 |-> IF j < i THEN s[j] ELSE s[j + 1]]
<1>1. n \in Nat /\ n - 1 \in Nat /\ \A j \in 1 .. n : s[j] \in S
  BY ElementOfSeq
<1>2. \A j \in 1 .. n - 1 : j \in 1 .. n /\ j + 1 \in 1 .. n
  BY <1>1
<1>3. \A j \in 1 .. n - 1 : t[j] \in S
  BY <1>1, <1>2
<1>4. /\ Len(t) = n - 1
      /\ \A j \in 1 .. n - 1 : t[j] = IF j < i THEN s[j] ELSE s[j + 1]
  BY <1>1
<1>5. t \in Seq(S)
  BY <1>1, <1>3, IsASeq
<1> HIDE DEF t
<1>6. t = LRU!RemoveAt(s, i)
  BY <1>4, <1>5, RemoveAtIs
<1> QED
  BY <1>4, <1>5, <1>6

\* The elements of a sequence without its last.
LEMMA FrontElements ==
  ASSUME NEW S, NEW s \in Seq(S), s # <<>>
  PROVE  /\ LRU!Front(s) \in Seq(S) /\ Len(LRU!Front(s)) = Len(s) - 1
         /\ \A j \in 1 .. Len(s) - 1 : LRU!Front(s)[j] = s[j]
         /\ LRU!Last(s) = s[Len(s)]
<1> DEFINE n == Len(s)
           t == [j \in 1 .. n - 1 |-> s[j]]
<1>1. n \in Nat /\ n # 0 /\ \A j \in 1 .. n : s[j] \in S
  BY ElementOfSeq, EmptySeq
<1>2. n - 1 \in Nat /\ \A j \in 1 .. n - 1 : j \in 1 .. n
  BY <1>1
<1>3. Len(t) = n - 1 /\ \A j \in 1 .. n - 1 : t[j] = s[j]
  BY <1>2
<1>4. t \in Seq(S)
  BY <1>1, <1>2, IsASeq
<1> HIDE DEF t
<1>5. t = LRU!Front(s) /\ LRU!Last(s) = s[Len(s)]
  BY <1>3, <1>4, FrontIs
<1> QED
  BY <1>3, <1>4, <1>5

\* The order is kept when a key leaves it, from wherever, and when one comes to its front.
LEMMA OrderedWithout ==
  ASSUME NEW s \in Seq(Keys), NEW h, Ordered(s, h), NEW i \in 1 .. Len(s)
  PROVE  Ordered(LRU!RemoveAt(s, i), h)
<1> DEFINE t == LRU!RemoveAt(s, i)
           n == Len(s)
<1>1. /\ n \in Nat /\ Len(t) = n - 1
      /\ \A j \in 1 .. n - 1 : t[j] = IF j < i THEN s[j] ELSE s[j + 1]
  BY RemoveAtElements
<1> HIDE DEF t
<1>2. ASSUME NEW x \in 1 .. n - 1, NEW y \in 1 .. n - 1, x < y
      PROVE  t[x] \in h[t[y]]
  <2>1. PICK v \in 1 .. n : t[x] = s[v] /\ v = IF x < i THEN x ELSE x + 1
    BY <1>1
  <2>2. PICK w \in 1 .. n : t[y] = s[w] /\ w = IF y < i THEN y ELSE y + 1
    BY <1>1
  <2>3. v < w
    BY <1>1, <1>2, <2>1, <2>2
  <2> QED
    BY <2>1, <2>2, <2>3 DEF Ordered
<1> QED
  BY <1>1, <1>2 DEF Ordered, t

\* The order is kept when its last key leaves it.
LEMMA OrderedFront ==
  ASSUME NEW s \in Seq(Keys), s # <<>>, NEW h, Ordered(s, h)
  PROVE  Ordered(LRU!Front(s), h)
<1> DEFINE t == LRU!Front(s)
           n == Len(s)
<1>1. /\ n \in Nat /\ Len(t) = n - 1 /\ \A j \in 1 .. n - 1 : t[j] = s[j]
  BY FrontElements
<1>2. \A j \in 1 .. n - 1 : j \in 1 .. n
  BY <1>1
<1> HIDE DEF t
<1> QED
  BY <1>1, <1>2 DEF Ordered, t

\* The order is kept when a key that is used comes to its front.
LEMMA OrderedUse ==
  ASSUME NEW s \in Seq(Keys), NEW h \in [Keys -> SUBSET Keys], Ordered(s, h), NEW k \in Keys,
         NEW g, g = [x \in Keys |-> IF x = k THEN {} ELSE h[x] \cup {k}],
         \A i \in 1 .. Len(s) : s[i] # k
  PROVE  Ordered(<<k>> \o s, g)
<1> DEFINE t == <<k>> \o s
           n == Len(s)
<1>1. <<k>> \in Seq(Keys) /\ Len(<<k>>) = 1 /\ <<k>>[1] = k /\ n \in Nat
  OBVIOUS
<1>2. /\ Len(t) = 1 + n
      /\ \A i \in 1 .. 1 + n : t[i] = IF i <= 1 THEN <<k>>[i] ELSE s[i - 1]
  BY <1>1, ConcatProperties
<1>3. \A i \in 1 .. n : s[i] \in Keys /\ s[i] # k
  BY ElementOfSeq
<1> HIDE DEF t
<1>4. ASSUME NEW i \in 1 .. 1 + n, NEW j \in 1 .. 1 + n, i < j
      PROVE  t[i] \in g[t[j]]
  <2>1. ~(j <= 1) /\ j - 1 \in 1 .. n /\ (i = 1 \/ (~(i <= 1) /\ i - 1 \in 1 .. n /\ i - 1 < j - 1))
    BY <1>1, <1>4
  <2>2. t[j] = s[j - 1] /\ t[j] \in Keys /\ t[j] # k /\ g[t[j]] = h[t[j]] \cup {k}
    BY <1>2, <1>3, <2>1
  <2>3. CASE i = 1
    BY <1>1, <1>2, <2>2, <2>3
  <2>4. CASE ~(i <= 1) /\ i - 1 \in 1 .. n /\ i - 1 < j - 1
    <3>1. t[i] = s[i - 1] /\ s[i - 1] \in h[s[j - 1]]
      BY <1>2, <2>1, <2>4 DEF Ordered
    <3> QED
      BY <2>2, <3>1
  <2> QED
    BY <2>1, <2>3, <2>4
<1> QED
  BY <1>2, <1>4 DEF Ordered, t

\* What CacheInv says of the order.
LEMMA RecencyFacts ==
  ASSUME CacheInv
  PROVE  /\ Recency \in Seq(Keys) /\ Len(Recency) \in Nat
         /\ \A i, j \in 1 .. Len(Recency) : Recency[i] = Recency[j] => i = j
         /\ \A i \in 1 .. Len(Recency) : Recency[i] \in Keys /\ Exist(Recency[i])
         /\ \A k \in Keys : Exist(k) => /\ LRU!Position(k) \in 1 .. Len(Recency)
                                        /\ Recency[LRU!Position(k)] = k
<1>1. PICK n, p : n \in Nat /\ Reads(links, p, n, Linked)
  BY ListTypeOK
<1>2. /\ Recency \in Seq(Keys) /\ Len(Recency) = n
      /\ \A i \in 1 .. n : Recency[i] = key[p[i]] /\ p[i] \in Linked
      /\ \A i, j \in 1 .. n : Recency[i] = Recency[j] => i = j
  BY <1>1, RecencyType
<1>3. \A a \in Linked : key[a] \in Keys /\ Exist(key[a])
  BY AddressAssumption DEF CacheInv, TypeOK, MapMatchesNodes, Linked, Exist
<1>4. ASSUME NEW k \in Keys, Exist(k)
      PROVE  /\ LRU!Position(k) \in 1 .. Len(Recency)
             /\ Recency[LRU!Position(k)] = k
  <2>1. cache_[k] \in Linked /\ key[cache_[k]] = k
    BY <1>4, CachedNode
  <2>2. PICK j \in 1 .. n : p[j] = cache_[k]
    BY <1>1, <2>1 DEF Reads
  <2>3. LRU!Position(key[p[j]]) = j /\ j \in 1 .. Len(Recency)
    BY <1>1, PositionIs
  <2> QED
    BY <1>2, <2>1, <2>2, <2>3
<1> QED
  BY <1>1, <1>2, <1>3, <1>4

\* A use makes no set of the history smaller but that of the key used.
LEMMA UseCounts ==
  ASSUME NEW h \in [Keys -> SUBSET Keys], NEW k \in Keys, NEW g,
         g = [x \in Keys |-> IF x = k THEN {} ELSE h[x] \cup {k}],
         NEW x \in Keys, x # k, Cardinality(h[x]) >= Capacity
  PROVE  Cardinality(g[x]) >= Capacity
<1>1. g[x] = h[x] \cup {k} /\ g[x] \in SUBSET Keys /\ h[x] \subseteq g[x]
  OBVIOUS
<1>2. IsFiniteSet(g[x])
  BY <1>1, HistoryAssumption, FS_Subset
<1>3. Cardinality(h[x]) <= Cardinality(g[x]) /\ IsFiniteSet(h[x])
  BY <1>1, <1>2, FS_Subset
<1>4. Cardinality(h[x]) \in Nat /\ Cardinality(g[x]) \in Nat /\ Capacity \in Nat
  BY <1>2, <1>3, FS_CardinalityType, CapacityAssumption
<1> QED
  BY <1>3, <1>4

\* The key that put drops: all the others were used since its last use, and the
\* new one now.
LEMMA EvictedCounts ==
  ASSUME NEW s \in Seq(Keys), NEW h \in [Keys -> SUBSET Keys], Ordered(s, h), s # <<>>,
         \A i, j \in 1 .. Len(s) : s[i] = s[j] => i = j, Len(s) >= Capacity,
         NEW k \in Keys, \A i \in 1 .. Len(s) : s[i] # k,
         NEW g, g = [x \in Keys |-> IF x = k THEN {} ELSE h[x] \cup {k}]
  PROVE  Cardinality(g[s[Len(s)]]) >= Capacity
<1> DEFINE n == Len(s)
           z == s[n]
           f == [i \in 1 .. n - 1 |-> s[i]]
           D == {s[i] : i \in 1 .. n - 1}
<1>1. n \in Nat /\ n # 0 /\ n - 1 \in Nat /\ n \in 1 .. n /\ (n - 1) + 1 = n
  BY EmptySeq
<1>2. \A i \in 1 .. n - 1 : i \in 1 .. n /\ i < n
  BY <1>1
<1>3. \A i \in 1 .. n : s[i] \in Keys
  BY ElementOfSeq
<1>4. z \in Keys /\ z # k /\ g[z] = h[z] \cup {k} /\ g[z] \in SUBSET Keys
  BY <1>1, <1>3
<1>5. D \subseteq h[z] /\ k \notin D
  BY <1>1, <1>2 DEF Ordered
<1>6. f \in Bijection(1 .. n - 1, D)
  BY <1>2 DEF Bijection, Injection, Surjection, IsInjective
<1>7. IsFiniteSet(D) /\ Cardinality(D) = n - 1
  <2>1. ExistsBijection(1 .. n - 1, D)
    BY <1>6 DEF ExistsBijection
  <2>2. IsFiniteSet(1 .. n - 1) /\ Cardinality(1 .. n - 1) = n - 1
    BY <1>1, FS_Interval
  <2> HIDE DEF D
  <2> QED
    BY <2>1, <2>2, FS_Bijection
<1> HIDE DEF D, z
<1>8. IsFiniteSet(D \cup {k}) /\ Cardinality(D \cup {k}) = n
  BY <1>1, <1>5, <1>7, FS_AddElement
<1>9. IsFiniteSet(g[z])
  BY <1>4, HistoryAssumption, FS_Subset
<1>10. Cardinality(D \cup {k}) <= Cardinality(g[z])
  BY <1>4, <1>5, <1>9, FS_Subset
<1>11. Cardinality(g[z]) \in Nat /\ Capacity \in Nat
  BY <1>9, FS_CardinalityType, CapacityAssumption
<1>12. Cardinality(g[z]) >= Capacity
  BY <1>1, <1>8, <1>10, <1>11
<1> QED
  BY <1>12 DEF z

\* A call that uses k, whatever else leaves the order with it.
LEMMA UseKeeps ==
  ASSUME HistoryInv, NEW k \in Keys, Used(k), NEW s \in Seq(Keys), Ordered(s, since),
         \A i \in 1 .. Len(s) : s[i] # k, Recency' = <<k>> \o s,
         Holds'[k] # NULL,
         \A x \in Keys : x # k /\ Holds'[x] = NULL =>
           Holds[x] = NULL \/ Cardinality(since'[x]) >= Capacity
  PROVE  HistoryInv'
<1> DEFINE h == since
           g == since'
<1>1. /\ h \in [Keys -> SUBSET Keys]
      /\ g = [x \in Keys |-> IF x = k THEN {} ELSE h[x] \cup {k}]
  BY DEF HistoryInv, Used
<1>2. g \in [Keys -> SUBSET Keys]
  BY <1>1
<1>3. \A x \in Keys : Holds[x] = NULL => Cardinality(h[x]) >= Capacity
  BY DEF HistoryInv
<1> HIDE DEF h, g
<1>4. Ordered(Recency', g)
  BY <1>1, OrderedUse DEF h
<1>5. \A x \in Keys : Holds'[x] = NULL => Cardinality(g[x]) >= Capacity
  BY <1>1, <1>3, UseCounts DEF g
<1> QED
  BY <1>2, <1>4, <1>5 DEF HistoryInv, g, Ordered

\* What moveToHead leaves behind the key it moves.
LEMMA MovedOrder ==
  ASSUME CacheInv, HistoryInv, NEW k \in Keys, Exist(k)
  PROVE  \E s \in Seq(Keys) : /\ LRU!MovedToFront(k) = <<k>> \o s /\ Ordered(s, since)
                              /\ \A i \in 1 .. Len(s) : s[i] # k
                              /\ s = LRU!RemoveAt(Recency, LRU!Position(k))
<1> DEFINE s == LRU!RemoveAt(Recency, LRU!Position(k))
           i == LRU!Position(k)
           R == Recency
           n == Len(R)
<1>1. /\ R \in Seq(Keys) /\ n \in Nat /\ i \in 1 .. n /\ R[i] = k
      /\ \A x, y \in 1 .. n : R[x] = R[y] => x = y
  BY RecencyFacts
<1>2. LRU!MovedToFront(k) = <<k>> \o s
  BY DEF LRU!MovedToFront, Recency
<1>3. Ordered(R, since)
  BY DEF HistoryInv
<1>4. s = LRU!RemoveAt(R, i)
  OBVIOUS
<1> HIDE DEF R, i, s
<1>5. /\ s \in Seq(Keys) /\ Len(s) = n - 1
      /\ \A j \in 1 .. n - 1 : s[j] = IF j < i THEN R[j] ELSE R[j + 1]
  BY <1>1, <1>4, RemoveAtElements
<1>6. Ordered(s, since)
  BY <1>1, <1>3, <1>4, OrderedWithout
<1>7. \A j \in 1 .. Len(s) : s[j] # k
  <2> TAKE j \in 1 .. Len(s)
  <2>1. j \in 1 .. n - 1 /\ j \in 1 .. n /\ j + 1 \in 1 .. n
    BY <1>1, <1>5
  <2>2. CASE j < i
    BY <1>1, <1>5, <2>1, <2>2
  <2>3. CASE ~(j < i)
    BY <1>1, <1>5, <2>1, <2>3
  <2> QED
    BY <2>2, <2>3
<1> QED
  BY <1>2, <1>5, <1>6, <1>7 DEF s

\* A find is a use when it hits and nothing when it misses.
LEMMA MCFindKeeps ==
  ASSUME CacheInv, HistoryInv, NEW k \in Keys, MCFind(k)
  PROVE  HistoryInv'
<1>1. Find(k) /\ Holds' = Holds
  BY FindIsFind DEF MCFind
<1>2. CASE Exist(k)
  <2>1. Used(k) /\ Recency' = LRU!MovedToFront(k)
    BY <1>1, <1>2, FindIsFind, HoldsIs DEF MCFind
  <2>2. PICK s \in Seq(Keys) : /\ LRU!MovedToFront(k) = <<k>> \o s /\ Ordered(s, since)
                               /\ \A i \in 1 .. Len(s) : s[i] # k
    BY <1>2, MovedOrder
  <2>3. Holds[k] # NULL
    BY <1>2, HoldsIs DEF LRU!Cached, Holds
  <2> QED
    BY <1>1, <2>1, <2>2, <2>3, UseKeeps
<1>3. CASE ~Exist(k)
  <2>1. since' = since /\ Recency' = Recency
    BY <1>1, <1>3, FindIsFind, HoldsIs DEF MCFind
  <2> QED
    BY <1>1, <2>1 DEF HistoryInv, Ordered
<1> QED
  BY <1>2, <1>3

\* A put is a use, and the key it drops has seen Capacity others.
LEMMA MCPutKeeps ==
  ASSUME CacheInv, HistoryInv, NEW k \in Keys, MCPut(k)
  PROVE  HistoryInv'
<1>1. PICK r \in Responses \ live : (PutNew(k, r) \/ PutCached(k, r)) /\ Used(k)
  BY DEF MCPut, Put
<1>2. Holds \in [Keys -> live \cup {NULL}] /\ r # NULL
  <2>1. Holds \in [Keys -> live \cup {NULL}]
    BY HoldsIs DEF Holds
  <2> QED
    BY <2>1, AddressAssumption
<1>3. CASE PutCached(k, r)
  <2>1. /\ Recency' = LRU!MovedToFront(k) /\ Holds' = [Holds EXCEPT ![k] = r] /\ Exist(k)
    BY <1>3, PutCachedIsReplace DEF PutCached
  <2>2. PICK s \in Seq(Keys) : /\ LRU!MovedToFront(k) = <<k>> \o s /\ Ordered(s, since)
                               /\ \A i \in 1 .. Len(s) : s[i] # k
    BY <2>1, MovedOrder
  <2>3. Holds'[k] # NULL /\ \A x \in Keys : x # k => Holds'[x] = Holds[x]
    BY <1>2, <2>1
  <2> QED
    BY <1>1, <2>1, <2>2, <2>3, UseKeeps
<1>4. CASE PutNew(k, r)
  <2> DEFINE s == Recency
             z == LRU!Last(s)
  <2>1. /\ s \in Seq(Keys) /\ Len(s) \in Nat
        /\ \A i, j \in 1 .. Len(s) : s[i] = s[j] => i = j
        /\ \A i \in 1 .. Len(s) : s[i] \in Keys /\ Exist(s[i])
        /\ Ordered(s, since)
    BY RecencyFacts DEF HistoryInv
  <2>2. ~Exist(k)
    BY <1>4 DEF PutNew
  <2>3. \A i \in 1 .. Len(s) : s[i] # k
    BY <2>1, <2>2
  <2>4. PICK a \in Nodes : PutRoom(k, r, a) \/ \E rm : PutFull(k, r, a, rm)
    BY <1>4, PutNewCases
  <2>5. CASE PutRoom(k, r, a)
    <3>1. Recency' = <<k>> \o s /\ Holds' = [Holds EXCEPT ![k] = r]
      BY <2>5, PutRoomIsInsert
    <3>2. Holds'[k] # NULL /\ \A x \in Keys : x # k => Holds'[x] = Holds[x]
      BY <1>2, <3>1
    <3> QED
      BY <1>1, <2>1, <2>3, <3>1, <3>2, UseKeeps
  <2>6. CASE \E rm : PutFull(k, r, a, rm)
    <3>1. /\ Len(s) >= Capacity /\ Recency' = <<k>> \o LRU!Front(s)
          /\ Holds' = [Holds EXCEPT ![k] = r, ![z] = NULL]
      BY <2>6, PutFullIsEvict
    <3> HIDE DEF s
    <3>2. s # <<>> /\ Len(s) \in 1 .. Len(s)
      BY <2>1, <3>1, CapacityAssumption
    <3>3. /\ LRU!Front(s) \in Seq(Keys) /\ Len(LRU!Front(s)) = Len(s) - 1
          /\ \A j \in 1 .. Len(s) - 1 : LRU!Front(s)[j] = s[j]
          /\ z = s[Len(s)]
      BY <2>1, <3>2, FrontElements
    <3>4. Ordered(LRU!Front(s), since)
      BY <2>1, <3>2, OrderedFront
    <3>5. \A i \in 1 .. Len(LRU!Front(s)) : LRU!Front(s)[i] # k
      <4>1. \A i \in 1 .. Len(s) - 1 : i \in 1 .. Len(s)
        BY <2>1
      <4> QED
        BY <2>3, <3>3, <4>1
    <3>6. Cardinality(since'[z]) >= Capacity
      <4>1. /\ since \in [Keys -> SUBSET Keys]
            /\ since' = [x \in Keys |-> IF x = k THEN {} ELSE since[x] \cup {k}]
        BY <1>1 DEF HistoryInv, Used
      <4> QED
        BY <2>1, <2>3, <3>1, <3>2, <3>3, <4>1, EvictedCounts
    <3> HIDE DEF z
    <3>7. z # k
      BY <2>3, <3>2, <3>3
    <3>8. Holds'[k] # NULL /\ \A x \in Keys : x # k /\ x # z => Holds'[x] = Holds[x]
      BY <1>2, <3>1, <3>7
    <3>9. \A x \in Keys : x # k /\ Holds'[x] = NULL =>
            Holds[x] = NULL \/ Cardinality(since'[x]) >= Capacity
      BY <3>6, <3>8
    <3> QED
      BY <1>1, <3>1, <3>3, <3>4, <3>5, <3>8, <3>9, UseKeeps
  <2> QED
    BY <2>4, <2>5, <2>6
<1> QED
  BY <1>1, <1>3, <1>4

\* An erased key has no last use any more, and the others keep theirs.
LEMMA MCEraseKeeps ==
  ASSUME CacheInv, HistoryInv, NEW k \in Keys, MCErase(k)
  PROVE  HistoryInv'
<1>1. Erase(k) /\ since' = [since EXCEPT ![k] = Keys] /\ Holds' = [Holds EXCEPT ![k] = NULL]
  BY EraseIsErase DEF MCErase
<1>2. Recency \in Seq(Keys) /\ Ordered(Recency, since) /\ since \in [Keys -> SUBSET Keys]
  BY RecencyFacts DEF HistoryInv
<1>3. PICK s \in Seq(Keys) : Recency' = s /\ Ordered(s, since)
  <2>1. CASE Exist(k)
    BY <1>1, <2>1, EraseIsErase, MovedOrder, HoldsIs
  <2>2. CASE ~Exist(k)
    BY <1>1, <1>2, <2>2, EraseIsErase, HoldsIs
  <2> QED
    BY <2>1, <2>2
<1>4. \A x \in Keys : since[x] \subseteq since'[x]
  BY <1>1, <1>2
<1>5. Ordered(Recency', since')
  BY <1>3, <1>4, ElementOfSeq DEF Ordered
<1>6. Cardinality(since'[k]) >= Capacity
  <2>1. since'[k] = Keys /\ Cardinality(Keys) \in Nat /\ Capacity \in Nat
    BY <1>1, <1>2, HistoryAssumption, FS_CardinalityType, CapacityAssumption
  <2> QED
    BY <2>1, HistoryAssumption
<1>7. \A x \in Keys : x # k => Holds'[x] = Holds[x] /\ since'[x] = since[x]
  BY <1>1, <1>2 DEF Holds
<1>8. since' \in [Keys -> SUBSET Keys]
  BY <1>1, <1>2
<1> QED
  BY <1>5, <1>6, <1>7, <1>8 DEF HistoryInv, Ordered

(***************************************************************************)
(* With the history beside the calls both invariants hold: the list is in  *)
(* the order of last uses, and a key leaves it, but for an erase, only     *)
(* when Capacity others were used since.                                   *)
(***************************************************************************)
THEOREM HistoryInvariant == MCSpec => [](CacheInv /\ HistoryInv)
<1>1. MCInit => CacheInv /\ HistoryInv
  <2> SUFFICES ASSUME MCInit
               PROVE  CacheInv /\ HistoryInv
    OBVIOUS
  <2>1. CacheInv /\ since = [k \in Keys |-> Keys]
    BY InitEstablishes DEF MCInit
  <2>2. Recency = <<>>
    BY StartsEmpty DEF MCInit, LRU!LRUInit, Recency
  <2>3. \A k \in Keys : Cardinality(since[k]) >= Capacity
    <3>1. Cardinality(Keys) \in Nat /\ Capacity \in Nat
      BY HistoryAssumption, FS_CardinalityType, CapacityAssumption
    <3> QED
      BY <2>1, <3>1, HistoryAssumption
  <2>4. Ordered(Recency, since)
    BY <2>2 DEF Ordered
  <2> QED
    BY <2>1, <2>3, <2>4 DEF HistoryInv
<1>2. CacheInv /\ HistoryInv /\ [MCNext]_mcVars => (CacheInv /\ HistoryInv)'
  <2> SUFFICES ASSUME CacheInv, HistoryInv, [MCNext]_mcVars
               PROVE  CacheInv' /\ HistoryInv'
    OBVIOUS
  <2>1. CASE MCNext
    <3>1. Next
      BY <2>1 DEF MCNext, Next, MCFind, MCPut, MCErase
    <3> QED
      BY <2>1, <3>1, StepKeeps, MCFindKeeps, MCPutKeeps, MCEraseKeeps DEF MCNext
  <2>2. CASE UNCHANGED mcVars
    <3>1. UNCHANGED vars /\ since' = since
      BY <2>2 DEF mcVars
    <3>2. Recency' = Recency /\ Holds' = Holds
      BY <3>1 DEF vars, Recency, Holds, Size, Linked, At, Exist
    <3> QED
      BY <3>1, <3>2, StutterKeeps DEF HistoryInv, Ordered
  <2> QED
    BY <2>1, <2>2
<1> QED
  BY <1>1, <1>2, PTL DEF MCSpec

(***************************************************************************)
(* A request line that fewer than capacity others were used after is still *)
(* in the cache, for every capacity and every sequence of calls.           *)
(***************************************************************************)
THEOREM RecentlyUsedStays == MCSpec => []RecentlyUsedIsCached
<1>1. CacheInv /\ HistoryInv => RecentlyUsedIsCached
  <2> SUFFICES ASSUME CacheInv, HistoryInv, NEW k \in Keys, ~Exist(k)
               PROVE  ~(Cardinality(since[k]) < Capacity)
    BY DEF RecentlyUsedIsCached
  <2>1. Cardinality(since[k]) >= Capacity
    BY HoldsIs DEF HistoryInv
  <2>2. Cardinality(since[k]) \in Nat /\ Capacity \in Nat
    <3>1. IsFiniteSet(since[k])
      BY HistoryAssumption, FS_Subset DEF HistoryInv
    <3> QED
      BY <3>1, FS_CardinalityType, CapacityAssumption
  <2> QED
    BY <2>1, <2>2
<1> QED
  BY <1>1, HistoryInvariant, PTL

=================================================================================
