------------------------------ MODULE Proxy_proofs ------------------------------
(***************************************************************************)
(* What Proxy::run and Proxy::handleRequest keep true, for every set of    *)
(* connections, every mixture of requests and every limit on descriptors:  *)
(* ids follow the order of acceptance, the race on sockets loses only what *)
(* is in it, and the process ends for a cause.                             *)
(***************************************************************************)
EXTENDS Proxy, SequenceTheorems, TLAPS

\* The loop has accepted a connection and not started its thread.
Entering == loop \in {"push", "spawn"}

(***************************************************************************)
(* A connection waits in the backlog, or is the last accepted and enters;  *)
(* it is in one of the two sequences and once.  id counts those that have  *)
(* entered.                                                                *)
(***************************************************************************)
Queue ==
  /\ IsInjective(accepted) /\ IsInjective(backlog)
  /\ \A i \in DOMAIN accepted, j \in DOMAIN backlog : accepted[i] # backlog[j]
  /\ \A j \in DOMAIN backlog : pc[backlog[j]] = "waiting"
  /\ \A i \in DOMAIN accepted :
       /\ pc[accepted[i]] # "away"
       /\ pc[accepted[i]] = "waiting" =>
            /\ Entering \/ loop = "failed"
            /\ i = Len(accepted)
  /\ Entering => accepted # <<>> /\ pc[Last(accepted)] = "waiting"
  /\ Len(accepted) = IF Entering THEN id + 1 ELSE id

\* A thread has a place in sockets while it is within push_back.
Slots ==
  /\ slot[Loop] # NoSlot <=> loop \in {"push", "pushFailed"}
  /\ \A c \in Connections : slot[c] # NoSlot <=> pc[c] = "push"
  /\ \A t \in Threads : slot[t] # NoSlot => slot[t] \in Nat

\* How far a handler is tells what it knows.
Handlers ==
  /\ loop = "start" => ~listening /\ \A c \in Connections : pc[c] = "away"
  /\ loop = "pushFailed" => refused
  /\ \A c \in Connections :
       /\ pc[c] = "badRequest" => kind[c].parse \in {"parser", "request"}
       /\ server[c] # NoFd => pc[c] \in {"push", "dispatch", "serving", "done"}
       /\ pc[c] \in {"push", "dispatch"} => server[c] # NoFd

\* No two variables hold the same descriptor, and none has been opened later
\* than the latest.
Numbers ==
  /\ \A c, d \in Connections :
       /\ browser[c] \in Nat /\ browser[c] = browser[d] => c = d
       /\ server[c] \in Nat /\ server[c] = server[d] => c = d
       /\ browser[c] \in Nat => browser[c] # server[d]
       /\ browser[c] <= opened /\ server[c] <= opened
  /\ Entering => browser[Last(accepted)] \in Nat

\* Of two threads within push_back both are noted.
Meetings == \A t, u \in Appending : t # u => Pushing(t) \in raced

\* The descriptors whose push_back has returned.
Settled ==
  Registered \cup (IF loop = "spawn" THEN {browser[Last(accepted)]} ELSE {})

\* Nobody within push_back will write at the place of a descriptor that was in
\* no race, or before it.
Kept ==
  \A n \in Settled \ raced :
    \E i \in DOMAIN sockets :
      sockets[i] = n /\ \A t \in Appending : i <= slot[t]

\* What is being appended is not there yet.
Fresh ==
  \A i \in DOMAIN sockets :
    /\ sockets[i] <= opened
    /\ sockets[i] # Failed => \A t \in Appending : Pushing(t) # sockets[i]

\* No descriptor is in the vector twice.
Unrepeated ==
  \A i, j \in DOMAIN sockets : sockets[i] = sockets[j] /\ sockets[i] # Failed => i = j

ProxyInv ==
  /\ TypeOK /\ Queue /\ IdsFollowAcceptance /\ Slots /\ Handlers /\ Numbers
  /\ Meetings /\ Kept /\ Fresh /\ Unrepeated /\ EndOfProcessHasCause
-------------------------------------------------------------------------------
\* Min of two numbers is the smaller.
LEMMA MinOfTwo ==
  ASSUME NEW m \in Nat, NEW n \in Nat
  PROVE  Min({m, n}) = IF m <= n THEN m ELSE n
<1>1. CASE m <= n
  BY <1>1 DEF Min
<1>2. CASE ~(m <= n)
  BY <1>2 DEF Min
<1> QED
  BY <1>1, <1>2

\* What a sequence holds after an Append, and when it still holds each thing once.
LEMMA AppendHolds ==
  ASSUME NEW S, NEW s \in Seq(S), NEW e \in S
  PROVE  /\ ToSet(Append(s, e)) = ToSet(s) \cup {e}
         /\ IsInjective(s) /\ e \notin ToSet(s) => IsInjective(Append(s, e))
<1>1. /\ DOMAIN Append(s, e) = 1 .. Len(s) + 1 /\ DOMAIN s = 1 .. Len(s) /\ Len(s) \in Nat
      /\ \A i \in 1 .. Len(s) : Append(s, e)[i] = s[i]
      /\ Append(s, e)[Len(s) + 1] = e
  OBVIOUS
<1> DEFINE n == Len(s)
           r == Append(s, e)
<1> HIDE DEF n, r
<1>2. /\ DOMAIN r = 1 .. n + 1 /\ DOMAIN s = 1 .. n /\ n \in Nat
      /\ \A i \in 1 .. n : r[i] = s[i]
      /\ r[n + 1] = e
      /\ 1 .. n + 1 = (1 .. n) \cup {n + 1}
  BY <1>1 DEF n, r
<1>3. ToSet(r) = ToSet(s) \cup {e}
  BY <1>2 DEF ToSet
<1>4. ASSUME IsInjective(s), e \notin ToSet(s) PROVE IsInjective(r)
  BY <1>2, <1>4 DEF IsInjective, ToSet
<1> QED
  BY <1>3, <1>4 DEF r

\* What a thread within push_back is appending.
LEMMA PushingIs ==
  ASSUME TypeOK, Queue, Slots, Handlers, Numbers, NEW t \in Appending
  PROVE  /\ Pushing(t) \in {Failed} \cup 1 .. FdLimit /\ Pushing(t) <= opened
         /\ slot[t] \in Nat
         /\ \A u \in Appending : Pushing(u) = Pushing(t) /\ Pushing(t) # Failed => u = t
<1>1. /\ t \in Threads /\ slot[t] # NoSlot /\ slot[t] \in Nat
      /\ opened \in Nat /\ FdLimit \in Nat /\ Loop \notin Connections
      /\ Failed \in Int /\ Failed <= opened /\ Failed \notin Nat /\ NoFd \notin Nat
  BY FdLimitAssumption, LoopAssumption DEF Appending, Slots, TypeOK, Failed, NoFd
<1>2. ASSUME loop = "push" \/ loop = "spawn"
      PROVE  /\ Last(accepted) \in Connections /\ pc[Last(accepted)] = "waiting"
             /\ browser[Last(accepted)] \in 1 .. FdLimit
             /\ browser[Last(accepted)] <= opened
  <2>1. Last(accepted) \in Connections /\ pc[Last(accepted)] = "waiting"
    BY <1>2 DEF Queue, Entering, Last, TypeOK
  <2>2. browser[Last(accepted)] \in {NoFd} \cup 1 .. FdLimit
    BY <2>1 DEF TypeOK
  <2>3. browser[Last(accepted)] \in Nat
    BY <1>2 DEF Numbers, Entering
  <2> QED
    BY <1>1, <2>1, <2>2, <2>3 DEF Numbers
<1>3. ASSUME NEW c \in Connections, c \in Appending
      PROVE  /\ Pushing(c) = server[c] /\ server[c] \in {Failed} \cup 1 .. FdLimit
             /\ server[c] <= opened
  <2>1. pc[c] = "push"
    BY <1>3 DEF Appending, Slots
  <2>2. server[c] # NoFd /\ server[c] \in {NoFd, Failed} \cup 1 .. FdLimit
    BY <2>1 DEF Handlers, TypeOK
  <2> QED
    BY <1>1, <1>3, <2>2 DEF Pushing, Numbers
<1>4. ASSUME Loop \in Appending
      PROVE  \/ Pushing(Loop) = Failed
             \/ loop = "push" /\ Pushing(Loop) = browser[Last(accepted)]
  BY DEF Pushing
<1>5. \A u \in Appending : u = Loop \/ u \in Connections
  BY DEF Appending, Threads
<1>6. Pushing(t) \in {Failed} \cup 1 .. FdLimit /\ Pushing(t) <= opened
  BY <1>1, <1>2, <1>3, <1>4, <1>5
<1>7. ASSUME NEW u \in Appending, Pushing(u) = Pushing(t), Pushing(t) # Failed
      PROVE  u = t
  <2>1. Pushing(t) \in Nat
    BY <1>1, <1>6, <1>7
  <2>2. CASE t = Loop /\ u \in Connections
    BY <1>2, <1>3, <1>4, <1>7, <2>1, <2>2 DEF Numbers
  <2>3. CASE u = Loop /\ t \in Connections
    BY <1>2, <1>3, <1>4, <1>7, <2>1, <2>3 DEF Numbers
  <2>4. CASE u \in Connections /\ t \in Connections
    BY <1>3, <1>7, <2>1, <2>4 DEF Numbers
  <2> QED
    BY <1>5, <2>2, <2>3, <2>4
<1> QED
  BY <1>1, <1>6, <1>7

\* A push_back begins at the end, and notes whom it meets.
LEMMA PushStarts ==
  ASSUME NEW t \in Threads, NEW fd \in Descriptors, TypeOK, Queue, Slots, Handlers, Numbers,
         PushBegins(t, fd)
  PROVE  /\ slot' \in [Threads -> Int]
         /\ slot'[t] = Len(sockets) /\ \A u \in Threads \ {t} : slot'[u] = slot[u]
         /\ raced' \subseteq Descriptors /\ raced \subseteq raced'
         /\ \A u \in Appending : Pushing(u) \in raced' /\ fd \in raced'
<1>1. /\ slot' = [slot EXCEPT ![t] = Len(sockets)] /\ slot \in [Threads -> Int]
      /\ Len(sockets) \in Int
  BY DEF PushBegins, TypeOK
<1>2. \A u \in Appending : Pushing(u) \in Descriptors
  BY PushingIs, FdLimitAssumption DEF Descriptors
<1>3. raced' = IF Appending = {} THEN raced
               ELSE raced \cup {fd} \cup {Pushing(u) : u \in Appending}
  BY DEF PushBegins
<1>4. raced \subseteq Descriptors
  BY DEF TypeOK
<1> QED
  BY <1>1, <1>2, <1>3, <1>4

\* Its end writes one element and forgets what is behind it: what stands before
\* its place stays.
LEMMA PushWrites ==
  ASSUME TypeOK, Queue, Slots, Handlers, Numbers, NEW t \in Appending, PushEnds(t)
  PROVE  /\ sockets' \in Seq(Descriptors) /\ slot' \in [Threads -> Int]
         /\ slot'[t] = NoSlot /\ \A u \in Threads \ {t} : slot'[u] = slot[u]
         /\ raced' = raced
         /\ \A i \in DOMAIN sockets :
              i <= slot[t] => i \in DOMAIN sockets' /\ sockets'[i] = sockets[i]
         /\ \E m \in DOMAIN sockets' :
              /\ sockets'[m] = Pushing(t)
              /\ \A i \in DOMAIN sockets' :
                   i # m => i \in DOMAIN sockets /\ sockets'[i] = sockets[i]
<1> DEFINE n == Min({slot[t], Len(sockets)})
           v == Pushing(t)
<1>1. slot[t] \in Nat /\ v \in Descriptors /\ t \in Threads
  BY PushingIs, FdLimitAssumption DEF Descriptors, Appending
<1>2. sockets \in Seq(Descriptors) /\ Len(sockets) \in Nat /\ slot \in [Threads -> Int]
  BY DEF TypeOK
<1>3. n \in 0 .. Len(sockets) /\ n <= slot[t] /\ (n = slot[t] \/ n = Len(sockets))
  BY <1>1, <1>2, MinOfTwo
<1>4. sockets' = Append(SubSeq(sockets, 1, n), v) /\ slot' = [slot EXCEPT ![t] = NoSlot]
      /\ raced' = raced
  BY DEF PushEnds
<1> HIDE DEF n, v
<1>5. /\ SubSeq(sockets, 1, n) \in Seq(Descriptors) /\ Len(SubSeq(sockets, 1, n)) = n
      /\ \A i \in 1 .. n : SubSeq(sockets, 1, n)[i] = sockets[i]
  BY <1>2, <1>3
<1> DEFINE r == SubSeq(sockets, 1, n)
<1> HIDE DEF r
<1>6. /\ r \in Seq(Descriptors) /\ Len(r) = n /\ n \in Nat
      /\ \A i \in 1 .. n : r[i] = sockets[i]
      /\ sockets' = Append(r, v)
  BY <1>3, <1>4, <1>5 DEF r
<1>7. /\ sockets' \in Seq(Descriptors) /\ DOMAIN sockets' = 1 .. n + 1
      /\ \A i \in 1 .. n : sockets'[i] = r[i]
      /\ sockets'[n + 1] = v
  BY <1>1, <1>6
<1>8. \A i \in DOMAIN sockets :
        i <= slot[t] => i \in DOMAIN sockets' /\ sockets'[i] = sockets[i]
  BY <1>1, <1>2, <1>3, <1>6, <1>7
<1>9. /\ n + 1 \in DOMAIN sockets'
      /\ \A i \in DOMAIN sockets' :
           i # n + 1 => i \in DOMAIN sockets /\ sockets'[i] = sockets[i]
  BY <1>2, <1>3, <1>6, <1>7
<1>10. slot' \in [Threads -> Int] /\ slot'[t] = NoSlot
       /\ \A u \in Threads \ {t} : slot'[u] = slot[u]
  BY <1>1, <1>2, <1>4 DEF NoSlot
<1> QED
  BY <1>4, <1>7, <1>8, <1>9, <1>10 DEF v

\* A handler moves its own connection, past the accept loop, and leaves the rest.
LEMMA HandlerMoves ==
  ASSUME TypeOK, NEW c \in Connections, HandleRequest(c)
  PROVE  /\ running /\ UNCHANGED <<listener, kind>>
         /\ Started(c) /\ Started(c)'
         /\ pc' \in [Connections -> Locations]
         /\ \A d \in Connections \ {c} : pc'[d] = pc[d]
<1>1. pc \in [Connections -> Locations]
  BY DEF TypeOK
<1>2. CASE RecvRequest(c)
  BY <1>1, <1>2 DEF RecvRequest, At, Goto, Started, Locations
<1>3. CASE Parse(c)
  BY <1>1, <1>3 DEF Parse, At, Goto, Started, Locations
<1>4. CASE BadRequest(c)
  BY <1>1, <1>4 DEF BadRequest, At, Goto, Started, Locations
<1>5. CASE ConnectServer(c)
  BY <1>1, <1>5 DEF ConnectServer, At, Goto, Started, Locations
<1>6. CASE NoServer(c)
  BY <1>1, <1>6 DEF NoServer, At, Goto, Started, Locations
<1>7. CASE ConnectThrows(c)
  BY <1>1, <1>7 DEF ConnectThrows, At, Goto, Started, Locations
<1>8. CASE PushServer(c)
  BY <1>1, <1>8 DEF PushServer, At, Goto, Started, Locations
<1>9. CASE Dispatch(c)
  BY <1>1, <1>9 DEF Dispatch, At, Goto, Started, Locations
<1>10. CASE Serve(c)
  BY <1>1, <1>10 DEF Serve, At, Goto, Started, Locations
<1> QED
  BY <1>2, <1>3, <1>4, <1>5, <1>6, <1>7, <1>8, <1>9, <1>10 DEF HandleRequest

-------------------------------------------------------------------------------
\* Before the first connection all is empty.
LEMMA InitEstablishes ==
  ASSUME Init
  PROVE  ProxyInv
<1>1. /\ pc = [c \in Connections |-> "away"] /\ slot = [t \in Threads |-> NoSlot]
      /\ browser = [c \in Connections |-> NoFd]
      /\ server = [c \in Connections |-> NoFd] /\ ids = [c \in Connections |-> 0]
      /\ accepted = <<>> /\ backlog = <<>> /\ sockets = <<>>
      /\ DOMAIN accepted = {} /\ DOMAIN backlog = {} /\ DOMAIN sockets = {}
      /\ Len(accepted) = 0 /\ Len(sockets) = 0
      /\ loop = "start" /\ running = TRUE /\ listening = FALSE /\ raced = {} /\ id = 0
      /\ refused = FALSE /\ opened = 0
  BY DEF Init
<1>2. TypeOK
  <2>1. /\ slot \in [Threads -> Int] /\ pc \in [Connections -> Locations]
        /\ browser \in [Connections -> {NoFd} \cup 1 .. FdLimit]
        /\ server \in [Connections -> {NoFd, Failed} \cup 1 .. FdLimit]
        /\ ids \in [Connections -> Nat] /\ kind \in [Connections -> Kinds]
    BY <1>1 DEF Init, Locations, NoSlot
  <2>2. /\ backlog \in Seq(Connections) /\ accepted \in Seq(Connections)
        /\ sockets \in Seq(Descriptors)
    BY <1>1
  <2>3. id \in Nat /\ opened \in 0 .. FdLimit
    BY <1>1, FdLimitAssumption
  <2> QED
    BY <1>1, <2>1, <2>2, <2>3 DEF TypeOK
<1>3. Queue /\ IdsFollowAcceptance
  BY <1>1 DEF Queue, IsInjective, Entering, IdsFollowAcceptance
<1>4. Slots /\ Appending = {}
  BY <1>1, LoopAssumption DEF Slots, Threads, Appending
<1>5. Handlers /\ Numbers
  BY <1>1 DEF Handlers, Numbers, NoFd, Entering
<1>6. Settled = {}
  BY <1>1, LoopAssumption DEF Settled, Registered, Started, NoFd
<1>7. Meetings /\ Kept /\ Fresh /\ Unrepeated
  BY <1>1, <1>4, <1>6 DEF Meetings, Kept, Fresh, Unrepeated
<1>8. EndOfProcessHasCause
  BY <1>1 DEF EndOfProcessHasCause
<1> QED
  BY <1>2, <1>3, <1>4, <1>5, <1>7, <1>8 DEF ProxyInv

\* Every step of run and of the handlers keeps the types.
LEMMA TypeKept ==
  ASSUME ProxyInv, Next
  PROVE  TypeOK'
<1>1. TypeOK /\ Queue /\ Slots /\ Handlers /\ Numbers
  BY DEF ProxyInv
<1>2. /\ FdLimit \in Nat /\ opened \in 0 .. FdLimit /\ NoSlot \in Int
      /\ Failed \in Descriptors /\ ListenFd \in Descriptors
      /\ 1 .. FdLimit \subseteq Descriptors
      /\ Loop \in Threads /\ Connections \subseteq Threads
  BY <1>1, FdLimitAssumption DEF TypeOK, NoSlot, Descriptors, ListenFd, Threads
<1>3. CASE InitServerSide
  <2>1. PICK b \in BOOLEAN : listening' = b
    BY <1>3 DEF InitServerSide
  <2>2. sockets' \in Seq(Descriptors)
    BY <1>2, <1>3, <2>1 DEF InitServerSide
  <2> QED
    BY <1>1, <1>3, <2>1, <2>2 DEF InitServerSide, TypeOK
<1>4. CASE Accept
  <2>1. Head(backlog) \in Connections /\ Tail(backlog) \in Seq(Connections)
    BY <1>1, <1>4 DEF Accept, TypeOK
  <2>2. accepted' \in Seq(Connections)
    BY <1>1, <1>4, <2>1 DEF Accept, TypeOK
  <2>3. opened + 1 \in 1 .. FdLimit
    BY <1>2, <1>4 DEF Accept
  <2>4. opened' \in 0 .. FdLimit /\ browser' \in [Connections -> {NoFd} \cup 1 .. FdLimit]
    <3>1. opened' = opened + 1 /\ browser' = [browser EXCEPT ![Head(backlog)] = opened + 1]
      BY <1>4 DEF Accept
    <3> QED
      BY <1>1, <1>2, <2>1, <2>3, <3>1 DEF TypeOK
  <2>5. slot' \in [Threads -> Int] /\ raced' \subseteq Descriptors
    <3>1. PushBegins(Loop, opened + 1) /\ opened + 1 \in Descriptors
      BY <1>2, <1>4, <2>3 DEF Accept
    <3> QED
      BY <1>1, <1>2, <3>1, PushStarts
  <2> QED
    BY <1>1, <1>4, <2>1, <2>2, <2>4, <2>5 DEF Accept, TypeOK
<1>5. CASE AcceptFails
  <2>1. slot' \in [Threads -> Int] /\ raced' \subseteq Descriptors
    BY <1>1, <1>2, <1>5, PushStarts DEF AcceptFails
  <2> QED
    BY <1>1, <1>5, <2>1 DEF AcceptFails, TypeOK
<1>6. CASE AcceptThrows \/ Pushed
  <2>1. Loop \in Appending
    BY <1>1, <1>2, <1>6 DEF AcceptThrows, Pushed, Slots, Appending
  <2>2. PushEnds(Loop)
    BY <1>6 DEF AcceptThrows, Pushed
  <2>3. sockets' \in Seq(Descriptors) /\ slot' \in [Threads -> Int] /\ raced' = raced
    BY <1>1, <2>1, <2>2, PushWrites
  <2> QED
    BY <1>1, <1>6, <2>3 DEF AcceptThrows, Pushed, TypeOK
<1>7. CASE Spawn
  <2>1. Last(accepted) \in Connections
    BY <1>1, <1>7 DEF Spawn, TypeOK, Queue, Entering, Last
  <2>2. id' \in Nat /\ ids' \in [Connections -> Nat] /\ pc' \in [Connections -> Locations]
    BY <1>1, <1>7, <2>1 DEF Spawn, TypeOK, InfoId, Goto, Locations
  <2> QED
    BY <1>1, <1>7, <2>2 DEF Spawn, TypeOK, vector
<1>8. CASE SpawnThrows
  <2>1. running' \in BOOLEAN /\ refused' \in BOOLEAN
    BY <1>8, Zenon DEF SpawnThrows
  <2>2. id' = id + 1 /\ loop' = "failed"
    BY <1>8, Zenon DEF SpawnThrows
  <2>3. UNCHANGED <<listening, backlog, accepted, ids, browser, pc, kind, server, opened,
                    sockets, slot, raced>>
    BY <1>8, Zenon DEF SpawnThrows, vector
  <2> QED
    BY <1>1, <2>1, <2>2, <2>3 DEF TypeOK
<1>9. ASSUME NEW c \in Connections, Connect(c)
      PROVE  TypeOK'
  <2>1. backlog' \in Seq(Connections) /\ pc' \in [Connections -> Locations]
    BY <1>1, <1>9 DEF Connect, TypeOK, Goto, Locations
  <2> QED
    BY <1>1, <1>9, <2>1 DEF Connect, TypeOK, vector
<1>10. ASSUME NEW c \in Connections, HandleRequest(c)
       PROVE  TypeOK'
  <2>1. /\ UNCHANGED <<loop, listening, backlog, accepted, id, ids, browser, refused, kind>>
        /\ pc' \in [Connections -> Locations]
    BY <1>1, <1>10, HandlerMoves DEF listener
  <2> SUFFICES /\ running' \in BOOLEAN
               /\ server' \in [Connections -> {NoFd, Failed} \cup 1 .. FdLimit]
               /\ opened' \in 0 .. FdLimit
               /\ sockets' \in Seq(Descriptors) /\ raced' \subseteq Descriptors
               /\ slot' \in [Threads -> Int]
    BY <1>1, <2>1 DEF TypeOK
  <2>2. CASE RecvRequest(c) \/ Parse(c) \/ Serve(c)
    BY <1>1, <2>2 DEF RecvRequest, Parse, Serve, TypeOK, vector
  <2>3. CASE BadRequest(c) \/ Dispatch(c)
    BY <1>1, <2>3 DEF BadRequest, Dispatch, TypeOK, vector
  <2>4. CASE ConnectServer(c)
    <3>1. opened' \in 0 .. FdLimit /\ opened + 1 \in 1 .. FdLimit
      BY <1>2, <2>4 DEF ConnectServer, Opens
    <3>2. server' \in [Connections -> {NoFd, Failed} \cup 1 .. FdLimit]
      BY <1>1, <2>4, <3>1 DEF ConnectServer, TypeOK
    <3>3. PushBegins(c, opened + 1) /\ opened + 1 \in Descriptors
      BY <1>2, <2>4, <3>1 DEF ConnectServer
    <3>4. slot' \in [Threads -> Int] /\ raced' \subseteq Descriptors
      BY <1>1, <1>2, <3>3, PushStarts
    <3> QED
      BY <1>1, <2>4, <3>1, <3>2, <3>4 DEF ConnectServer, TypeOK
  <2>5. CASE NoServer(c)
    <3>1. slot' \in [Threads -> Int] /\ raced' \subseteq Descriptors
      BY <1>1, <1>2, <2>5, PushStarts DEF NoServer
    <3> QED
      BY <1>1, <2>5, <3>1 DEF NoServer, TypeOK
  <2>6. CASE ConnectThrows(c)
    <3>1. opened' \in 0 .. FdLimit
      BY <1>2, <2>6 DEF ConnectThrows
    <3> QED
      BY <1>1, <2>6, <3>1 DEF ConnectThrows, TypeOK, vector
  <2>7. CASE PushServer(c)
    <3>1. c \in Appending /\ PushEnds(c)
      BY <1>1, <1>2, <2>7 DEF PushServer, At, Slots, Appending
    <3>2. sockets' \in Seq(Descriptors) /\ slot' \in [Threads -> Int] /\ raced' = raced
      BY <1>1, <3>1, PushWrites
    <3> QED
      BY <1>1, <2>7, <3>2 DEF PushServer, TypeOK
  <2> QED
    BY <1>10, <2>2, <2>3, <2>4, <2>5, <2>6, <2>7 DEF HandleRequest
<1>11. ASSUME NEW t \in Threads, PushCrashes(t)
       PROVE  TypeOK'
  BY <1>1, <1>11 DEF PushCrashes, TypeOK, listener, vector
<1> QED
  BY <1>3, <1>4, <1>5, <1>6, <1>7, <1>8, <1>9, <1>10, <1>11 DEF Next, Run

\* accept takes the oldest connection, and only run gives out ids.
LEMMA QueueKept ==
  ASSUME ProxyInv, Next
  PROVE  Queue' /\ IdsFollowAcceptance'
<1>1. TypeOK /\ Queue /\ IdsFollowAcceptance /\ Handlers
  BY DEF ProxyInv
<1>2. /\ accepted \in Seq(Connections) /\ backlog \in Seq(Connections)
      /\ Len(accepted) \in Nat /\ Len(backlog) \in Nat /\ id \in Nat
      /\ DOMAIN accepted = 1 .. Len(accepted) /\ DOMAIN backlog = 1 .. Len(backlog)
      /\ pc \in [Connections -> Locations] /\ ids \in [Connections -> Nat]
      /\ \A i \in DOMAIN accepted : accepted[i] \in Connections
      /\ \A j \in DOMAIN backlog : backlog[j] \in Connections
  BY <1>1 DEF TypeOK
<1>3. CASE InitServerSide
  BY <1>1, <1>3 DEF InitServerSide, Queue, IdsFollowAcceptance, Entering
<1>4. CASE Accept
  <2> DEFINE n == Len(accepted)
             a == Append(accepted, Head(backlog))
             b == Tail(backlog)
  <2>1. /\ Head(backlog) = backlog[1] /\ 1 \in DOMAIN backlog
        /\ b \in Seq(Connections) /\ DOMAIN b = 1 .. Len(backlog) - 1
        /\ \A j \in DOMAIN b : b[j] = backlog[j + 1] /\ j + 1 \in DOMAIN backlog /\ j + 1 # 1
        /\ \A j, k \in DOMAIN b : j + 1 = k + 1 => j = k
    BY <1>2, <1>4 DEF Accept
  <2>2. /\ Len(a) = n + 1 /\ DOMAIN a = (1 .. n) \cup {n + 1} /\ n + 1 \notin 1 .. n
        /\ \A i \in 1 .. n : a[i] = accepted[i]
        /\ a[n + 1] = backlog[1] /\ Last(a) = backlog[1] /\ a # <<>>
    <3>1. /\ a \in Seq(Connections) /\ Len(a) = n + 1
          /\ \A i \in 1 .. n : a[i] = accepted[i]
          /\ a[n + 1] = backlog[1] /\ n + 1 \notin 1 .. n
      <4>1. Head(backlog) \in Connections /\ n \in Nat
        BY <1>2, <2>1
      <4>2. accepted \in Seq(Connections)
        BY <1>2
      <4> HIDE DEF n
      <4>3. /\ a \in Seq(Connections) /\ Len(a) = Len(accepted) + 1
            /\ \A i \in 1 .. Len(accepted) : a[i] = accepted[i]
            /\ a[Len(accepted) + 1] = Head(backlog)
        BY ONLY <4>1, <4>2, AppendProperties
      <4> QED
        BY ONLY <2>1, <4>1, <4>3 DEF n
    <3>2. DOMAIN a = 1 .. n + 1 /\ 1 .. n + 1 = (1 .. n) \cup {n + 1} /\ a # <<>>
      <4> HIDE DEF a
      <4>1. n \in Nat /\ DOMAIN a = 1 .. Len(a)
        BY <1>2, <3>1
      <4> HIDE DEF n
      <4>2. 1 .. n + 1 = (1 .. n) \cup {n + 1}
        BY ONLY <4>1
      <4>3. a # <<>>
        BY ONLY <3>1, <4>1, EmptySeq
      <4> QED
        BY <3>1, <4>1, <4>2, <4>3
    <3>3. Last(a) = a[Len(a)]
      BY DEF Last
    <3> QED
      BY <3>1, <3>2, <3>3
  <2>3. /\ accepted' = a /\ backlog' = b /\ ~Entering /\ Entering'
        /\ UNCHANGED <<pc, id, ids>>
    BY <1>4 DEF Accept, Entering
  <2>4. \A i \in 1 .. n : /\ pc[accepted[i]] # "away" /\ pc[accepted[i]] # "waiting"
                          /\ \A j \in DOMAIN backlog : accepted[i] # backlog[j]
    BY <1>1, <1>2, <1>4, <2>3 DEF Queue, Accept
  <2>5. \A j \in DOMAIN backlog :
          /\ pc[backlog[j]] = "waiting"
          /\ \A k \in DOMAIN backlog : backlog[j] = backlog[k] => j = k
    BY <1>1 DEF Queue, IsInjective
  <2>6. n = id
    BY <1>1, <2>3 DEF Queue
  <2> HIDE DEF n, a, b
  <2>7. IsInjective(a)
    <3>1. \A i, j \in 1 .. n : accepted[i] = accepted[j] => i = j
      BY <1>1, <1>2 DEF Queue, IsInjective, n
    <3> QED
      BY <2>1, <2>2, <2>4, <3>1 DEF IsInjective
  <2>8. IsInjective(b)
    BY <2>1, <2>5 DEF IsInjective
  <2>9. \A i \in DOMAIN a, j \in DOMAIN b : a[i] # b[j]
    BY <2>1, <2>2, <2>4, <2>5
  <2>10. \A j \in DOMAIN b : pc[b[j]] = "waiting"
    BY <2>1, <2>5
  <2>11. \A i \in DOMAIN a :
           /\ pc[a[i]] # "away"
           /\ pc[a[i]] = "waiting" => i = Len(a)
    BY <2>1, <2>2, <2>4, <2>5
  <2>12. a # <<>> /\ pc[Last(a)] = "waiting"
    BY <2>1, <2>2, <2>5
  <2>13. Len(a) = id + 1
    BY <2>2, <2>6
  <2>14. Queue'
    BY <2>3, <2>7, <2>8, <2>9, <2>10, <2>11, <2>12, <2>13 DEF Queue
  <2>15. IdsFollowAcceptance'
    <3>1. \A i \in 1 .. n : ids[accepted[i]] = i
      BY <1>1, <2>4 DEF IdsFollowAcceptance, n
    <3>2. 1 .. Len(a) = (1 .. n) \cup {n + 1}
      BY <1>2, <2>2 DEF n
    <3> QED
      BY <2>1, <2>2, <2>3, <2>5, <3>1, <3>2 DEF IdsFollowAcceptance
  <2> QED
    BY <2>14, <2>15
<1>5. CASE AcceptFails \/ AcceptThrows
  BY <1>1, <1>5 DEF AcceptFails, AcceptThrows, Queue, IdsFollowAcceptance, Entering
<1>6. CASE Pushed
  BY <1>1, <1>6 DEF Pushed, Queue, IdsFollowAcceptance, Entering
<1>11. CASE SpawnThrows
  <2>1. Len(accepted) = id + 1 /\ Entering /\ ~Entering' /\ loop' = "failed"
        /\ UNCHANGED <<accepted, backlog, pc, ids>> /\ id' = id + 1
    BY <1>1, <1>11 DEF SpawnThrows, Queue, Entering
  <2> QED
    BY <1>1, <2>1 DEF Queue, IdsFollowAcceptance
<1>7. CASE Spawn
  <2> DEFINE n == Len(accepted)
             d == Last(accepted)
  <2>1. /\ n \in Nat /\ n \in DOMAIN accepted /\ d \in Connections /\ d = accepted[n]
        /\ pc[d] = "waiting" /\ Entering /\ n = id + 1
        /\ \A i \in DOMAIN accepted : accepted[i] = d => i = n
    BY <1>1, <1>2, <1>7 DEF Spawn, Queue, Entering, Last, IsInjective
  <2>2. /\ UNCHANGED <<accepted, backlog>> /\ ~Entering' /\ id' = id + 1
        /\ pc' = [pc EXCEPT ![d] = "recv"] /\ ids' = [ids EXCEPT ![d] = id + 1]
    BY <1>7 DEF Spawn, Entering, Goto, InfoId
  <2> HIDE DEF n, d
  <2>3. /\ pc'[d] = "recv" /\ ids'[d] = n
        /\ \A c \in Connections \ {d} : pc'[c] = pc[c] /\ ids'[c] = ids[c]
    BY <1>2, <2>1, <2>2
  <2>4. \A i \in DOMAIN accepted : i # n =>
          /\ accepted[i] \in Connections \ {d}
          /\ pc[accepted[i]] # "waiting" /\ pc[accepted[i]] # "away"
    BY <1>1, <1>2, <2>1 DEF Queue, n
  <2>5. \A j \in DOMAIN backlog : backlog[j] \in Connections \ {d}
    BY <1>1, <1>2, <2>1 DEF Queue
  <2>6. Len(accepted) = n
    BY DEF n
  <2>7. Queue'
    BY <1>1, <1>2, <2>1, <2>2, <2>3, <2>4, <2>5, <2>6 DEF Queue
  <2>8. IdsFollowAcceptance'
    BY <1>1, <1>2, <2>1, <2>2, <2>3, <2>4, <2>6 DEF IdsFollowAcceptance
  <2> QED
    BY <2>7, <2>8
<1>8. ASSUME NEW c \in Connections, Connect(c)
      PROVE  Queue' /\ IdsFollowAcceptance'
  <2>1. /\ UNCHANGED <<loop, accepted, id, ids>> /\ backlog' = Append(backlog, c)
        /\ pc[c] = "away" /\ pc' = [pc EXCEPT ![c] = "waiting"]
    BY <1>8 DEF Connect, At, Goto
  <2>2. /\ c \notin ToSet(backlog) /\ \A i \in DOMAIN accepted : accepted[i] # c
    BY <1>1, <2>1 DEF Queue, ToSet
  <2>3. IsInjective(backlog')
    BY <1>1, <1>2, <2>1, <2>2, AppendHolds DEF Queue
  <2>4. pc'[c] = "waiting" /\ \A d \in Connections \ {c} : pc'[d] = pc[d]
    BY <1>2, <2>1
  <2>5. \A j \in DOMAIN backlog' :
          backlog'[j] = c \/ \E k \in DOMAIN backlog : backlog'[j] = backlog[k]
    BY <1>2, <2>1
  <2>6. \A i \in DOMAIN accepted : pc'[accepted[i]] = pc[accepted[i]]
    BY <1>2, <2>2, <2>4
  <2>7. \A j \in DOMAIN backlog : pc'[backlog[j]] = "waiting"
    BY <1>1, <1>2, <2>4 DEF Queue
  <2>8. Entering' <=> Entering
    BY <2>1 DEF Entering
  <2>9. Entering => pc'[Last(accepted)] = "waiting"
    <3>1. Entering => Len(accepted) \in DOMAIN accepted
      BY <1>1, <1>2 DEF Queue
    <3> QED
      BY <1>1, <2>6, <3>1 DEF Queue, Last
  <2>10. Queue'
    BY <1>1, <2>1, <2>2, <2>3, <2>4, <2>5, <2>6, <2>7, <2>8, <2>9 DEF Queue
  <2>11. IdsFollowAcceptance'
    BY <1>1, <1>2, <2>1, <2>6 DEF IdsFollowAcceptance
  <2> QED
    BY <2>10, <2>11
<1>9. ASSUME NEW c \in Connections, HandleRequest(c)
      PROVE  Queue' /\ IdsFollowAcceptance'
  <2>1. /\ UNCHANGED <<loop, accepted, backlog, id, ids>>
        /\ \A d \in Connections : /\ pc'[d] = "waiting" <=> pc[d] = "waiting"
                                  /\ pc'[d] = "away" <=> pc[d] = "away"
    BY <1>1, <1>9, HandlerMoves DEF listener, Started
  <2>2. Entering => Last(accepted) \in Connections
    BY <1>1, <1>2 DEF Queue, Last
  <2>3. Queue'
    BY <1>1, <1>2, <2>1, <2>2 DEF Queue, Entering
  <2>4. IdsFollowAcceptance'
    BY <1>1, <1>2, <2>1 DEF IdsFollowAcceptance
  <2> QED
    BY <2>3, <2>4
<1>10. ASSUME NEW t \in Threads, PushCrashes(t)
       PROVE  Queue' /\ IdsFollowAcceptance'
  BY <1>1, <1>10 DEF PushCrashes, listener, Queue, IdsFollowAcceptance, Entering
<1> QED
  BY <1>3, <1>4, <1>5, <1>6, <1>7, <1>8, <1>9, <1>10, <1>11 DEF Next, Run

\* What a handler holds fits its place in the code.
LEMMA HandlersKept ==
  ASSUME ProxyInv, Next
  PROVE  Handlers'
<1>1. TypeOK /\ Handlers /\ Queue
  BY DEF ProxyInv
<1>2. /\ pc \in [Connections -> Locations]
      /\ server \in [Connections -> {NoFd, Failed} \cup 1 .. FdLimit]
      /\ kind \in [Connections -> RequestKind]
      /\ opened \in Nat /\ NoFd \notin Nat /\ Failed # NoFd
  BY <1>1, KindsAssumption, FdLimitAssumption DEF TypeOK, NoFd, Failed
<1>3. CASE InitServerSide \/ Accept \/ AcceptFails \/ AcceptThrows \/ Pushed \/ SpawnThrows
  <2>1. /\ loop' = "start" => loop = "start" /\ UNCHANGED listening
        /\ loop' = "pushFailed" => refused'
    BY <1>3 DEF InitServerSide, Accept, AcceptFails, AcceptThrows, Pushed, SpawnThrows
  <2>2. UNCHANGED <<pc, kind, server>>
    BY <1>3 DEF InitServerSide, Accept, AcceptFails, AcceptThrows, Pushed, SpawnThrows
  <2> QED
    BY <1>1, <2>1, <2>2 DEF Handlers
<1>4. CASE Spawn
  <2> DEFINE d == Last(accepted)
  <2>1. d \in Connections /\ pc[d] = "waiting"
    BY <1>1, <1>4 DEF Spawn, Queue, Entering, Last, TypeOK
  <2>2. pc' = [pc EXCEPT ![d] = "recv"] /\ loop' = "accept" /\ UNCHANGED <<kind, server>>
    BY <1>4 DEF Spawn, Goto
  <2> HIDE DEF d
  <2>3. pc'[d] = "recv" /\ \A c \in Connections \ {d} : pc'[c] = pc[c]
    BY <1>2, <2>1, <2>2
  <2> QED
    BY <1>1, <2>1, <2>2, <2>3 DEF Handlers
<1>5. ASSUME NEW c \in Connections, Connect(c)
      PROVE  Handlers'
  <2>1. /\ pc[c] = "away" /\ pc' = [pc EXCEPT ![c] = "waiting"] /\ listening
        /\ UNCHANGED <<kind, server, loop, refused>>
    BY <1>5 DEF Connect, At, Goto
  <2>2. pc'[c] = "waiting" /\ \A d \in Connections \ {c} : pc'[d] = pc[d]
    BY <1>2, <2>1
  <2> QED
    BY <1>1, <2>1, <2>2 DEF Handlers
<1>6. ASSUME NEW c \in Connections, HandleRequest(c)
      PROVE  Handlers'
  <2>1. /\ UNCHANGED <<loop, listening, kind, refused>> /\ Started(c)
        /\ \A d \in Connections \ {c} : pc'[d] = pc[d]
    BY <1>1, <1>6, HandlerMoves DEF listener
  <2>2. loop # "start"
    BY <1>1, <2>1 DEF Handlers, Started
  <2> SUFFICES /\ \A d \in Connections \ {c} : server'[d] = server[d]
               /\ pc'[c] = "badRequest" => kind[c].parse \in {"parser", "request"}
               /\ server'[c] # NoFd => pc'[c] \in {"push", "dispatch", "serving", "done"}
               /\ pc'[c] \in {"push", "dispatch"} => server'[c] # NoFd
    BY <1>1, <2>1, <2>2 DEF Handlers
  <2>3. /\ server[c] # NoFd => pc[c] \in {"push", "dispatch", "serving", "done"}
        /\ pc[c] \in {"push", "dispatch"} => server[c] # NoFd
    BY <1>1 DEF Handlers
  <2>4. kind[c].parse \in {"ok", "parser", "request", "spins"}
    BY <1>2 DEF RequestKind
  <2>5. CASE RecvRequest(c)
    BY <1>2, <2>3, <2>5 DEF RecvRequest, At, Goto
  <2>6. CASE Parse(c)
    BY <1>2, <2>3, <2>4, <2>6 DEF Parse, At, Goto
  <2>7. CASE BadRequest(c)
    BY <1>2, <2>3, <2>7 DEF BadRequest, At, Goto
  <2>8. CASE ConnectServer(c)
    BY <1>2, <2>3, <2>8 DEF ConnectServer, At, Goto
  <2>9. CASE NoServer(c)
    BY <1>2, <2>3, <2>9 DEF NoServer, At, Goto
  <2>10. CASE ConnectThrows(c)
    BY <1>2, <2>3, <2>10 DEF ConnectThrows, At, Goto
  <2>11. CASE PushServer(c)
    BY <1>2, <2>3, <2>11 DEF PushServer, At, Goto
  <2>12. CASE Dispatch(c)
    BY <1>2, <2>3, <2>12 DEF Dispatch, At, Goto
  <2>13. CASE Serve(c)
    BY <1>2, <2>3, <2>13 DEF Serve, At, Goto
  <2> QED
    BY <1>6, <2>5, <2>6, <2>7, <2>8, <2>9, <2>10, <2>11, <2>12, <2>13 DEF HandleRequest
<1>7. ASSUME NEW t \in Threads, PushCrashes(t)
      PROVE  Handlers'
  BY <1>1, <1>7 DEF PushCrashes, listener, Handlers
<1> QED
  BY <1>3, <1>4, <1>5, <1>6, <1>7 DEF Next, Run

\* Each descriptor is held by one variable, and the next one is new.
LEMMA NumbersKept ==
  ASSUME ProxyInv, Next
  PROVE  Numbers'
<1>1. TypeOK /\ Numbers /\ Queue
  BY DEF ProxyInv
<1>2. /\ opened \in Nat /\ opened + 1 \in Nat /\ opened + 1 # opened
      /\ browser \in [Connections -> {NoFd} \cup 1 .. FdLimit]
      /\ server \in [Connections -> {NoFd, Failed} \cup 1 .. FdLimit]
      /\ \A c \in Connections : browser[c] \in Int /\ server[c] \in Int
      /\ Failed \notin Nat /\ Failed \in Int /\ Failed <= opened + 1
  BY <1>1, FdLimitAssumption DEF TypeOK, NoFd, Failed
<1>3. \A c, d \in Connections :
        /\ browser[c] \in Nat /\ browser[c] = browser[d] => c = d
        /\ server[c] \in Nat /\ server[c] = server[d] => c = d
        /\ browser[c] \in Nat => browser[c] # server[d]
        /\ browser[c] <= opened /\ server[c] <= opened
        /\ browser[c] <= opened + 1 /\ server[c] <= opened + 1
        /\ browser[c] # opened + 1 /\ server[c] # opened + 1
  BY <1>1, <1>2 DEF Numbers
<1>4. CASE InitServerSide
  BY <1>1, <1>4 DEF InitServerSide, Numbers, Entering
<1>5. CASE Accept
  <2> DEFINE d == Head(backlog)
  <2>1. /\ d \in Connections /\ browser' = [browser EXCEPT ![d] = opened + 1]
        /\ opened' = opened + 1 /\ UNCHANGED server
    BY <1>1, <1>5 DEF Accept, TypeOK
  <2>2. Last(accepted') = d
    <3>1. accepted' = Append(accepted, d) /\ accepted \in Seq(Connections)
      BY <1>1, <1>5 DEF Accept, TypeOK
    <3> HIDE DEF d
    <3>2. Len(accepted') = Len(accepted) + 1 /\ accepted'[Len(accepted) + 1] = d
      BY <2>1, <3>1, AppendProperties
    <3> QED
      BY <3>2 DEF Last
  <2> HIDE DEF d
  <2>3. browser'[d] = opened + 1 /\ \A c \in Connections \ {d} : browser'[c] = browser[c]
    BY <1>2, <2>1
  <2>4. \A b, c \in Connections :
          /\ browser'[b] \in Nat /\ browser'[b] = browser'[c] => b = c
          /\ browser'[b] \in Nat => browser'[b] # server[c]
          /\ browser'[b] <= opened + 1
    BY <1>2, <1>3, <2>3
  <2> QED
    BY <1>2, <1>3, <2>1, <2>2, <2>3, <2>4 DEF Numbers
<1>6. CASE AcceptFails \/ AcceptThrows \/ Pushed \/ Spawn \/ SpawnThrows
  <2>1. UNCHANGED <<browser, server, opened, accepted>> /\ (Entering' => Entering)
    BY <1>6 DEF AcceptFails, AcceptThrows, Pushed, Spawn, SpawnThrows, Entering
  <2> QED
    BY <1>1, <2>1 DEF Numbers
<1>7. ASSUME NEW c \in Connections, Connect(c)
      PROVE  Numbers'
  BY <1>1, <1>7 DEF Connect, Numbers, Entering
<1>8. ASSUME NEW c \in Connections, HandleRequest(c)
      PROVE  Numbers'
  <2>1. UNCHANGED <<browser, accepted, loop>>
    BY <1>1, <1>8, HandlerMoves DEF listener
  <2>2. CASE UNCHANGED <<server, opened>>
    BY <1>1, <2>1, <2>2 DEF Numbers, Entering
  <2>3. CASE opened' = opened + 1 /\ UNCHANGED server
    BY <1>1, <1>3, <2>1, <2>3 DEF Numbers, Entering
  <2>4. CASE opened' = opened + 1 /\ server' = [server EXCEPT ![c] = opened + 1]
    <3>1. server'[c] = opened + 1 /\ \A d \in Connections \ {c} : server'[d] = server[d]
      BY <1>2, <2>4
    <3>2. \A b, d \in Connections :
            /\ server'[b] \in Nat /\ server'[b] = server'[d] => b = d
            /\ browser[b] \in Nat => browser[b] # server'[d]
            /\ server'[b] <= opened + 1
      BY <1>2, <1>3, <3>1
    <3> QED
      BY <1>1, <1>3, <2>1, <2>4, <3>2 DEF Numbers, Entering
  <2>5. CASE UNCHANGED opened /\ server' = [server EXCEPT ![c] = Failed]
    <3>1. server'[c] = Failed /\ \A d \in Connections \ {c} : server'[d] = server[d]
      BY <1>2, <2>5
    <3>2. \A b, d \in Connections :
            /\ server'[b] \in Nat /\ server'[b] = server'[d] => b = d
            /\ browser[b] \in Nat => browser[b] # server'[d]
            /\ server'[b] <= opened
      <4>1. Failed <= opened
        BY <1>2 DEF Failed
      <4> QED
        BY <1>2, <1>3, <3>1, <4>1
    <3> QED
      BY <1>1, <2>1, <2>5, <3>2 DEF Numbers, Entering
  <2> QED
    BY <1>8, <2>2, <2>3, <2>4, <2>5
       DEF HandleRequest, RecvRequest, Parse, BadRequest, ConnectServer, NoServer,
           ConnectThrows, PushServer, Dispatch, Serve
<1>9. ASSUME NEW t \in Threads, PushCrashes(t)
      PROVE  Numbers'
  BY <1>1, <1>9 DEF PushCrashes, listener, Numbers, Entering
<1> QED
  BY <1>4, <1>5, <1>6, <1>7, <1>8, <1>9 DEF Next, Run

\* Who is within push_back.
LEMMA SlotsKept ==
  ASSUME ProxyInv, Next
  PROVE  Slots'
<1>1. TypeOK /\ Slots /\ Queue /\ Handlers /\ Numbers
  BY DEF ProxyInv
<1>2. /\ slot \in [Threads -> Int] /\ sockets \in Seq(Descriptors) /\ Len(sockets) \in Nat
      /\ pc \in [Connections -> Locations] /\ opened + 1 \in Nat
      /\ Loop \in Threads /\ Connections \subseteq Threads /\ Loop \notin Connections
      /\ \A n \in Nat : n # NoSlot
  BY <1>1, LoopAssumption, FdLimitAssumption DEF TypeOK, Threads, NoSlot
<1>3. ASSUME NEW t \in Threads, NEW fd, PushBegins(t, fd)
      PROVE  slot'[t] = Len(sockets) /\ \A u \in Threads \ {t} : slot'[u] = slot[u]
  BY <1>2, <1>3 DEF PushBegins
<1>4. ASSUME NEW t \in Threads, PushEnds(t)
      PROVE  slot'[t] = NoSlot /\ \A u \in Threads \ {t} : slot'[u] = slot[u]
  BY <1>2, <1>4 DEF PushEnds, NoSlot
<1>5. CASE InitServerSide
  BY <1>1, <1>5 DEF InitServerSide, Slots
<1>6. CASE Accept \/ AcceptFails
  <2>1. /\ \E fd : PushBegins(Loop, fd)
        /\ loop' \in {"push", "pushFailed"} /\ UNCHANGED pc
    BY <1>6 DEF Accept, AcceptFails
  <2> QED
    BY <1>1, <1>2, <1>3, <2>1 DEF Slots
<1>7. CASE AcceptThrows \/ Pushed
  <2>1. PushEnds(Loop) /\ loop' \in {"spawn", "failed"} /\ UNCHANGED pc
    BY <1>7 DEF AcceptThrows, Pushed
  <2> QED
    BY <1>1, <1>2, <1>4, <2>1 DEF Slots
<1>8. CASE Spawn
  <2> DEFINE d == Last(accepted)
  <2>1. d \in Connections /\ pc[d] = "waiting"
    BY <1>1, <1>8 DEF Spawn, Queue, Entering, Last, TypeOK
  <2>2. /\ pc' = [pc EXCEPT ![d] = "recv"] /\ loop = "spawn" /\ loop' = "accept"
        /\ UNCHANGED slot
    BY <1>8 DEF Spawn, Goto, vector
  <2> HIDE DEF d
  <2>3. pc'[d] = "recv" /\ \A c \in Connections \ {d} : pc'[c] = pc[c]
    BY <1>2, <2>1, <2>2
  <2> QED
    BY <1>1, <1>2, <2>1, <2>2, <2>3 DEF Slots
<1>9. CASE SpawnThrows
  BY <1>1, <1>9 DEF SpawnThrows, vector, Slots
<1>10. ASSUME NEW c \in Connections, Connect(c)
       PROVE  Slots'
  <2>1. /\ pc[c] = "away" /\ pc' = [pc EXCEPT ![c] = "waiting"] /\ UNCHANGED <<loop, slot>>
    BY <1>10 DEF Connect, At, Goto, vector
  <2>2. pc'[c] = "waiting" /\ \A d \in Connections \ {c} : pc'[d] = pc[d]
    BY <1>2, <2>1
  <2> QED
    BY <1>1, <1>2, <2>1, <2>2 DEF Slots
<1>11. ASSUME NEW c \in Connections, HandleRequest(c)
       PROVE  Slots'
  <2>1. /\ UNCHANGED loop /\ c \in Threads
        /\ \A d \in Connections \ {c} : pc'[d] = pc[d]
    BY <1>1, <1>2, <1>11, HandlerMoves DEF listener
  <2>2. CASE UNCHANGED slot /\ pc[c] # "push" /\ pc'[c] # "push"
    BY <1>1, <1>2, <2>1, <2>2 DEF Slots
  <2>3. CASE ConnectServer(c) \/ NoServer(c)
    <3>1. (\E fd : PushBegins(c, fd)) /\ pc'[c] = "push"
      BY <1>2, <2>3 DEF ConnectServer, NoServer, Goto
    <3> QED
      BY <1>1, <1>2, <1>3, <2>1, <3>1 DEF Slots
  <2>4. CASE PushServer(c)
    <3>1. PushEnds(c) /\ pc'[c] = "dispatch"
      BY <1>2, <2>4 DEF PushServer, Goto
    <3> QED
      BY <1>1, <1>2, <1>4, <2>1, <3>1 DEF Slots
  <2>5. CASE RecvRequest(c) \/ Parse(c) \/ BadRequest(c)
    BY <1>2, <2>2, <2>5 DEF RecvRequest, Parse, BadRequest, At, Goto, vector
  <2>6. CASE ConnectThrows(c) \/ Dispatch(c) \/ Serve(c)
    BY <1>2, <2>2, <2>6 DEF ConnectThrows, Dispatch, Serve, At, Goto, vector
  <2> QED
    BY <1>11, <2>3, <2>4, <2>5, <2>6 DEF HandleRequest
<1>12. ASSUME NEW t \in Threads, PushCrashes(t)
       PROVE  Slots'
  BY <1>1, <1>12 DEF PushCrashes, listener, vector, Slots
<1> QED
  BY <1>5, <1>6, <1>7, <1>8, <1>9, <1>10, <1>11, <1>12 DEF Next, Run

VectorInv == Meetings /\ Kept /\ Fresh /\ Unrepeated

\* A step that leaves the vector alone.
LEMMA VectorStays ==
  ASSUME ProxyInv, UNCHANGED <<sockets, slot, raced>>, opened' \in Int, opened <= opened',
         \A u \in Appending : Pushing(u)' = Pushing(u), Settled' \subseteq Settled
  PROVE  VectorInv'
<1>1. Meetings /\ Kept /\ Fresh /\ Unrepeated /\ TypeOK
  BY DEF ProxyInv
<1>2. Appending' = Appending
  BY DEF Appending
<1>3. \A i \in DOMAIN sockets : sockets[i] \in Int /\ opened \in Int
  BY <1>1, FdLimitAssumption DEF TypeOK, Descriptors, Failed
<1>4. Meetings' /\ Unrepeated'
  BY <1>1, <1>2 DEF Meetings, Unrepeated
<1>5. Kept'
  BY <1>1, <1>2 DEF Kept
<1>6. Fresh'
  BY <1>1, <1>2, <1>3 DEF Fresh
<1> QED
  BY <1>4, <1>5, <1>6 DEF VectorInv

\* A push_back begins, of a new descriptor or of -1.
LEMMA VectorBegins ==
  ASSUME ProxyInv, NEW t \in Threads, NEW fd \in Descriptors, slot[t] = NoSlot,
         PushBegins(t, fd), UNCHANGED sockets,
         fd = Failed \/ fd = opened + 1, opened' \in Int, opened <= opened', fd <= opened',
         \A u \in Appending : Pushing(u)' = Pushing(u), Pushing(t)' = fd,
         Settled' \subseteq Settled
  PROVE  VectorInv'
<1>1. /\ Meetings /\ Kept /\ Fresh /\ Unrepeated
      /\ TypeOK /\ Queue /\ Slots /\ Handlers /\ Numbers
  BY DEF ProxyInv
<1>2. /\ slot'[t] = Len(sockets) /\ \A u \in Threads \ {t} : slot'[u] = slot[u]
      /\ raced \subseteq raced'
      /\ \A u \in Appending : Pushing(u) \in raced' /\ fd \in raced'
  BY <1>1, PushStarts
<1>3. /\ sockets \in Seq(Descriptors) /\ Len(sockets) \in Nat /\ DOMAIN sockets = 1 .. Len(sockets)
      /\ opened \in Int /\ NoSlot \notin Nat
      /\ \A i \in DOMAIN sockets : sockets[i] \in Int
  BY <1>1, FdLimitAssumption DEF TypeOK, Descriptors, Failed, NoSlot
<1>4. Appending' = Appending \cup {t} /\ t \notin Appending
  BY <1>2, <1>3 DEF Appending
<1>5. Meetings'
  BY <1>2, <1>4 DEF Meetings
<1>6. Kept'
  <2> SUFFICES ASSUME NEW n \in Settled \ raced
               PROVE  \E i \in DOMAIN sockets :
                        sockets[i] = n /\ \A u \in Appending \cup {t} : i <= slot'[u]
    BY <1>2, <1>4 DEF Kept
  <2>1. PICK i \in DOMAIN sockets : sockets[i] = n /\ \A u \in Appending : i <= slot[u]
    BY <1>1 DEF Kept
  <2>2. \A u \in Appending : slot'[u] = slot[u]
    BY <1>2, <1>4 DEF Appending
  <2> QED
    BY <1>2, <1>3, <2>1, <2>2
<1>7. Fresh'
  <2> SUFFICES ASSUME NEW i \in DOMAIN sockets
               PROVE  /\ sockets[i] <= opened'
                      /\ sockets[i] # Failed =>
                           \A u \in Appending \cup {t} : Pushing(u)' # sockets[i]
    BY <1>4 DEF Fresh
  <2>1. sockets[i] <= opened /\ (sockets[i] # Failed => \A u \in Appending : Pushing(u) # sockets[i])
    BY <1>1 DEF Fresh
  <2> QED
    BY <1>3, <2>1
<1>8. Unrepeated'
  BY <1>1 DEF Unrepeated
<1> QED
  BY <1>5, <1>6, <1>7, <1>8 DEF VectorInv

\* A push_back returns: what it wrote is there, and what it wrote over was in the
\* race with it.
LEMMA VectorEnds ==
  ASSUME ProxyInv, NEW t \in Appending, PushEnds(t), opened' = opened,
         \A u \in Appending \ {t} : Pushing(u)' = Pushing(u),
         Settled' \subseteq Settled \cup {Pushing(t)}
  PROVE  VectorInv'
<1>1. /\ Meetings /\ Kept /\ Fresh /\ Unrepeated
      /\ TypeOK /\ Queue /\ Slots /\ Handlers /\ Numbers
  BY DEF ProxyInv
<1>2. /\ slot'[t] = NoSlot /\ \A u \in Threads \ {t} : slot'[u] = slot[u]
      /\ raced' = raced
      /\ \A i \in DOMAIN sockets :
           i <= slot[t] => i \in DOMAIN sockets' /\ sockets'[i] = sockets[i]
  BY <1>1, PushWrites
<1>3. PICK m \in DOMAIN sockets' :
        /\ sockets'[m] = Pushing(t)
        /\ \A i \in DOMAIN sockets' :
             i # m => i \in DOMAIN sockets /\ sockets'[i] = sockets[i]
  BY <1>1, PushWrites
<1>4. /\ Pushing(t) <= opened
      /\ \A u \in Appending : Pushing(u) = Pushing(t) /\ Pushing(t) # Failed => u = t
  BY <1>1, PushingIs
<1>5. Appending' = Appending \ {t}
  BY <1>2 DEF Appending
<1>6. Meetings'
  BY <1>1, <1>2, <1>5 DEF Meetings
<1>7. Kept'
  <2> SUFFICES ASSUME NEW n \in Settled' \ raced
               PROVE  \E i \in DOMAIN sockets' :
                        sockets'[i] = n /\ \A u \in Appending \ {t} : i <= slot'[u]
    BY <1>2, <1>5 DEF Kept
  <2>1. CASE n \in Settled
    <3>1. PICK i \in DOMAIN sockets : sockets[i] = n /\ \A u \in Appending : i <= slot[u]
      BY <1>1, <2>1 DEF Kept
    <3>2. i \in DOMAIN sockets' /\ sockets'[i] = n
      BY <1>2, <3>1
    <3>3. \A u \in Appending \ {t} : slot'[u] = slot[u]
      BY <1>2 DEF Appending
    <3> QED
      BY <3>1, <3>2, <3>3
  <2>2. CASE n = Pushing(t)
    <3>1. Appending \ {t} = {}
      BY <1>1, <2>2 DEF Meetings
    <3> QED
      BY <1>3, <2>2, <3>1
  <2> QED
    BY <2>1, <2>2
<1>8. Fresh'
  <2> SUFFICES ASSUME NEW i \in DOMAIN sockets'
               PROVE  /\ sockets'[i] <= opened
                      /\ sockets'[i] # Failed =>
                           \A u \in Appending \ {t} : Pushing(u) # sockets'[i]
    BY <1>5 DEF Fresh
  <2>1. CASE i = m
    BY <1>3, <1>4, <2>1
  <2>2. CASE i # m
    BY <1>1, <1>3, <2>2 DEF Fresh
  <2> QED
    BY <2>1, <2>2
<1>9. Unrepeated'
  <2> SUFFICES ASSUME NEW i \in DOMAIN sockets', NEW j \in DOMAIN sockets',
                      sockets'[i] = sockets'[j], sockets'[i] # Failed
               PROVE  i = j
    BY DEF Unrepeated
  <2>1. \A k \in DOMAIN sockets' : k # m /\ sockets'[k] # Failed => sockets'[k] # Pushing(t)
    BY <1>1, <1>3 DEF Fresh
  <2>2. CASE i = m \/ j = m
    BY <1>3, <2>1, <2>2
  <2>3. CASE i # m /\ j # m
    BY <1>1, <1>3, <2>3 DEF Unrepeated
  <2> QED
    BY <2>2, <2>3
<1> QED
  BY <1>6, <1>7, <1>8, <1>9 DEF VectorInv

\* Every step of run and of the handlers does one of the three to the vector.
LEMMA VectorKept ==
  ASSUME ProxyInv, Next
  PROVE  VectorInv'
<1>1. TypeOK /\ Queue /\ Slots /\ Handlers /\ Numbers
  BY DEF ProxyInv
<1>2. /\ pc \in [Connections -> Locations] /\ slot \in [Threads -> Int]
      /\ browser \in [Connections -> {NoFd} \cup 1 .. FdLimit]
      /\ server \in [Connections -> {NoFd, Failed} \cup 1 .. FdLimit]
      /\ opened \in 0 .. FdLimit /\ FdLimit \in Nat
      /\ opened + 1 \in Int /\ opened <= opened + 1 /\ opened <= opened /\ opened \in Int
      /\ Failed <= opened /\ Failed \in Descriptors
      /\ Loop \in Threads /\ Connections \subseteq Threads /\ Loop \notin Connections
      /\ NoFd \notin 0 .. FdLimit /\ Failed \notin 0 .. FdLimit
  BY <1>1, LoopAssumption, FdLimitAssumption DEF TypeOK, Threads, Descriptors, Failed, NoFd
<1>3. \A u \in Appending : u = Loop \/ u \in Connections
  BY DEF Appending, Threads
<1>4. CASE InitServerSide
  <2>1. PICK fd \in {ListenFd, Failed} :
          /\ sockets' = <<fd>> /\ (listening' <=> fd = ListenFd)
    BY <1>4 DEF InitServerSide, ListenFd, Failed
  <2>2. /\ Appending = {} /\ Appending' = {}
    BY <1>1, <1>3, <1>4 DEF InitServerSide, Slots, Handlers, Appending
  <2>3. Settled' \subseteq {ListenFd} /\ (listening' \/ Settled' = {})
    <3>1. \A c \in Connections : pc[c] = "away" /\ server[c] = NoFd
      BY <1>1, <1>4 DEF InitServerSide, Handlers
    <3>2. /\ loop' = "accept" /\ UNCHANGED <<pc, server, browser, slot>>
      BY <1>4 DEF InitServerSide
    <3> QED
      BY <1>2, <3>1, <3>2 DEF Settled, Registered, Started
  <2>4. UNCHANGED <<opened, raced>> /\ ListenFd <= opened
    BY <1>2, <1>4 DEF InitServerSide, ListenFd
  <2>5. DOMAIN sockets' = {1} /\ sockets'[1] = fd
    BY <2>1
  <2>6. Meetings'
    BY <2>2 DEF Meetings
  <2>7. Kept'
    BY <2>1, <2>2, <2>3, <2>5 DEF Kept
  <2>8. Fresh' /\ Unrepeated'
    BY <1>2, <2>2, <2>4, <2>5 DEF Fresh, Unrepeated
  <2> QED
    BY <2>6, <2>7, <2>8 DEF VectorInv
<1>5. CASE Accept
  <2> DEFINE d == Head(backlog)
  <2>1. /\ d \in Connections /\ pc[d] = "waiting"
        /\ browser' = [browser EXCEPT ![d] = opened + 1]
        /\ accepted' = Append(accepted, d) /\ accepted \in Seq(Connections)
    <3>1. backlog \in Seq(Connections) /\ backlog # <<>>
      BY <1>1, <1>5 DEF Accept, TypeOK
    <3>2. d = backlog[1] /\ 1 \in DOMAIN backlog
      BY <3>1
    <3> QED
      BY <1>1, <1>5, <3>1, <3>2 DEF Accept, Queue, TypeOK
  <2>2. Last(accepted') = d
    <3> HIDE DEF d
    <3>1. Len(accepted') = Len(accepted) + 1 /\ accepted'[Len(accepted) + 1] = d
      BY <2>1, AppendProperties
    <3> QED
      BY <3>1 DEF Last
  <2> HIDE DEF d
  <2>3. /\ loop = "accept" /\ loop' = "push" /\ PushBegins(Loop, opened + 1)
        /\ opened < FdLimit /\ opened' = opened + 1
        /\ UNCHANGED <<pc, server, sockets, listening>>
    BY <1>5 DEF Accept
  <2>4. slot[Loop] = NoSlot
    BY <1>1, <2>3 DEF Slots
  <2>5. Pushing(Loop)' = opened + 1
    BY <1>2, <2>1, <2>2, <2>3 DEF Pushing
  <2>6. \A u \in Appending : Pushing(u)' = Pushing(u)
    BY <1>2, <1>3, <2>3, <2>4 DEF Pushing, Appending
  <2>7. Settled' \subseteq Settled
    <3>1. \A u \in Threads : u # Loop => slot'[u] = slot[u]
      BY <1>2, <2>3 DEF PushBegins
    <3>2. \A c \in Connections : Started(c)' => Started(c) /\ browser'[c] = browser[c]
      BY <1>2, <2>1, <2>3 DEF Started
    <3> QED
      BY <1>2, <2>3, <3>1, <3>2 DEF Settled, Registered
  <2>8. opened + 1 \in Descriptors
    BY <1>2, <2>3 DEF Descriptors
  <2> QED
    BY <1>2, <2>3, <2>4, <2>5, <2>6, <2>7, <2>8, VectorBegins
<1>6. CASE AcceptFails
  <2>1. /\ loop = "accept" /\ loop' = "pushFailed" /\ PushBegins(Loop, Failed)
        /\ UNCHANGED <<pc, browser, server, sockets, listening, opened>>
    BY <1>6 DEF AcceptFails
  <2>2. slot[Loop] = NoSlot
    BY <1>1, <2>1 DEF Slots
  <2>3. Pushing(Loop)' = Failed
    BY <2>1 DEF Pushing
  <2>4. \A u \in Appending : Pushing(u)' = Pushing(u)
    BY <1>2, <1>3, <2>1, <2>2 DEF Pushing, Appending
  <2>5. Settled' \subseteq Settled
    <3>1. \A u \in Threads : u # Loop => slot'[u] = slot[u]
      BY <1>2, <2>1 DEF PushBegins
    <3> QED
      BY <1>2, <2>1, <3>1 DEF Settled, Registered, Started
  <2> QED
    BY <1>2, <2>1, <2>2, <2>3, <2>4, <2>5, VectorBegins
<1>7. CASE AcceptThrows \/ Pushed
  <2>1. /\ PushEnds(Loop) /\ UNCHANGED <<accepted, pc, browser, server, listening, opened>>
        /\ \/ loop = "push" /\ loop' = "spawn"
           \/ loop = "pushFailed" /\ loop' = "failed"
    BY <1>7 DEF AcceptThrows, Pushed
  <2>2. Loop \in Appending
    BY <1>1, <1>2, <2>1 DEF Slots, Appending
  <2>3. \A u \in Appending \ {Loop} : Pushing(u)' = Pushing(u)
    BY <1>2, <1>3, <2>1 DEF Pushing
  <2>4. \A u \in Threads : u # Loop => slot'[u] = slot[u]
    BY <1>2, <2>1 DEF PushEnds
  <2>5. Settled' \subseteq Settled \cup {Pushing(Loop)}
    BY <1>2, <2>1, <2>4 DEF Settled, Registered, Started, Pushing
  <2> QED
    BY <2>1, <2>2, <2>3, <2>5, VectorEnds
<1>8. CASE Spawn
  <2> DEFINE d == Last(accepted)
  <2>1. d \in Connections
    BY <1>1, <1>8 DEF Spawn, Queue, Entering, Last, TypeOK
  <2>2. /\ pc' = [pc EXCEPT ![d] = "recv"] /\ loop = "spawn" /\ loop' = "accept"
        /\ UNCHANGED <<browser, server, listening, opened, sockets, slot, raced>>
    BY <1>8 DEF Spawn, Goto, vector
  <2>3. Loop \notin Appending
    BY <1>1, <2>2 DEF Slots, Appending
  <2>4. \A u \in Appending : Pushing(u)' = Pushing(u)
    BY <1>2, <1>3, <2>2, <2>3 DEF Pushing
  <2>5. Settled' \subseteq Settled
    <3> HIDE DEF d
    <3>1. Settled = Registered \cup {browser[d]}
      BY <2>2 DEF Settled, d
    <3>2. \A c \in Connections : Started(c)' => Started(c) \/ c = d
      BY <1>2, <2>1, <2>2 DEF Started
    <3>3. Registered' \subseteq Registered \cup {browser[d]}
      BY <2>2, <3>2 DEF Registered
    <3> QED
      BY <2>2, <3>1, <3>3 DEF Settled
  <2> QED
    BY <1>2, <2>2, <2>4, <2>5, VectorStays
<1>9. CASE SpawnThrows
  <2>1. /\ loop = "spawn" /\ loop' = "failed"
        /\ UNCHANGED <<pc, browser, server, listening, opened, sockets, slot, raced>>
    BY <1>9 DEF SpawnThrows, vector
  <2>2. Loop \notin Appending
    BY <1>1, <2>1 DEF Slots, Appending
  <2>3. \A u \in Appending : Pushing(u)' = Pushing(u)
    BY <1>2, <1>3, <2>1, <2>2 DEF Pushing
  <2>4. Settled' \subseteq Settled
    BY <2>1 DEF Settled, Registered, Started
  <2> QED
    BY <1>2, <2>1, <2>3, <2>4, VectorStays
<1>10. ASSUME NEW c \in Connections, Connect(c)
       PROVE  VectorInv'
  <2>1. /\ pc[c] = "away" /\ pc' = [pc EXCEPT ![c] = "waiting"]
        /\ UNCHANGED <<loop, accepted, browser, server, listening, opened, sockets, slot, raced>>
    BY <1>10 DEF Connect, At, Goto, vector
  <2>2. \A u \in Appending : Pushing(u)' = Pushing(u)
    BY <2>1 DEF Pushing
  <2>3. \A d \in Connections : Started(d)' => Started(d)
    BY <1>2, <2>1 DEF Started
  <2>4. Settled' \subseteq Settled
    BY <2>1, <2>3 DEF Settled, Registered
  <2> QED
    BY <1>2, <2>1, <2>2, <2>4, VectorStays
<1>11. ASSUME NEW c \in Connections, HandleRequest(c)
       PROVE  VectorInv'
  <2>1. /\ UNCHANGED <<loop, accepted, browser, listening>>
        /\ Started(c) /\ Started(c)' /\ \A d \in Connections \ {c} : pc'[d] = pc[d]
    BY <1>1, <1>11, HandlerMoves DEF listener
  <2>2. \A d \in Connections : Started(d)' => Started(d)
    BY <2>1 DEF Started
  <2>3. CASE /\ UNCHANGED <<sockets, slot, raced, server>>
             /\ opened' = opened \/ opened' = opened + 1
    <3>1. \A u \in Appending : Pushing(u)' = Pushing(u)
      BY <2>1, <2>3 DEF Pushing
    <3>2. Settled' \subseteq Settled
      BY <2>1, <2>2, <2>3 DEF Settled, Registered
    <3> QED
      BY <1>2, <2>3, <3>1, <3>2, VectorStays
  <2>4. CASE ConnectServer(c) \/ NoServer(c)
    <3>1. PICK fd \in Descriptors :
            /\ \/ fd = Failed /\ opened' = opened
               \/ fd = opened + 1 /\ opened' = opened + 1
            /\ PushBegins(c, fd) /\ server' = [server EXCEPT ![c] = fd]
            /\ UNCHANGED sockets
            /\ pc[c] = "connect"
      <4>1. opened < FdLimit => opened + 1 \in Descriptors
        BY <1>2 DEF Descriptors
      <4>2. CASE ConnectServer(c)
        BY <4>1, <4>2 DEF ConnectServer, Opens, At
      <4>3. CASE NoServer(c)
        BY <1>2, <4>3 DEF NoServer, At
      <4> QED
        BY <2>4, <4>2, <4>3
    <3>2. slot[c] = NoSlot /\ c \in Threads
      BY <1>1, <1>2, <3>1 DEF Slots
    <3>3. server'[c] = fd /\ \A d \in Connections \ {c} : server'[d] = server[d]
      BY <1>2, <3>1
    <3>4. Pushing(c)' = fd
      BY <1>2, <3>3 DEF Pushing
    <3>5. \A u \in Appending : Pushing(u)' = Pushing(u)
      BY <1>2, <1>3, <2>1, <3>2, <3>3 DEF Pushing, Appending
    <3>6. /\ slot'[c] # NoSlot
          /\ \A u \in Threads \ {c} : slot'[u] = slot[u]
      <4>1. Len(sockets) \in Nat /\ NoSlot \notin Nat /\ slot' = [slot EXCEPT ![c] = Len(sockets)]
        BY <1>1, <3>1 DEF PushBegins, TypeOK, NoSlot
      <4> QED
        BY <1>2, <3>2, <4>1
    <3>7. Settled' \subseteq Settled
      BY <1>2, <2>1, <2>2, <3>3, <3>6 DEF Settled, Registered
    <3> QED
      BY <1>2, <3>1, <3>2, <3>4, <3>5, <3>7, VectorBegins
  <2>5. CASE PushServer(c)
    <3>1. c \in Appending
      BY <1>1, <1>2, <2>5 DEF PushServer, At, Slots, Appending
    <3>2. PushEnds(c) /\ UNCHANGED <<server, opened>>
      BY <2>5 DEF PushServer
    <3>3. \A u \in Appending \ {c} : Pushing(u)' = Pushing(u)
      BY <2>1, <3>2 DEF Pushing
    <3>4. \A u \in Threads \ {c} : slot'[u] = slot[u]
      BY <1>2, <3>2 DEF PushEnds
    <3>5. Pushing(c) = server[c]
      BY <1>2 DEF Pushing
    <3>6. Settled' \subseteq Settled \cup {Pushing(c)}
      BY <1>2, <2>1, <2>2, <3>2, <3>4, <3>5 DEF Settled, Registered
    <3> QED
      BY <3>1, <3>2, <3>3, <3>6, VectorEnds
  <2> QED
    BY <1>11, <2>3, <2>4, <2>5
       DEF HandleRequest, RecvRequest, Parse, BadRequest, ConnectThrows, Dispatch, Serve, vector
<1>12. ASSUME NEW t \in Threads, PushCrashes(t)
       PROVE  VectorInv'
  <2>1. /\ UNCHANGED <<loop, accepted, pc, browser, server, listening, opened, sockets, slot,
                       raced>>
    BY <1>12 DEF PushCrashes, listener, vector
  <2>2. (\A u \in Appending : Pushing(u)' = Pushing(u)) /\ Settled' \subseteq Settled
    BY <2>1 DEF Pushing, Settled, Registered, Started
  <2> QED
    BY <1>2, <2>1, <2>2, VectorStays
<1> QED
  BY <1>4, <1>5, <1>6, <1>7, <1>8, <1>9, <1>10, <1>11, <1>12 DEF Next, Run

\* A step that ends the process has a cause.
LEMMA CauseKept ==
  ASSUME ProxyInv, Next
  PROVE  EndOfProcessHasCause'
<1>1. TypeOK /\ Slots /\ Handlers /\ Meetings /\ EndOfProcessHasCause
  BY DEF ProxyInv
<1>2. /\ pc \in [Connections -> Locations]
      /\ \A c \in Connections : pc[c] = "badRequest" => kind[c].parse \in {"parser", "request"}
  BY <1>1 DEF TypeOK, Handlers
<1> SUFFICES ASSUME ~running'
             PROVE  refused' \/ raced' # {} \/ \E c \in Connections : EndedBy(c)'
  BY DEF EndOfProcessHasCause
<1>3. CASE InitServerSide \/ Accept \/ AcceptFails \/ Pushed \/ Spawn
  BY <1>3 DEF InitServerSide, Accept, AcceptFails, Pushed, Spawn
<1>4. CASE SpawnThrows
  BY <1>4 DEF SpawnThrows
<1>5. CASE AcceptThrows
  BY <1>1, <1>5 DEF AcceptThrows, Handlers
<1>6. ASSUME NEW c \in Connections, Connect(c)
      PROVE  FALSE
  BY <1>6 DEF Connect, At
<1>7. ASSUME NEW c \in Connections, HandleRequest(c)
      PROVE  EndedBy(c)'
  <2>1. kind' = kind /\ browser' = browser
    BY <1>1, <1>7, HandlerMoves DEF listener
  <2>2. CASE BadRequest(c)
    BY <1>2, <2>1, <2>2 DEF BadRequest, At, Goto, EndedBy
  <2>3. CASE ConnectThrows(c)
    BY <2>1, <2>3 DEF ConnectThrows, At, EndedBy
  <2>4. CASE Dispatch(c)
    BY <1>2, <2>1, <2>4 DEF Dispatch, At, Goto, Fatal, EndedBy, FitFdSet
  <2> QED
    BY <1>7, <2>2, <2>3, <2>4
       DEF HandleRequest, RecvRequest, Parse, ConnectServer, NoServer, PushServer, Serve, At
<1>8. ASSUME NEW t \in Threads, PushCrashes(t)
      PROVE  raced' # {}
  <2>1. \E u \in Appending : t \in Appending /\ u \in Appending /\ t # u
    BY <1>8 DEF PushCrashes, Appending
  <2> QED
    BY <1>1, <1>8, <2>1 DEF PushCrashes, vector, Meetings
<1> QED
  BY <1>3, <1>4, <1>5, <1>6, <1>7, <1>8 DEF Next, Run

-------------------------------------------------------------------------------
(***************************************************************************)
(* The inductive invariant of the accept loop and its handlers: where each *)
(* connection is, who is within push_back, and why an entry of sockets is  *)
(* there.                                                                  *)
(***************************************************************************)
THEOREM ProxyInvariant == Spec => []ProxyInv
<1>1. Init => ProxyInv
  BY InitEstablishes
<1>2. ProxyInv /\ [Next]_vars => ProxyInv'
  <2> SUFFICES ASSUME ProxyInv, [Next]_vars
               PROVE  ProxyInv'
    OBVIOUS
  <2>1. CASE Next
    BY <2>1, TypeKept, QueueKept, SlotsKept, HandlersKept, NumbersKept, VectorKept,
       CauseKept DEF ProxyInv, VectorInv
  <2>2. CASE UNCHANGED vars
    <3>1. ProxyInv /\ UNCHANGED <<running, loop, listening, backlog, accepted, id, ids, browser,
                                  refused, pc, kind, server, opened, sockets, slot, raced>>
      BY <2>2 DEF vars, listener, vector
    <3>2. TypeOK' /\ Queue' /\ IdsFollowAcceptance'
      BY <3>1 DEF ProxyInv, TypeOK, Queue, Entering, IdsFollowAcceptance
    <3>3. Slots' /\ Handlers' /\ Numbers'
      BY <3>1 DEF ProxyInv, Slots, Handlers, Numbers, Entering
    <3>4. Meetings' /\ Fresh' /\ Unrepeated'
      BY <3>1 DEF ProxyInv, Meetings, Fresh, Unrepeated, Appending, Pushing
    <3>5. Kept'
      BY <3>1 DEF ProxyInv, Kept, Settled, Registered, Appending, Started
    <3>6. EndOfProcessHasCause'
      BY <3>1 DEF ProxyInv, EndOfProcessHasCause, EndedBy, FitFdSet
    <3> QED
      BY <3>2, <3>3, <3>4, <3>5, <3>6 DEF ProxyInv
  <2> QED
    BY <2>1, <2>2
<1> QED
  BY <1>1, <1>2, PTL DEF Spec

\* The state of the accept loop and the handlers has its type: opened, above
\* all, never exceeds the limit on descriptors.
THEOREM ProxyTypeCorrect == Spec => []TypeOK
<1>1. ProxyInv => TypeOK
  BY DEF ProxyInv
<1> QED
  BY <1>1, ProxyInvariant, PTL

\* The n-th connection accepted is request n in the log, whatever the handlers
\* that run beside the loop do.
THEOREM IdsFollow == Spec => []IdsFollowAcceptance
<1>1. ProxyInv => IdsFollowAcceptance
  BY DEF ProxyInv
<1> QED
  BY <1>1, ProxyInvariant, PTL

\* A descriptor whose push_back met no other thread's is in sockets from its
\* return on, and none is there twice.
THEOREM OnlyRacedLost == Spec => []OnlyRacedAreLost
<1>1. ProxyInv => OnlyRacedAreLost
  <2> SUFFICES ASSUME ProxyInv
               PROVE  OnlyRacedAreLost
    OBVIOUS
  <2>1. Registered \subseteq Settled
    BY DEF Settled
  <2>2. Registered \ raced \subseteq ToSet(sockets)
    BY <2>1 DEF ProxyInv, Kept, ToSet
  <2> QED
    BY <2>2 DEF ProxyInv, Unrepeated, OnlyRacedAreLost
<1> QED
  BY <1>1, ProxyInvariant, PTL

\* The process ends in run or handleRequest only for one of the causes listed.
THEOREM ProxyEndsForACause == Spec => []EndOfProcessHasCause
<1>1. ProxyInv => EndOfProcessHasCause
  BY DEF ProxyInv
<1> QED
  BY <1>1, ProxyInvariant, PTL
=================================================================================
