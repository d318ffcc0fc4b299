----------------------------- MODULE Tunnel_proofs ------------------------------
(***************************************************************************)
(* The tunnel passes on what it receives in order and ends only when a     *)
(* side has closed, whatever the size of its buffer and of the windows of  *)
(* the two connections and however much is written.                        *)
(***************************************************************************)
EXTENDS Tunnel, SequenceTheorems, TLAPS

\* How many bytes of side s have been sent to the other; the signal is no one's.
Passed(s) == Len(delivered[Other(s)]) - (IF s = "server" THEN 1 ELSE 0)

\* The i-th byte that side s is to be sent, and the first n of them.
Nth(s, i) ==
  CASE s = "server" -> <<"client", i>>
    [] s # "server" /\ i = 1 -> ConnectSignal
    [] OTHER -> <<"server", i - 1>>

Stream(s, n) == [i \in 1 .. n |-> Nth(s, i)]

(***************************************************************************)
(* Between two turns of the loop nothing that was received is left to      *)
(* send; between recv and send the first len bytes of msg are just those   *)
(* that have been received in this turn.                                   *)
(***************************************************************************)
NothingWaits ==
  /\ pc = "signal" => \A s \in Sides : taken[s] = 0 /\ delivered[s] = <<>>
  /\ pc \in {"select", "recv"} => \A s \in Sides : Passed(s) = taken[s]
  /\ pc = "send" => /\ Passed(turn) + len = taken[turn]
                    /\ Passed(Other(turn)) = taken[Other(turn)]
                    /\ \A i \in 1 .. len : msg[i] = <<turn, Passed(turn) + i>>
  /\ pc \in {"select", "recv", "send"} => Len(delivered["client"]) >= 1

InOrder == \A s \in Sides : delivered[s] = Stream(s, Len(delivered[s]))

TunnelInv == TypeOK /\ InOrder /\ NothingWaits /\ EndsForACause
-------------------------------------------------------------------------------
\* What is to be sent are bytes.
LEMMA StreamType ==
  ASSUME NEW s \in Sides, NEW n \in Nat
  PROVE  Stream(s, n) \in Seq(Bytes) /\ Len(Stream(s, n)) = n
<1>1. ASSUME NEW i \in 1 .. n
      PROVE  Nth(s, i) \in Bytes
  <2>1. CASE s = "server"
    BY <2>1 DEF Nth, Bytes
  <2>2. CASE s # "server" /\ i = 1
    BY <2>2 DEF Nth, Bytes, ConnectSignal
  <2>3. CASE s # "server" /\ i # 1
    <3>1. i - 1 \in Nat
      BY <2>3
    <3> QED
      BY <2>3, <3>1 DEF Nth, Bytes
  <2> QED
    BY <2>1, <2>2, <2>3
<1> QED
  BY <1>1, IsASeq DEF Stream

\* A side that is sent the next m bytes behind the first d has the first d + m.
LEMMA StreamGoesOn ==
  ASSUME NEW s \in Sides, NEW d \in Nat, NEW m \in Nat,
         NEW q \in Seq(Bytes), Len(q) = m, \A i \in 1 .. m : q[i] = Nth(s, d + i)
  PROVE  Stream(s, d) \o q = Stream(s, d + m)
<1>1. Stream(s, d) \in Seq(Bytes) /\ Len(Stream(s, d)) = d
  BY StreamType
<1>2. /\ Stream(s, d + m) \in Seq(Bytes) /\ Len(Stream(s, d + m)) = d + m
  <2>1. d + m \in Nat
    OBVIOUS
  <2> QED
    BY <2>1, StreamType
<1>3. /\ Stream(s, d) \o q \in Seq(Bytes) /\ Len(Stream(s, d) \o q) = d + m
      /\ \A i \in 1 .. d + m :
           (Stream(s, d) \o q)[i] = IF i <= d THEN Stream(s, d)[i] ELSE q[i - d]
  <2> DEFINE t == Stream(s, d)
  <2>1. t \in Seq(Bytes) /\ Len(t) = d
    BY <1>1
  <2> HIDE DEF t
  <2>2. /\ t \o q \in Seq(Bytes) /\ Len(t \o q) = Len(t) + Len(q)
        /\ \A i \in 1 .. Len(t) + Len(q) :
             (t \o q)[i] = IF i <= Len(t) THEN t[i] ELSE q[i - Len(t)]
    BY <2>1, ConcatProperties
  <2>3. /\ t \o q \in Seq(Bytes) /\ Len(t \o q) = d + m
        /\ \A i \in 1 .. d + m : (t \o q)[i] = IF i <= d THEN t[i] ELSE q[i - d]
    BY <2>1, <2>2
  <2> QED
    BY <2>3 DEF t
<1>4. ASSUME NEW i \in 1 .. d + m
      PROVE  (Stream(s, d) \o q)[i] = Stream(s, d + m)[i]
  <2>1. Stream(s, d + m)[i] = Nth(s, i)
    BY DEF Stream
  <2>2. CASE i <= d
    <3>1. Stream(s, d)[i] = Nth(s, i)
      BY <2>2 DEF Stream
    <3> QED
      BY <1>3, <2>1, <2>2, <3>1
  <2>3. CASE i > d
    <3>1. i - d \in 1 .. m /\ d + (i - d) = i
      BY <2>3
    <3>2. q[i - d] = Nth(s, i)
      BY <3>1
    <3> QED
      BY <1>3, <2>1, <2>3, <3>2
  <2>4. i \in Nat /\ (i <= d \/ i > d)
    OBVIOUS
  <2> QED
    BY ONLY <2>2, <2>3, <2>4
<1> QED
  BY <1>2, <1>3, <1>4, SeqEqual

-------------------------------------------------------------------------------
\* What the sides and the sockets hold, by type.
LEMMA SideTypes ==
  ASSUME TypeOK
  PROVE  /\ written \in [Sides -> Nat] /\ taken \in [Sides -> Nat] /\ read \in [Sides -> Nat]
         /\ delivered \in [Sides -> Seq(Bytes)]
         /\ \A s \in Sides : Len(delivered[s]) \in Nat /\ Other(s) \in Sides \ {s}
                             /\ Other(Other(s)) = s
  BY DEF TypeOK, Sides, Other

\* The steps of the two sides; they touch nothing that the loop has in hand.
LEMMA SideStep ==
  ASSUME TunnelInv, NEW s \in Sides, Write(s) \/ Read(s) \/ Close(s)
  PROVE  TunnelInv'
<1>1. UNCHANGED <<taken, delivered, msg, len, ready, pc, turn>>
  BY DEF Write, Read, Close, buffer
<1>2. TypeOK'
  <2>1. CASE Write(s)
    <3>1. TypeOK /\ written' = [written EXCEPT ![s] = @ + 1] /\ UNCHANGED <<open, read>>
      BY <2>1 DEF Write, TunnelInv
    <3>2. written' \in [Sides -> Nat]
      BY <3>1, SideTypes
    <3> QED
      BY <1>1, <3>1, <3>2 DEF TypeOK
  <2>2. CASE Read(s)
    <3>1. /\ TypeOK /\ UNCHANGED <<written, open>>
          /\ read' = [read EXCEPT ![s] = Len(delivered[s])]
      BY <2>2 DEF Read, TunnelInv
    <3>2. read' \in [Sides -> Nat]
      BY <3>1, SideTypes
    <3> QED
      BY <1>1, <3>1, <3>2 DEF TypeOK
  <2>3. CASE Close(s)
    BY <1>1, <2>3, SideTypes DEF TunnelInv, TypeOK, Close
  <2> QED
    BY <2>1, <2>2, <2>3
<1>3. \A x \in Sides : ~open[x] => ~open'[x]
  BY DEF TunnelInv, TypeOK, Write, Read, Close
<1> QED
  BY <1>1, <1>2, <1>3 DEF TunnelInv, InOrder, NothingWaits, Passed, EndsForACause

\* What recv leaves in the buffer are bytes.
LEMMA FilledType ==
  ASSUME TypeOK, turn \in Sides, NEW n \in 0 .. RecvSize
  PROVE  Filled(n) \in [1 .. RecvSize -> Bytes]
<1>1. taken[turn] \in Nat /\ RecvSize \in Nat
  BY SideTypes, SizesAssumption
<1>2. \A i \in 1 .. RecvSize : <<turn, taken[turn] + i>> \in Bytes /\ Zero \in Bytes
  BY <1>1 DEF Bytes, Sides, Zero
<1> QED
  BY <1>2 DEF Filled

\* A step of the loop that sends nothing.
LEMMA SilentStep ==
  ASSUME TunnelInv, Select \/ Recv \/ RecvEnd \/ SendEnd
  PROVE  TunnelInv'
<1>1. /\ UNCHANGED <<peers, delivered>> /\ TypeOK
      /\ pc \in {"select", "recv", "send"}
  BY DEF TunnelInv, Select, Recv, RecvEnd, SendEnd
<1>2. CASE Select
  <2>1. TypeOK'
    BY <1>1, <1>2 DEF Select, ReadableOfBackup, TypeOK, peers, buffer, Sides
  <2> QED
    BY <1>1, <1>2, <2>1
       DEF Select, TunnelInv, InOrder, NothingWaits, Passed, EndsForACause, Ended
<1>3. CASE Recv
  <2>1. PICK n \in 1 .. RecvSize :
          taken' = [taken EXCEPT ![turn] = @ + n] /\ msg' = Filled(n) /\ len' = n
    BY <1>3 DEF Recv
  <2>2. n \in Nat /\ n > 0 /\ n <= RecvSize /\ RecvSize \in Nat /\ turn \in Sides
    BY <1>1, SizesAssumption DEF TypeOK
  <2>3. TypeOK'
    <3>1. taken' \in [Sides -> Nat] /\ len' \in 0 .. RecvSize
      BY <1>1, <2>1, <2>2, SideTypes
    <3>2. msg' \in [1 .. RecvSize -> Bytes]
      BY <1>1, <2>1, <2>2, FilledType
    <3> QED
      BY <1>1, <1>3, <3>1, <3>2 DEF Recv, TypeOK, peers
  <2>4. NothingWaits'
    <3>1. /\ taken'[turn] = taken[turn] + n
          /\ taken'[Other(turn)] = taken[Other(turn)]
          /\ taken[turn] \in Nat
      BY <1>1, <2>1, <2>2, SideTypes
    <3>2. Passed(turn) = taken[turn] /\ Passed(Other(turn)) = taken[Other(turn)]
      BY <1>1, <1>3, <2>2, SideTypes DEF Recv, TunnelInv, NothingWaits
    <3>3. \A s \in Sides : Passed(s)' = Passed(s)
      BY <1>1 DEF Passed
    <3>4. pc' = "send" /\ turn' = turn /\ Other(turn) \in Sides
      BY <1>1, <1>3, <2>2, SideTypes DEF Recv
    <3>5. Len(delivered'["client"]) >= 1
      BY <1>1, <1>3 DEF Recv, TunnelInv, NothingWaits
    <3>6. Passed(turn)' = taken[turn] /\ Passed(Other(turn))' = taken'[Other(turn)]
      BY <1>1, <3>1, <3>2, <3>4 DEF Passed
    <3>7. Passed(turn)' + len' = taken'[turn]
      BY <2>1, <3>1, <3>6
    <3>8. \A i \in 1 .. len' : msg'[i] = <<turn, Passed(turn)' + i>>
      BY <2>1, <2>2, <3>6 DEF Filled
    <3> QED
      BY <3>4, <3>5, <3>6, <3>7, <3>8 DEF NothingWaits, Passed
  <2> QED
    BY <1>1, <1>3, <2>3, <2>4 DEF Recv, TunnelInv, InOrder, EndsForACause, Ended
<1>4. CASE RecvEnd \/ SendEnd
  <2>1. /\ pc' \in Ended /\ UNCHANGED <<taken, len, ready, turn>>
        /\ \E s \in Sides : ~open[s]
    BY <1>1, <1>4, SideTypes DEF RecvEnd, SendEnd, Ended, TypeOK, buffer
  <2>2. msg' \in [1 .. RecvSize -> Bytes]
    <3>1. RecvSize \in Nat /\ 0 \in 0 .. RecvSize /\ turn \in Sides
      BY <1>1, SizesAssumption DEF TypeOK
    <3>2. msg' = msg \/ msg' = Filled(0)
      BY <1>4 DEF RecvEnd, SendEnd, buffer
    <3> QED
      BY <1>1, <3>1, <3>2, FilledType DEF TypeOK
  <2>3. TypeOK'
    BY <1>1, <2>1, <2>2 DEF TypeOK, peers
  <2> QED
    BY <1>1, <2>1, <2>3 DEF TunnelInv, InOrder, NothingWaits, EndsForACause, Ended, peers
<1> QED
  BY <1>2, <1>3, <1>4

\* The client is sent the 200 before the loop begins.
LEMMA SignalStep ==
  ASSUME TunnelInv, Signal
  PROVE  TunnelInv'
<1>1. /\ delivered' = [delivered EXCEPT !["client"] = <<ConnectSignal>>] /\ TypeOK
      /\ \A s \in Sides : taken[s] = 0 /\ delivered[s] = <<>>
      /\ pc' = "select" /\ UNCHANGED <<peers, taken, msg, len, ready, turn>>
  BY DEF Signal, TunnelInv, NothingWaits, buffer
<1>2. delivered'["client"] = <<ConnectSignal>> /\ delivered'["server"] = <<>>
  BY <1>1, SideTypes DEF Sides
<1>3. /\ <<ConnectSignal>> \in Seq(Bytes) /\ Len(<<ConnectSignal>>) = 1
      /\ <<ConnectSignal>> = Stream("client", 1)
  BY DEF Stream, Nth, ConnectSignal, Bytes
<1>4. <<>> \in Seq(Bytes) /\ Len(<<>>) = 0 /\ <<>> = Stream("server", 0)
  BY DEF Stream
<1>5. TypeOK'
  BY <1>1, <1>3 DEF TypeOK, peers
<1>6. InOrder'
  BY <1>2, <1>3, <1>4 DEF InOrder, Sides
<1>7. NothingWaits'
  BY <1>1, <1>2, <1>3 DEF NothingWaits, Passed, Sides, Other
<1> QED
  BY <1>1, <1>5, <1>6, <1>7 DEF TunnelInv, EndsForACause, Ended

\* What is in hand goes on behind what the other side has been sent.
LEMMA SendStep ==
  ASSUME TunnelInv, Send
  PROVE  TunnelInv'
<1> DEFINE to == Other(turn)
           d == Len(delivered[to])
           held == SubSeq(msg, 1, len)
           joined == delivered[to] \o held
<1>1. /\ TypeOK /\ InOrder /\ pc = "send" /\ UNCHANGED <<peers, taken, msg, len, ready>>
      /\ delivered' = [delivered EXCEPT ![to] = joined]
      /\ turn \in Sides /\ to \in Sides /\ turn = Other(to) /\ to # turn
      /\ pc' \in {"select", "recv"} /\ turn' \in Sides
  BY SideTypes DEF Send, AfterSend, TunnelInv, TypeOK, Sides, buffer
<1>2. /\ Passed(turn) + len = taken[turn] /\ Passed(to) = taken[to]
      /\ \A i \in 1 .. len : msg[i] = <<turn, Passed(turn) + i>>
      /\ Len(delivered["client"]) >= 1
  BY <1>1 DEF TunnelInv, NothingWaits
<1>3. /\ taken[turn] \in Nat /\ d \in Nat /\ delivered[to] \in Seq(Bytes)
      /\ len \in Nat /\ len <= RecvSize /\ RecvSize \in Nat
      /\ Len(delivered["client"]) \in Nat
  BY <1>1, SideTypes, SizesAssumption DEF TypeOK, Sides
<1>4. Passed(turn) = d - (IF turn = "server" THEN 1 ELSE 0)
  BY DEF Passed
<1>5. turn = "server" => to = "client" /\ d >= 1
  BY <1>2 DEF Other
<1>6. turn = "client" => to = "server"
  BY DEF Other
<1>7. /\ held \in Seq(Bytes) /\ Len(held) = len
      /\ \A i \in 1 .. len : held[i] = msg[i]
  <2>1. \A i \in 1 .. len : msg[i] \in Bytes
    BY <1>1, <1>3 DEF TypeOK
  <2> QED
    BY <1>3, <2>1, SubSeqProperties
<1>8. ASSUME NEW i \in 1 .. len
      PROVE  held[i] = Nth(to, d + i)
  <2>1. held[i] = <<turn, Passed(turn) + i>>
    BY <1>2, <1>7
  <2>2. CASE turn = "server"
    <3>1. d + i # 1 /\ Passed(turn) + i = d + i - 1 /\ to # "server"
      BY <1>3, <1>4, <1>5, <2>2
    <3>2. Nth(to, d + i) = <<"server", d + i - 1>>
      BY <3>1 DEF Nth
    <3> QED
      BY <2>1, <2>2, <3>1, <3>2
  <2>3. CASE turn = "client"
    <3>1. Passed(turn) + i = d + i
      BY <1>3, <1>4, <2>3
    <3> QED
      BY <1>6, <2>1, <2>3, <3>1 DEF Nth
  <2> QED
    BY <1>1, <2>2, <2>3 DEF Sides
<1>9. delivered[to] = Stream(to, d)
  BY <1>1 DEF InOrder
<1> HIDE DEF d, held, to
<1>10. joined = Stream(to, d + len)
  <2>1. Stream(to, d) \o held = Stream(to, d + len)
    BY <1>1, <1>3, <1>7, <1>8, StreamGoesOn
  <2> QED
    BY <1>9, <2>1
<1>11. joined \in Seq(Bytes) /\ Len(joined) = d + len
  <2>1. d + len \in Nat
    BY <1>3
  <2> QED
    BY <1>1, <1>10, <2>1, StreamType
<1> HIDE DEF joined
<1>12. delivered'[to] = joined /\ delivered'[turn] = delivered[turn]
  BY <1>1, SideTypes
<1>13. TypeOK'
  <2>1. delivered' \in [Sides -> Seq(Bytes)]
    BY <1>1, <1>11, SideTypes
  <2> QED
    BY <1>1, <2>1 DEF TypeOK, peers
<1>14. InOrder'
  <2>1. delivered'[to] = Stream(to, Len(delivered'[to]))
    BY <1>10, <1>11, <1>12
  <2>2. delivered'[turn] = Stream(turn, Len(delivered'[turn]))
    BY <1>1, <1>12 DEF InOrder
  <2>3. \A s \in Sides : s = to \/ s = turn
    BY <1>1 DEF Sides
  <2> QED
    BY <2>1, <2>2, <2>3 DEF InOrder
<1>15. NothingWaits'
  <2>1. Len(delivered'[to]) - (IF turn = "server" THEN 1 ELSE 0) = taken[turn]
    BY <1>2, <1>3, <1>4, <1>11, <1>12
  <2>2. Len(delivered'[turn]) - (IF to = "server" THEN 1 ELSE 0) = taken[to]
    BY <1>1, <1>2, <1>12 DEF Passed
  <2>3. \A s \in Sides : Passed(s)' = taken'[s]
    BY <1>1, <2>1, <2>2 DEF Passed, Sides, Other, to
  <2>4. Len(delivered'["client"]) >= 1
    <3>1. CASE to = "client"
      BY <1>2, <1>3, <1>11, <1>12, <3>1 DEF d
    <3>2. CASE turn = "client"
      BY <1>2, <1>12, <3>2
    <3> QED
      BY <1>1, <3>1, <3>2 DEF Sides
  <2> QED
    BY <1>1, <2>3, <2>4 DEF NothingWaits
<1> QED
  BY <1>1, <1>13, <1>14, <1>15 DEF TunnelInv, EndsForACause, Ended

(***************************************************************************)
(* TunnelInv holds in every state: what the sides and the loop hold has    *)
(* its type, what has been sent to a side are the other's first bytes, and *)
(* between recv and send the beginning of msg is just what was received.   *)
(***************************************************************************)
THEOREM TunnelInvariant == Spec => []TunnelInv
<1>1. Init => TunnelInv
  <2> SUFFICES ASSUME Init PROVE TunnelInv
    OBVIOUS
  <2>1. /\ <<>> \in Seq(Bytes) /\ Len(<<>>) = 0
        /\ \A s \in Sides : <<>> = Stream(s, 0)
    BY DEF Stream
  <2>2. TypeOK
    <3>1. msg \in [1 .. RecvSize -> Bytes] /\ len \in 0 .. RecvSize
      BY SizesAssumption DEF Init, Zero, Bytes
    <3> QED
      BY <2>1, <3>1 DEF Init, TypeOK, Sides
  <2>3. InOrder
    BY <2>1 DEF Init, InOrder, Sides
  <2>4. NothingWaits /\ EndsForACause
    BY DEF Init, NothingWaits, EndsForACause, Ended, Sides
  <2> QED
    BY <2>2, <2>3, <2>4 DEF TunnelInv
<1>2. TunnelInv /\ [Next]_vars => TunnelInv'
  <2> SUFFICES ASSUME TunnelInv, [Next]_vars
               PROVE  TunnelInv'
    OBVIOUS
  <2>1. CASE Loop
    BY <2>1, SignalStep, SilentStep, SendStep DEF Loop
  <2>2. CASE \E s \in Sides : Write(s) \/ Read(s) \/ Close(s)
    BY <2>2, SideStep
  <2>3. CASE UNCHANGED vars
    BY <2>3 DEF vars, peers, buffer, TunnelInv, TypeOK, InOrder, NothingWaits, Passed,
                EndsForACause
  <2> QED
    BY <2>1, <2>2, <2>3 DEF Next
<1> QED
  BY <1>1, <1>2, PTL DEF Spec

\* What the sides, the sockets and the loop hold has its type.
THEOREM TunnelTypeCorrect == Spec => []TypeOK
<1>1. TunnelInv => TypeOK
  BY DEF TunnelInv
<1> QED
  BY <1>1, TunnelInvariant, PTL

(***************************************************************************)
(* Through the one buffer each side is sent just the other's bytes, as     *)
(* they were written, without a gap or a repetition, the client after the  *)
(* signal; and when the loop waits in select, all that it has received has *)
(* been sent on.                                                           *)
(***************************************************************************)
THEOREM BytesInOrder == Spec => []PassedInOrder
<1>1. TunnelInv => PassedInOrder
  <2> SUFFICES ASSUME TunnelInv PROVE PassedInOrder
    OBVIOUS
  <2>1. TypeOK /\ InOrder /\ NothingWaits
    BY DEF TunnelInv
  <2>2. \A s \in Sides : Len(delivered[s]) \in Nat
    BY <2>1, SideTypes
  <2>3. delivered["server"] = [i \in 1 .. Len(delivered["server"]) |-> <<"client", i>>]
    <3>1. \A i \in 1 .. Len(delivered["server"]) : Nth("server", i) = <<"client", i>>
      BY DEF Nth
    <3> QED
      BY <2>1, <3>1 DEF InOrder, Stream, Sides
  <2>4. delivered["client"] =
          [i \in 1 .. Len(delivered["client"]) |->
             IF i = 1 THEN ConnectSignal ELSE <<"server", i - 1>>]
    <3>1. \A i \in 1 .. Len(delivered["client"]) :
            Nth("client", i) = IF i = 1 THEN ConnectSignal ELSE <<"server", i - 1>>
      BY DEF Nth
    <3> QED
      BY <2>1, <3>1 DEF InOrder, Stream, Sides
  <2>5. ASSUME pc = "select"
        PROVE  /\ Len(delivered["server"]) = taken["client"]
               /\ Len(delivered["client"]) = taken["server"] + 1
    <3>1. Passed("client") = taken["client"] /\ Passed("server") = taken["server"]
      BY <2>1, <2>5 DEF NothingWaits, Sides
    <3> QED
      BY <2>2, <3>1, SideTypes, <2>1 DEF Passed, Other, Sides
  <2> QED
    BY <2>3, <2>4, <2>5 DEF PassedInOrder
<1> QED
  BY <1>1, TunnelInvariant, PTL

\* The loop is left, or the process killed by SIGPIPE, only after a side has
\* closed its connection.
THEOREM TunnelEndsForACause == Spec => []EndsForACause
<1>1. TunnelInv => EndsForACause
  BY DEF TunnelInv
<1> QED
  BY <1>1, TunnelInvariant, PTL
===============================================================================
