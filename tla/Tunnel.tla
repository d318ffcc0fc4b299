-------------------------------- MODULE Tunnel ---------------------------------
(***************************************************************************)
(* Proxy::connect: the loop that passes bytes between a browser and a      *)
(* server after a CONNECT request.  One thread waits in select for both    *)
(* sockets, receives from those that are ready, the server first, and      *)
(* sends what it has received to the other side with a send that blocks    *)
(* until the other side's window has room.  The two directions share one   *)
(* buffer, msg, which only memset and recv write and only send reads.      *)
(*                                                                         *)
(* A byte is a pair of its writer and its number in what that one writes.  *)
(***************************************************************************)
EXTENDS Integers, SequencesExt

CONSTANTS
  RecvSize,  \* the size of msg, 65536 in the code
  Window,    \* how many bytes TCP holds for a side that does not read
  MaxBytes   \* bound: a side writes no more bytes than this

ASSUME SizesAssumption ==
  RecvSize \in Nat \ {0} /\ Window \in Nat /\ Window >= RecvSize /\ MaxBytes \in Nat

Sides == {"client", "server"}

Other(s) == IF s = "client" THEN "server" ELSE "client"

Bytes == {"client", "server", "proxy"} \X Nat

Zero == <<"proxy", 0>>           \* what memset writes
ConnectSignal == <<"proxy", 1>>  \* connect_signal, the proxy's "200 OK"

VARIABLES
  written,    \* written[s]: how many bytes side s has written
  open,       \* open[s]: side s has not closed its connection
  taken,      \* taken[s]: how many of its bytes recv has returned
  delivered,  \* delivered[s]: the bytes that have been sent to side s
  read,       \* read[s]: how many of them it has read
  msg, len,   \* what the last recv has written to the buffer, and its length
  ready,      \* the sockets the last select has left in fds
  pc, turn    \* where the loop is, and at which socket

peers == <<written, open, read>>
buffer == <<msg, len>>
vars == <<peers, taken, delivered, buffer, ready, pc, turn>>

Init ==
  /\ written = [s \in Sides |-> 0]
  /\ open = [s \in Sides |-> TRUE]
  /\ taken = [s \in Sides |-> 0]
  /\ delivered = [s \in Sides |-> <<>>]
  /\ read = [s \in Sides |-> 0]
  /\ msg = [i \in 1 .. RecvSize |-> Zero]
  /\ len = 0
  /\ ready = {}
  /\ pc = "signal"
  /\ turn = "server"

-------------------------------------------------------------------------------
(* The two sides.                                                          *)

Write(s) ==
  /\ open[s] /\ written[s] < MaxBytes
  /\ written[s] - taken[s] < Window
  /\ written' = [written EXCEPT ![s] = @ + 1]
  /\ UNCHANGED <<open, taken, delivered, read, buffer, ready, pc, turn>>

Read(s) ==
  /\ open[s] /\ read[s] < Len(delivered[s])
  /\ read' = [read EXCEPT ![s] = Len(delivered[s])]
  /\ UNCHANGED <<written, open, taken, delivered, buffer, ready, pc, turn>>

Close(s) ==
  /\ open[s]
  /\ open' = [open EXCEPT ![s] = FALSE]
  /\ UNCHANGED <<written, taken, delivered, read, buffer, ready, pc, turn>>

-------------------------------------------------------------------------------
(* The loop.                                                               *)

Readable(s) == taken[s] < written[s] \/ ~open[s]

\* A send to an open side waits for room in its window.  To a closed one it may
\* still succeed, or fail, or, when it has been reset before, raise SIGPIPE.
HasRoom(s, n) == Len(delivered[s]) - read[s] + n <= Window

\* Definitions named "Buggy..." are slips this code could have; a run that
\* replaces the definition below by one of them finds a property violated.
BuggyFilled(n) ==  \* without memset, recv goes on behind what msg holds, as in get
  [i \in 1 .. RecvSize |->
     IF i \in len + 1 .. len + n THEN <<turn, taken[turn] + i - len>> ELSE msg[i]]

\* msg, once memset has cleared it and recv written n bytes to its beginning.
Filled(n) ==
  [i \in 1 .. RecvSize |-> IF i <= n THEN <<turn, taken[turn] + i>> ELSE Zero]

\* The return value of the send of connect_signal is not looked at.
Signal ==
  /\ pc = "signal"
  /\ delivered' = [delivered EXCEPT !["client"] = <<ConnectSignal>>]
  /\ pc' = "select"
  /\ UNCHANGED <<peers, taken, buffer, ready, turn>>

BuggyReadableOfBackup ==  \* fds itself is given to select
  {s \in Sides : Readable(s) /\ (ready = {} \/ s \in ready)}

\* fds, before select, is restored from backup, which holds both sockets.
ReadableOfBackup == {s \in Sides : Readable(s)}

Select ==
  /\ pc = "select"
  /\ ready' = ReadableOfBackup
  /\ ready' # {}
  /\ turn' = IF "server" \in ready' THEN "server" ELSE "client"
  /\ pc' = "recv"
  /\ UNCHANGED <<peers, taken, delivered, buffer>>

Recv ==
  /\ pc = "recv"
  /\ \E n \in 1 .. RecvSize :
       /\ taken[turn] + n <= written[turn]
       /\ taken' = [taken EXCEPT ![turn] = @ + n]
       /\ msg' = Filled(n)
       /\ len' = n
  /\ pc' = "send"
  /\ UNCHANGED <<peers, delivered, ready, turn>>

BuggyRecvEnd ==  \* the -1 that recv returns is taken for a length
  /\ pc = "recv" /\ ~open[turn]
  /\ taken' = [taken EXCEPT ![turn] = @ - 1]
  /\ pc' = "select"
  /\ UNCHANGED <<peers, delivered, buffer, ready, turn>>

\* recv returns 0: the side has closed and everything it wrote has been taken;
\* or -1: its connection was reset.  The loop returns.
RecvEnd ==
  /\ pc = "recv" /\ ~open[turn]
  /\ msg' = Filled(0)
  /\ pc' = "returned"
  /\ UNCHANGED <<peers, taken, delivered, len, ready, turn>>

\* After the server's bytes, those of the client if select had found it ready.
AfterSend ==
  IF turn = "server" /\ "client" \in ready
  THEN pc' = "recv" /\ turn' = "client"
  ELSE pc' = "select" /\ UNCHANGED turn

Send ==
  /\ pc = "send"
  /\ LET to == Other(turn)
     IN  /\ ~open[to] \/ HasRoom(to, len)
         /\ delivered' = [delivered EXCEPT ![to] = @ \o SubSeq(msg, 1, len)]
  /\ AfterSend
  /\ UNCHANGED <<peers, taken, buffer, ready>>

BuggySendEnd ==  \* a send that has to wait is taken for one that fails
  /\ pc = "send"
  /\ ~HasRoom(Other(turn), len)
  /\ pc' = "returned"
  /\ UNCHANGED <<peers, taken, delivered, buffer, ready, turn>>

\* send returns -1, on which the loop returns, or the process gets SIGPIPE.
SendEnd ==
  /\ pc = "send" /\ ~open[Other(turn)]
  /\ pc' = "returned" \/ (pc' = "killed" /\ delivered[Other(turn)] # <<>>)
  /\ UNCHANGED <<peers, taken, delivered, buffer, ready, turn>>

Loop == Signal \/ Select \/ Recv \/ RecvEnd \/ Send \/ SendEnd

Next == Loop \/ \E s \in Sides : Write(s) \/ Read(s) \/ Close(s)

Spec == Init /\ [][Next]_vars

\* The thread runs, and a side that is connected reads what it is sent.
FairSpec == Spec /\ WF_vars(Loop) /\ \A s \in Sides : WF_vars(Read(s))

-------------------------------------------------------------------------------
Ended == {"returned", "killed"}

TypeOK ==
  /\ {written, taken, read} \subseteq [Sides -> Nat]
  /\ open \in [Sides -> BOOLEAN]
  /\ delivered \in [Sides -> Seq(Bytes)]
  /\ msg \in [1 .. RecvSize -> Bytes] /\ len \in 0 .. RecvSize
  /\ ready \subseteq Sides
  /\ pc \in {"signal", "select", "recv", "send"} \cup Ended
  /\ turn \in Sides

(***************************************************************************)
(* Although both directions go through one buffer, each side is sent just  *)
(* the other's bytes, in the order they were written, none left out or     *)
(* repeated, none of the ones it wrote itself and no rest of an earlier    *)
(* turn, and the client the signal before them; and nothing the loop has   *)
(* received waits while it waits in select.                                *)
(***************************************************************************)
PassedInOrder ==
  /\ delivered["server"] = [i \in 1 .. Len(delivered["server"]) |-> <<"client", i>>]
  /\ delivered["client"] =
       [i \in 1 .. Len(delivered["client"]) |->
          IF i = 1 THEN ConnectSignal ELSE <<"server", i - 1>>]
  /\ pc = "select" => /\ Len(delivered["server"]) = taken["client"]
                      /\ Len(delivered["client"]) = taken["server"] + 1

\* The tunnel ends only when a side has closed: a side that is slow to read, or
\* has nothing to say, does not end it.
EndsForACause == pc \in Ended => \E s \in Sides : ~open[s]

(***************************************************************************)
(* What a side has written is passed on, whatever the other does at the    *)
(* same time, or the tunnel ends.                                          *)
(***************************************************************************)
EverythingIsPassed ==
  \A n \in 1 .. MaxBytes :
    /\ written["client"] >= n ~> Len(delivered["server"]) >= n \/ pc \in Ended
    /\ written["server"] >= n ~> Len(delivered["client"]) > n \/ pc \in Ended
===============================================================================
