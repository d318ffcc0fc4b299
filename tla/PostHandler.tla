------------------------------ MODULE PostHandler ------------------------------
(***************************************************************************)
(* Proxy::doPost and Proxy::receiveAll: the answer to a POST is read with  *)
(* one recv, parsed, and read on until as many body bytes have come as its *)
(* Content-Length says; then all of it is sent to the browser at once.     *)
(*                                                                         *)
(* The first piece lies in an uninitialised array and is parsed as a C     *)
(* string: it stops at the first zero byte, of the response or of what the *)
(* array held before.  Without a Content-Length, contentLen is             *)
(* uninitialised.  The body that the parser hands out begins at the empty  *)
(* line, so that two bytes which end the header section count as body.     *)
(*                                                                         *)
(* A response is a record of the lengths of its header section (with the   *)
(* empty line) and body, of what Content-Length announces, Absent without  *)
(* one, of the positions of the body's zero bytes, and of what the         *)
(* constructors of HttpParser and HttpResponse do with the whole header    *)
(* section: they return, throw, or go round for ever (over a date).        *)
(***************************************************************************)
EXTENDS Integers, SequencesExt

CONSTANTS
  Origin,     \* the responses the origin server may send
  Absent,     \* no Content-Length
  BufSize,    \* MAXSIZE, what the first recv can return
  ChunkSize,  \* what a recv of receiveAll can return, 1024 in the code
  Remains,    \* how many bytes there may be in the array up to a zero byte
  MaxInt      \* the largest int, 2^31 - 1 in the code

\* An int from a number that does not fit: there are Wrap ints.
Wrap == 2 * (MaxInt + 1)
ToInt(i) == ((i + MaxInt + 1) % Wrap) - MaxInt - 1

\* Uninitialised ints: the boundaries, and some between them.
Uninitialised == {-MaxInt - 1, -1, 0, 3, MaxInt}

EmptyLine == 2  \* the length of the line that ends the header section

ResponseShape ==
  [head      : Nat,
   body      : Nat,
   announced : 0 .. MaxInt \cup {Absent},
   zeros     : SUBSET Nat,
   parse     : {"returns", "throws", "spins"}]

ASSUME OriginAssumption ==
  \A r \in Origin :
    /\ r \in ResponseShape /\ r.head >= EmptyLine
    /\ \A z \in r.zeros : z \in r.head .. r.head + r.body - 1
ASSUME SizesAssumption ==
  {BufSize, ChunkSize, MaxInt} \subseteq Nat \ {0} /\ Remains \subseteq Nat
ASSUME AbsentAssumption == Absent \notin Nat

VARIABLES
  response,  \* what the server sends
  cut,       \* how many of its bytes arrive before the server closes or is silent
  closes,    \* "no", "fin" or "reset": whether and how it closes the connection then
  pc,        \* where the handler is, or how it has ended
  first,     \* res_msg_sz: how many bytes the first recv returned
  remains,   \* what parsing found in the array after them, when it got there
  left,      \* residual_len
  residual,  \* msg of receiveAll, as the positions of its bytes
  sent       \* what has been sent to the browser

server == <<response, cut, closes>>
vars == <<server, pc, first, remains, left, residual, sent>>

\* How doPost ends; "thrown": an exception leaves the thread.  In "parsing" a
\* constructor goes round for ever.
Ended == {"answered", "unanswered", "badGateway", "thrown"}

Length(r) == r.head + r.body

\* A server that is silent from the start may be waiting for the rest of a
\* request: doPost passes on what the recv of handleRequest returned.
Init ==
  /\ response \in Origin
  /\ cut \in 0 .. Length(response)
  /\ closes \in {"no", "fin", "reset"}
  /\ pc = "first"
  /\ first = 0 /\ remains = 0 /\ left = 0
  /\ residual = <<>> /\ sent = <<>>

-------------------------------------------------------------------------------
\* The n bytes after the first i.
Bytes(i, n) == [j \in 1 .. n |-> i + j]

\* The length of res_msg as a C string: m bytes of the array's old content
\* follow the n received.
StringLength(n, m) ==
  LET zeros == {z \in response.zeros : z < n}
  IN  IF zeros = {} THEN n + m ELSE Min(zeros)

\* Definitions named "Buggy..." are slips this code could have; a run that
\* replaces the definition below by one of them finds a property violated.
BuggyLeft(length, n, m) == ToInt(length - StringLength(n, m))  \* all of it is body

\* The length of getBody(): from the empty line on.
BodyLength(n, m) == StringLength(n, m) - (response.head - EmptyLine)

\* What of the announced length receiveAll is to wait for.
Left(length, n, m) == ToInt(length - BodyLength(n, m))

ContentLen == IF response.announced = Absent THEN Uninitialised ELSE {response.announced}

\* What the constructors make of a first piece without the end of the headers:
\* they throw or do not end, or find an end in the old content of the array.
ParseCut(m) ==
  \/ pc' \in {"parsing", "thrown"} /\ UNCHANGED left
  \/ m > 0 /\ pc' = "rest" /\ left' \in Uninitialised

\* What they make of one with the end of the headers.
ParseWhole(n, m) ==
  \/ /\ response.parse = "returns"
     /\ pc' = "rest"
     /\ \E length \in ContentLen : left' = Left(length, n, m)
  \/ response.parse = "throws" /\ pc' = "thrown" /\ UNCHANGED left
  \/ response.parse = "spins" /\ pc' = "parsing" /\ UNCHANGED left

RecvFirst ==
  /\ pc = "first"
  /\ \E n \in 1 .. BufSize, m \in Remains :
       /\ n <= cut
       /\ first' = n
       /\ remains' = m
       /\ IF n < response.head THEN ParseCut(m) ELSE ParseWhole(n, m)
  /\ UNCHANGED <<server, residual, sent>>

\* 0 is only logged, -1 is answered with 502.
RecvNone ==
  /\ pc = "first" /\ cut = 0 /\ closes # "no"
  /\ pc' = IF closes = "fin" THEN "unanswered" ELSE "badGateway"
  /\ UNCHANGED <<server, first, remains, left, residual, sent>>

BuggyEnough == Len(residual) >= left % Wrap  \* compared as size_t

Enough == Len(residual) >= left

BuggyReceived(n) ==  \* the chunk is appended as a C string
  SelectSeq(Bytes(first + Len(residual), n), LAMBDA i : i - 1 \notin response.zeros)

Received(n) == Bytes(first + Len(residual), n)

RecvRest ==
  /\ pc = "rest" /\ ~Enough
  /\ \E n \in 1 .. ChunkSize :
       /\ first + Len(residual) + n <= cut
       /\ residual' = residual \o Received(n)
  /\ UNCHANGED <<server, pc, first, remains, left, sent>>

\* receiveAll returns, also when the connection has been closed.
Send ==
  /\ pc = "rest"
  /\ Enough \/ (first + Len(residual) = cut /\ closes # "no")
  /\ sent' = Bytes(0, first) \o residual
  /\ pc' = "answered"
  /\ UNCHANGED <<server, first, remains, left, residual>>

DoPost == RecvFirst \/ RecvNone \/ RecvRest \/ Send

\* The handler's thread runs whenever recv has something to return.
Spec == Init /\ [][DoPost]_vars /\ WF_vars(DoPost)

-------------------------------------------------------------------------------
\* The announced length is right, and the header section came in one piece.
Regular == response.announced = response.body /\ first >= response.head

(***************************************************************************)
(* What the browser is sent is what was received, from the first byte on   *)
(* and in order, with nothing lost at the zero bytes and nothing of the    *)
(* array's old content in it.                                              *)
(***************************************************************************)
SentIsReceived ==
  pc = "answered" => sent = Bytes(0, first + Len(residual))

(***************************************************************************)
(* The browser is sent only a part of a regular response when the server   *)
(* closed before its end, when old content of the array counted as a part  *)
(* of the body, or without one or both of the last two bytes, because the  *)
(* empty line counted as body: these it loses only when a recv ended       *)
(* before them, and never when zero bytes hid two or more bytes of the     *)
(* first piece.  It is sent nothing at all when the server closed before   *)
(* its answer, or the constructors did not return: on a first piece that   *)
(* ended within the headers, or on headers they cannot read.               *)
(***************************************************************************)
LossHasCause ==
  /\ pc = "answered" /\ Regular /\ Len(sent) < Length(response) =>
       \/ closes # "no" /\ Len(sent) = cut
       \/ remains > 0 /\ StringLength(first, remains) > first
       \/ /\ Length(response) - Len(sent) <= EmptyLine
          /\ first - StringLength(first, remains) < EmptyLine
  /\ pc \in {"unanswered", "badGateway"} => cut = 0 /\ closes # "no"
  /\ pc = "thrown" => first < response.head \/ response.parse = "throws"
  /\ pc = "parsing" => first < response.head \/ response.parse = "spins"

(***************************************************************************)
(* The handler comes to an end when the server closes the connection, and  *)
(* without that when all of a regular response has come, unless a zero     *)
(* byte in the first piece hid more of it than the empty line makes up     *)
(* for.  Only the constructors may go round for ever, on a header section  *)
(* cut off or one with a date that does not end in GMT.                    *)
(***************************************************************************)
PostEnds ==
  (\/ closes # "no"
   \/ /\ pc = "rest" /\ Regular /\ cut = Length(response)
      /\ first - StringLength(first, remains) <= EmptyLine)
    ~> pc \in Ended \cup {"parsing"}
===============================================================================
