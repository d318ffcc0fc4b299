--------------------------------- MODULE Relay ---------------------------------
(***************************************************************************)
(* Proxy::recv_head_partbody and Proxy::get: passing the response of the   *)
(* origin server on to the browser, and keeping a copy (bf) that do_get    *)
(* parses and may cache.  TCP delivers the response in pieces of any size; *)
(* the code decides from the first piece how it will recognise the end.    *)
(*                                                                         *)
(* A response is a string of bytes of which only these positions matter:   *)
(*   line       where the text "HTTP/1.1 200 OK" ends, with status "200",  *)
(*   field      where the name Content-Length, or the line                 *)
(*              Transfer-Encoding: chunked, ends,                          *)
(*   digits, last   the first and the last digit of the Content-Length,    *)
(*   head       where the header section ends, with its empty line,        *)
(*   ends       every position at which the five bytes read so far are     *)
(*              "0\r\n\r\n": the end of a chunked body, and look-alikes.   *)
(* framing says which of the two headers there is, announced what          *)
(* Content-Length says, body how many bytes follow the header section.     *)
(***************************************************************************)
EXTENDS Integers, SequencesExt

CONSTANTS
  Origin,   \* the responses the origin server may send
  BufSize   \* what one recv can return, 65536 in the code

ResponseShape ==
  [status : {"200", "301"}, framing : {"length", "chunked", "none"}, line : Nat,
   field : Nat, digits : Nat, last : Nat, head : Nat, announced : Nat, body : Nat,
   ends : SUBSET Nat]

\* The length of "0\r\n\r\n".
EndMark == 5

\* The headers follow the status line, the digits their name, and an empty line
\* ends the header section.
ASSUME OriginAssumption == Origin \subseteq ResponseShape
ASSUME LayoutAssumption ==
  \A r \in Origin :
    /\ 0 < r.line /\ r.line <= r.field /\ r.field <= r.head - 4 /\ EndMark < r.head
    /\ r.framing = "length" =>
         r.field < r.digits /\ r.digits <= r.last /\ r.last <= r.head - 4
ASSUME BufSizeAssumption == BufSize \in Nat \ {0}

VARIABLES
  response,  \* what the server sends
  cut,       \* how many of its bytes arrive before the server closes or falls silent
  closes,    \* whether it closes; otherwise it is silent for ever
  browser,   \* whether the browser still is there
  pc,        \* where the relay is, or how it has ended
  consumed,  \* how many bytes recv has returned
  first,     \* how many of them the recv of recv_head_partbody returned
  piece,     \* history: how many the latest recv returned
  bf,        \* the copy, as the positions of its bytes
  buffer,    \* what get has collected of a body with Content-Length
  sent       \* what send has passed on to the browser

peers == <<response, cut, closes>>
vars == <<response, cut, closes, browser, pc, consumed, first, piece, bf, buffer, sent>>

\* Where the relay waits in recv, and how it ends: get returns, ResponseError is
\* thrown (do_get catches it), another exception is thrown (nothing does), or
\* send raises SIGPIPE.
Receiving == {"head", "chunks", "left"}
Ended == {"returned", "failed", "aborted", "killed"}

Length(r) == r.head + r.body

Init ==
  /\ response \in Origin
  /\ cut \in 0 .. Length(response)
  /\ closes \in BOOLEAN
  /\ browser = "open"
  /\ pc = "head"
  /\ consumed = 0
  /\ first = 0
  /\ piece = 0
  /\ bf = <<>>
  /\ buffer = <<>>
  /\ sent = <<>>

-------------------------------------------------------------------------------
\* The n bytes after the first i.
Bytes(i, n) == [j \in 1 .. n |-> i + j]

\* recv returns what has arrived, at least one byte and at most room.
Recv(n, room) ==
  /\ n <= room /\ consumed + n <= cut
  /\ consumed' = consumed + n
  /\ piece' = n
  /\ UNCHANGED <<peers, browser>>

\* To a browser that has closed, send may still succeed, or fail, or, when an
\* earlier one has been answered with a reset, raise SIGPIPE.
SendThen(bytes, location) ==
  \/ /\ sent' = sent \o bytes
     /\ pc' = location
  \/ /\ browser = "closed"
     /\ pc' = "failed" \/ (pc' = "killed" /\ sent # <<>>)
     /\ UNCHANGED sent

\* The last five bytes of a piece of n bytes that ends at position i.
EndsWithMark(i, n) == n >= EndMark /\ i \in response.ends

\* recved.find("\r\n\r\n") in the first n bytes, in an int: -1 when not found.
EndOfHead(n) == IF n >= response.head THEN response.head - 4 ELSE -1

\* stoi of the digits that are among the first n bytes.
Stoi(n) ==
  IF n >= response.last THEN response.announced
  ELSE response.announced \div (10 ^ (response.last - n))

\* Definitions named "Buggy..." are slips this code could have; a run that
\* replaces the definition below by one of them finds a property violated.
BuggyLeftBody(n) == Stoi(n) - (n - EndOfHead(n))  \* the empty line counts as body

\* What recv_head_partbody returns for a response with Content-Length.
LeftBody(n) == Stoi(n) - (n - EndOfHead(n) - 4)

\* Where get waits for chunks, unless the first piece already has the mark.
ChunkedFrom(n) ==
  IF n > EndMark /\ n \in response.ends THEN "returned" ELSE "chunks"

\* How recv_head_partbody and get go on from a first piece of n bytes.  The
\* markers for chunked, -1, and for not modified, -2, are also lengths.
AfterHead(n) ==
  IF response.status # "200" \/ n < response.line THEN "failed"
  ELSE IF response.framing = "none" \/ n < response.field THEN "failed"
  ELSE IF response.framing = "chunked" THEN ChunkedFrom(n)
  ELSE IF n < response.digits THEN "aborted"
  ELSE CASE LeftBody(n) = -1 -> ChunkedFrom(n)
         [] LeftBody(n) \in {-2, 0} -> "returned"
         [] OTHER -> "left"

\* The first piece is sent on before it is looked at.
RecvHead ==
  /\ pc = "head"
  /\ \E n \in 1 .. BufSize :
       /\ Recv(n, BufSize)
       /\ first' = n
       /\ bf' = Bytes(0, n)
       /\ SendThen(Bytes(0, n), AfterHead(n))
  /\ UNCHANGED buffer

BuggyKeep(bytes) == UNCHANGED bf  \* bf.insert is missing

BuggyKeepAll(bytes) ==  \* buffer.resize is missing: the zeros after the bytes are kept
  bf' = bf \o bytes \o <<0>>

Keep(bytes) == bf' = bf \o bytes

RecvChunk ==
  /\ pc = "chunks"
  /\ \E n \in 1 .. BufSize :
       /\ Recv(n, BufSize)
       /\ Keep(Bytes(consumed, n))
       /\ SendThen(Bytes(consumed, n),
                   IF EndsWithMark(consumed + n, n) THEN "returned" ELSE "chunks")
  /\ UNCHANGED <<first, buffer>>

BuggyRoom == BufSize - Len(buffer)  \* buffer.resize is missing

\* buffer is enlarged after every recv by what a recv can return.
Room == BufSize

BuggyEnough(len) == len > LeftBody(first)  \* the loop waits for one byte too many

Enough(len) == len >= LeftBody(first)

BuggyRestOf(collected) == bf \o collected  \* bf, not buffer, is sent at the end

RestOf(collected) == collected

\* The rest of the body is collected and sent in one piece.
RecvLeft ==
  /\ pc = "left"
  /\ \E n \in 1 .. BufSize :
       LET collected == buffer \o Bytes(consumed, n)
       IN  /\ Recv(n, Room)
           /\ buffer' = collected
           /\ IF Enough(Len(collected))
              THEN Keep(collected) /\ SendThen(RestOf(collected), "returned")
              ELSE UNCHANGED <<bf, sent, pc>>
  /\ UNCHANGED first

\* recv returns 0 when the server has closed, and when it is given no room.  There
\* is no timeout: a server that is silent keeps it waiting.
RecvNothing ==
  /\ pc \in Receiving
  /\ \/ consumed = cut /\ closes
     \/ pc = "left" /\ Room = 0
  /\ pc' = "failed"
  /\ UNCHANGED <<peers, browser, consumed, first, piece, bf, buffer, sent>>

BrowserCloses ==
  /\ browser = "open" /\ pc \in Receiving
  /\ browser' = "closed"
  /\ UNCHANGED <<peers, pc, consumed, first, piece, bf, buffer, sent>>

Get == RecvHead \/ RecvChunk \/ RecvLeft \/ RecvNothing

Next == Get \/ BrowserCloses

Spec == Init /\ [][Next]_vars

\* The handler's thread runs whenever recv has something to return.
FairSpec == Spec /\ WF_vars(Get)

-------------------------------------------------------------------------------
TypeOK ==
  /\ response \in Origin
  /\ cut \in 0 .. Length(response)
  /\ closes \in BOOLEAN
  /\ browser \in {"open", "closed"}
  /\ pc \in Receiving \cup Ended
  /\ consumed \in 0 .. cut
  /\ first \in 0 .. consumed
  /\ piece \in 0 .. consumed
  /\ {bf, buffer, sent} \subseteq Seq(1 .. cut)   \* no byte that has not arrived

\* The code can recognise the end of this response: a Content-Length that is
\* right and a header section that has come in one piece, or a chunked body in
\* which only its end looks like one.
Regular ==
  \/ /\ response.framing = "length"
     /\ response.announced = response.body
     /\ first >= response.head
  \/ /\ response.framing = "chunked"
     /\ response.ends = {Length(response)}

(***************************************************************************)
(* The browser is sent the response from its first byte on, with nothing   *)
(* left out, repeated or reordered, however recv cuts it into pieces; what *)
(* has been received but not sent is only what get still collects.         *)
(***************************************************************************)
SentInOrder ==
  /\ sent = Bytes(0, Len(sent))
  /\ pc \in Receiving => sent \o buffer = Bytes(0, consumed)

(***************************************************************************)
(* When get returns, the copy that do_get parses and caches is byte for    *)
(* byte what the browser was sent.                                         *)
(***************************************************************************)
KeptIsSent == pc = "returned" => bf = sent

\* When get returns from a regular response, the browser has all of it.
WholeWhenReturned ==
  pc = "returned" /\ Regular => Len(sent) = Length(response)

(***************************************************************************)
(* get throws ResponseError for a regular 200 response only when one of    *)
(* its peers is gone (the server closed before its end, or the browser     *)
(* did, or the server closed after a chunked response whose end was split  *)
(* over two pieces), or when the first piece has not got to the header it  *)
(* looks for.  Another exception leaves it only when that piece ends       *)
(* between the name Content-Length and its digits, and SIGPIPE ends the    *)
(* process only when the browser has closed.                               *)
(***************************************************************************)
EndHasCause ==
  /\ pc = "failed" /\ Regular /\ response.status = "200" =>
       \/ closes /\ consumed = cut /\ cut < Length(response)
       \/ browser = "closed"
       \/ first < response.field
       \/ response.framing = "chunked" /\ closes /\ piece < EndMark
  /\ pc = "aborted" =>
       response.framing = "length" /\ first \in response.field .. response.digits - 1
  /\ pc = "killed" => browser = "closed"

(***************************************************************************)
(* The relay ends when the server closes, whatever it has sent before, and *)
(* it need not close: once the whole of a regular response with Content-   *)
(* Length has come, the relay ends too.  (recv has no timeout, so a server *)
(* that falls silent midway holds it for ever.)                            *)
(***************************************************************************)
RelayEnds ==
  /\ pc \in Receiving
  /\ \/ closes
     \/ Regular /\ response.framing = "length" /\ cut = Length(response)
  ~> pc \in Ended

-------------------------------------------------------------------------------
(* What the repository says of the program, and the code does not do.      *)

\* "every time we receive the response from server, we check if the last 5
\* chars are 0\r\n\r\n.  If yes, we stop" (dangerlog.txt).
EndIsSeen == pc = "chunks" => consumed \notin response.ends
===============================================================================
