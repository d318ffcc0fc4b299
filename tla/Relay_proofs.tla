------------------------------ MODULE Relay_proofs ------------------------------
(***************************************************************************)
(* What get passes on and keeps of a response, and why it ends, for every  *)
(* response, every size of the buffer and every way in which recv cuts the *)
(* response into pieces.                                                   *)
(***************************************************************************)
EXTENDS Relay, SequenceTheorems, TLAPS

\* What the three buffers hold at each place where get waits.
Collected ==
  /\ pc = "head" => consumed = 0 /\ bf = <<>> /\ buffer = <<>> /\ sent = <<>>
  /\ pc = "chunks" => bf = Bytes(0, consumed) /\ buffer = <<>> /\ sent = bf
  /\ pc = "left" => /\ bf = Bytes(0, first) /\ sent = bf
                    /\ buffer = Bytes(first, consumed - first)
  /\ pc = "returned" => bf = sent
  /\ sent = Bytes(0, Len(sent))

(***************************************************************************)
(* Where get still waits for bytes of a regular response, it waits in the  *)
(* loop for its framing, and either there are more to come or the mark at  *)
(* their end has been split over two pieces.                               *)
(***************************************************************************)
WaitsForMore ==
  /\ pc = "chunks" /\ Regular =>
       response.framing = "chunked" /\ (consumed \in response.ends => piece < EndMark)
  /\ pc = "left" /\ Regular =>
       response.framing = "length" /\ consumed < Length(response)

RelayInv == TypeOK /\ Collected /\ WaitsForMore /\ WholeWhenReturned /\ EndHasCause

\* Regular, of a response whose first piece has n bytes.
RegularFrom(n) ==
  \/ /\ response.framing = "length"
     /\ response.announced = response.body
     /\ n >= response.head
  \/ /\ response.framing = "chunked"
     /\ response.ends = {Length(response)}
-------------------------------------------------------------------------------
\* Bytes is a sequence of positions, as long as it says.
LEMMA BytesType ==
  ASSUME NEW i \in Nat, NEW n \in Nat
  PROVE  Bytes(i, n) \in Seq(Nat) /\ Len(Bytes(i, n)) = n
BY IsASeq DEF Bytes

\* Its bytes have arrived when the last of them has.
LEMMA BytesArrived ==
  ASSUME NEW i \in Nat, NEW n \in Nat, NEW t \in Nat, i + n <= t
  PROVE  Bytes(i, n) \in Seq(1 .. t)
<1>1. \A j \in 1 .. n : i + j \in 1 .. t
  OBVIOUS
<1> QED
  BY <1>1, IsASeq DEF Bytes

\* A run of bytes and the run that begins where it ends are one run.
LEMMA BytesConcat ==
  ASSUME NEW i \in Nat, NEW m \in Nat, NEW n \in Nat
  PROVE  Bytes(i, m) \o Bytes(i + m, n) = Bytes(i, m + n)
BY DEF Bytes

\* A response's layout, and how far the relay has got in it.
LEMMA ResponseType ==
  ASSUME TypeOK
  PROVE  /\ response.head \in Nat /\ response.body \in Nat /\ response.field \in Nat
         /\ response.line \in Nat /\ response.digits \in Nat /\ response.last \in Nat
         /\ response.announced \in Nat /\ response.ends \subseteq Nat
         /\ response.status \in {"200", "301"}
         /\ response.framing \in {"length", "chunked", "none"}
         /\ 0 < response.line /\ response.line <= response.field
         /\ response.field <= response.head - 4 /\ EndMark < response.head
         /\ response.framing = "length" =>
              /\ response.field < response.digits /\ response.digits <= response.last
              /\ response.last <= response.head - 4
         /\ Length(response) = response.head + response.body
         /\ Length(response) \in Nat
         /\ cut \in Nat /\ consumed \in Nat /\ first \in Nat /\ piece \in Nat
         /\ first <= consumed /\ piece <= consumed /\ consumed <= cut
         /\ cut <= Length(response)
<1>1. response \in Origin /\ response \in ResponseShape
  BY OriginAssumption DEF TypeOK
<1>2. /\ response.head \in Nat /\ response.body \in Nat /\ response.field \in Nat
      /\ response.line \in Nat /\ response.digits \in Nat /\ response.last \in Nat
      /\ response.announced \in Nat /\ response.ends \subseteq Nat
      /\ response.status \in {"200", "301"}
      /\ response.framing \in {"length", "chunked", "none"}
  BY <1>1 DEF ResponseShape
<1>3. Length(response) = response.head + response.body /\ Length(response) \in Nat
  BY <1>2 DEF Length
<1>4. /\ cut \in Nat /\ cut <= Length(response)
      /\ consumed \in Nat /\ consumed <= cut
      /\ first \in Nat /\ first <= consumed
      /\ piece \in Nat /\ piece <= consumed
  <2>1. cut \in Nat /\ cut <= Length(response)
    BY <1>3 DEF TypeOK
  <2>2. consumed \in Nat /\ consumed <= cut
    BY <2>1 DEF TypeOK
  <2> QED
    BY <2>1, <2>2 DEF TypeOK
<1> QED
  BY <1>1, <1>2, <1>3, <1>4, LayoutAssumption

-------------------------------------------------------------------------------
(***************************************************************************)
(* What the first piece of a regular response makes of the relay.  A       *)
(* Content-Length that is right leaves exactly the bytes still to come; it *)
(* never looks like one of the markers for chunked and for not modified.   *)
(***************************************************************************)
LEMMA LeftBodyIsRest ==
  ASSUME TypeOK, NEW n \in Nat, response.framing = "length", RegularFrom(n)
  PROVE  LeftBody(n) = Length(response) - n
<1>1. n >= response.head /\ response.announced = response.body
  BY ResponseType DEF RegularFrom
<1>2. n >= response.last
  BY <1>1, ResponseType
<1>3. Stoi(n) = response.announced
  BY <1>2 DEF Stoi
<1>4. EndOfHead(n) = response.head - 4
  BY <1>1 DEF EndOfHead
<1> QED
  BY <1>1, <1>3, <1>4, ResponseType DEF LeftBody

\* Where get goes on after a first piece of n bytes, and why.
LEMMA AfterHeadOf ==
  ASSUME TypeOK, NEW n \in Nat \ {0}
  PROVE  /\ AfterHead(n) \in {"failed", "aborted", "returned", "chunks", "left"}
         /\ AfterHead(n) = "aborted" =>
              response.framing = "length" /\ n \in response.field .. response.digits - 1
         /\ RegularFrom(n) /\ response.status = "200" /\ AfterHead(n) = "failed" =>
              n < response.field
         /\ RegularFrom(n) /\ n <= Length(response) =>
              /\ AfterHead(n) = "returned" => n = Length(response)
              /\ AfterHead(n) = "chunks" =>
                   response.framing = "chunked" /\ n \notin response.ends
              /\ AfterHead(n) = "left" =>
                   response.framing = "length" /\ n < Length(response)
<1>1. CASE response.status # "200" \/ n < response.line
  <2>1. AfterHead(n) = "failed"
    BY <1>1 DEF AfterHead
  <2> QED
    BY <1>1, <2>1, ResponseType
<1>2. CASE /\ ~(response.status # "200" \/ n < response.line)
           /\ response.framing = "none" \/ n < response.field
  <2>1. AfterHead(n) = "failed"
    BY <1>2 DEF AfterHead
  <2> QED
    BY <1>2, <2>1, ResponseType DEF RegularFrom
<1>3. CASE /\ response.status = "200" /\ n >= response.line /\ n >= response.field
           /\ response.framing = "chunked"
  <2>1. AfterHead(n) = ChunkedFrom(n)
    BY <1>3, ResponseType DEF AfterHead
  <2>2. AfterHead(n) = IF n > EndMark /\ n \in response.ends THEN "returned" ELSE "chunks"
    BY <2>1 DEF ChunkedFrom
  <2>3. RegularFrom(n) => response.ends = {Length(response)}
    BY <1>3 DEF RegularFrom
  <2>4. EndMark \in Nat /\ Length(response) > EndMark
    BY ResponseType DEF EndMark
  <2> QED
    BY <1>3, <2>2, <2>3, <2>4
<1>4. CASE /\ response.status = "200" /\ n >= response.line /\ n >= response.field
           /\ response.framing = "length" /\ n < response.digits
  <2>1. AfterHead(n) = "aborted"
    BY <1>4, ResponseType DEF AfterHead
  <2>2. n \in response.field .. response.digits - 1
    BY <1>4, ResponseType
  <2> QED
    BY <1>4, <2>1, <2>2
<1>5. CASE /\ response.status = "200" /\ n >= response.line /\ n >= response.field
           /\ response.framing = "length" /\ n >= response.digits
  <2>1. AfterHead(n) = CASE LeftBody(n) = -1 -> ChunkedFrom(n)
                         [] LeftBody(n) \in {-2, 0} -> "returned"
                         [] OTHER -> "left"
    BY <1>5, ResponseType DEF AfterHead
  <2>2. AfterHead(n) \in {"returned", "chunks", "left"}
    BY <2>1 DEF ChunkedFrom
  <2>3. ASSUME RegularFrom(n), n <= Length(response)
        PROVE  /\ AfterHead(n) = "returned" => n = Length(response)
               /\ AfterHead(n) = "left" => n < Length(response)
               /\ AfterHead(n) # "chunks"
    <3>1. LeftBody(n) = Length(response) - n
      BY <1>5, <2>3, LeftBodyIsRest
    <3>2. LeftBody(n) \in Nat
      BY <2>3, <3>1, ResponseType
    <3>3. CASE LeftBody(n) = 0
      BY <2>1, <3>1, <3>3, ResponseType
    <3>4. CASE LeftBody(n) # 0
      BY <2>1, <2>3, <3>1, <3>2, <3>4, ResponseType
    <3> QED
      BY <3>3, <3>4
  <2> QED
    BY <1>5, <2>2, <2>3
<1> QED
  BY <1>1, <1>2, <1>3, <1>4, <1>5, ResponseType

-------------------------------------------------------------------------------
\* What one recv and one send do to the state.
LEMMA RecvOf ==
  ASSUME TypeOK, NEW n \in 1 .. BufSize, NEW room, Recv(n, room)
  PROVE  /\ n \in Nat /\ n > 0 /\ consumed' = consumed + n /\ piece' = n
         /\ consumed' \in 0 .. cut /\ piece' \in 0 .. consumed'
         /\ UNCHANGED <<response, cut, closes, browser>>
BY BufSizeAssumption, ResponseType DEF Recv, peers

\* send passes all bytes on, or fails because the browser has closed.
LEMMA SendThenOf ==
  ASSUME NEW bytes, NEW location, SendThen(bytes, location)
  PROVE  \/ sent' = sent \o bytes /\ pc' = location
         \/ sent' = sent /\ pc' \in {"failed", "killed"} /\ browser = "closed"
BY DEF SendThen

\* A send that fails leaves everything that the invariant speaks of as it is.
LEMMA SendFails ==
  ASSUME RelayInv, TypeOK', sent' = sent, pc' \in {"failed", "killed"},
         browser' = "closed"
  PROVE  RelayInv'
BY DEF RelayInv, Collected, WaitsForMore, WholeWhenReturned, EndHasCause

\* recv_head_partbody, and what get does with what it returns.
LEMMA RecvHeadStep ==
  ASSUME RelayInv, RecvHead
  PROVE  RelayInv'
<1>1. TypeOK /\ pc = "head" /\ consumed = 0 /\ buffer = <<>> /\ sent = <<>>
  BY DEF RelayInv, RecvHead, Collected
<1>2. PICK n \in 1 .. BufSize :
        /\ Recv(n, BufSize) /\ first' = n /\ bf' = Bytes(0, n)
        /\ SendThen(Bytes(0, n), AfterHead(n)) /\ UNCHANGED buffer
  BY DEF RecvHead
<1>3. /\ n \in Nat \ {0} /\ consumed' = n /\ piece' = n /\ n <= cut
      /\ consumed' \in 0 .. cut /\ piece' \in 0 .. consumed'
      /\ UNCHANGED <<response, cut, closes, browser>>
  BY <1>1, <1>2, RecvOf DEF Recv
<1>4. Bytes(0, n) \in Seq(1 .. cut) /\ Len(Bytes(0, n)) = n
  <2>1. 0 \in Nat /\ cut \in Nat /\ 0 + n <= cut
    BY <1>1, <1>3, ResponseType
  <2> QED
    BY <1>3, <2>1, BytesType, BytesArrived
<1>5. \/ sent' = Bytes(0, n) /\ pc' = AfterHead(n)
      \/ sent' = sent /\ pc' \in {"failed", "killed"} /\ browser = "closed"
  BY <1>1, <1>2, <1>4, SendThenOf
<1>6. AfterHead(n) \in {"failed", "aborted", "returned", "chunks", "left"}
  BY <1>1, <1>3, AfterHeadOf
<1>7. TypeOK'
  <2>1. sent' \in Seq(1 .. cut) /\ bf' \in Seq(1 .. cut) /\ buffer' \in Seq(1 .. cut)
    BY <1>1, <1>2, <1>4, <1>5 DEF TypeOK
  <2>2. first' \in 0 .. consumed'
    BY <1>2, <1>3
  <2>3. pc' \in Receiving \cup Ended
    BY <1>5, <1>6 DEF Receiving, Ended
  <2> QED
    BY <1>1, <1>3, <2>1, <2>2, <2>3 DEF TypeOK
<1>8. CASE sent' = sent /\ pc' \in {"failed", "killed"} /\ browser = "closed"
  BY <1>3, <1>7, <1>8, SendFails
<1>9. CASE sent' = Bytes(0, n) /\ pc' = AfterHead(n)
  <2>1. Regular' <=> RegularFrom(n)
    BY <1>2, <1>3 DEF Regular, RegularFrom
  <2>2. n <= Length(response)
    BY <1>1, <1>3, ResponseType
  <2>3. Length(response)' = Length(response)
    BY <1>3 DEF Length
  <2>4. Collected'
    <3>1. Bytes(first', consumed' - first') = <<>>
      BY <1>2, <1>3 DEF Bytes
    <3> QED
      BY <1>1, <1>2, <1>3, <1>4, <1>6, <1>9, <3>1 DEF Collected
  <2>5. WaitsForMore'
    BY <1>1, <1>3, <1>9, <2>1, <2>2, <2>3, AfterHeadOf DEF WaitsForMore
  <2>6. WholeWhenReturned'
    BY <1>1, <1>3, <1>4, <1>9, <2>1, <2>2, <2>3, AfterHeadOf DEF WholeWhenReturned
  <2>7. EndHasCause'
    BY <1>1, <1>2, <1>3, <1>6, <1>9, <2>1, AfterHeadOf DEF EndHasCause
  <2> QED
    BY <1>7, <2>4, <2>5, <2>6, <2>7 DEF RelayInv
<1> QED
  BY <1>5, <1>8, <1>9

\* A further piece of a chunked response is kept and sent on.
LEMMA RecvChunkStep ==
  ASSUME RelayInv, RecvChunk
  PROVE  RelayInv'
<1>1. /\ TypeOK /\ pc = "chunks" /\ bf = Bytes(0, consumed) /\ buffer = <<>> /\ sent = bf
      /\ UNCHANGED <<first, buffer>>
  BY DEF RelayInv, RecvChunk, Collected
<1>2. PICK n \in 1 .. BufSize :
        /\ Recv(n, BufSize) /\ Keep(Bytes(consumed, n))
        /\ SendThen(Bytes(consumed, n),
                    IF EndsWithMark(consumed + n, n) THEN "returned" ELSE "chunks")
  BY DEF RecvChunk
<1>3. /\ n \in Nat \ {0} /\ consumed' = consumed + n /\ piece' = n /\ consumed \in Nat
      /\ consumed' \in 0 .. cut /\ piece' \in 0 .. consumed'
      /\ UNCHANGED <<response, cut, closes, browser>>
  BY <1>1, <1>2, RecvOf, ResponseType
<1>4. bf \o Bytes(consumed, n) = Bytes(0, consumed + n)
  <2>1. 0 \in Nat /\ 0 + consumed = consumed
    BY <1>3
  <2> QED
    <3>1. Bytes(0, consumed) \o Bytes(0 + consumed, n) = Bytes(0, consumed + n)
      BY ONLY <1>3, <2>1, BytesConcat
    <3> QED
      BY <1>1, <2>1, <3>1
<1>5. Bytes(0, consumed + n) \in Seq(1 .. cut) /\ Len(Bytes(0, consumed + n)) = consumed + n
  <2>1. /\ 0 \in Nat /\ consumed + n \in Nat /\ cut \in Nat /\ 0 + (consumed + n) <= cut
    BY <1>1, <1>3, ResponseType
  <2> QED
    BY <2>1, BytesType, BytesArrived
<1>6. bf' = Bytes(0, consumed')
  BY <1>2, <1>3, <1>4 DEF Keep
<1> DEFINE marked == EndsWithMark(consumed + n, n)
<1>7. \/ sent' = bf' /\ pc' = IF marked THEN "returned" ELSE "chunks"
      \/ sent' = sent /\ pc' \in {"failed", "killed"} /\ browser = "closed"
  BY <1>1, <1>2, <1>3, <1>4, <1>6, SendThenOf
<1> HIDE DEF marked
<1>8. TypeOK'
  <2>1. sent' \in Seq(1 .. cut) /\ bf' \in Seq(1 .. cut) /\ buffer' \in Seq(1 .. cut)
    BY <1>1, <1>3, <1>5, <1>6, <1>7 DEF TypeOK
  <2>2. first' \in 0 .. consumed'
    BY <1>1, <1>3, ResponseType
  <2>3. pc' \in Receiving \cup Ended
    BY <1>7 DEF Receiving, Ended
  <2> QED
    BY <1>1, <1>3, <2>1, <2>2, <2>3 DEF TypeOK
<1>9. CASE sent' = sent /\ pc' \in {"failed", "killed"} /\ browser = "closed"
  BY <1>3, <1>8, <1>9, SendFails
<1>10. CASE sent' = bf' /\ pc' = IF marked THEN "returned" ELSE "chunks"
  <2>1. Regular' <=> Regular
    BY <1>1, <1>3 DEF Regular
  <2>2. Regular => response.framing = "chunked" /\ response.ends = {Length(response)}
    BY <1>1 DEF RelayInv, WaitsForMore, Regular
  <2>3. Collected'
    BY <1>1, <1>3, <1>5, <1>6, <1>10 DEF Collected
  <2>4. marked <=> n >= EndMark /\ consumed' \in response.ends
    BY <1>3 DEF marked, EndsWithMark
  <2>5. WaitsForMore'
    BY <1>3, <1>10, <2>1, <2>2, <2>4 DEF WaitsForMore, EndMark
  <2>6. WholeWhenReturned'
    <3>1. marked /\ Regular => consumed' = Length(response)
      BY <2>2, <2>4
    <3>2. Length(response)' = Length(response)
      BY <1>3 DEF Length
    <3>3. Len(sent') = consumed'
      BY <1>3, <1>5, <1>6, <1>10
    <3> QED
      BY <1>10, <2>1, <3>1, <3>2, <3>3 DEF WholeWhenReturned
  <2>7. EndHasCause'
    BY <1>10 DEF EndHasCause
  <2> QED
    BY <1>8, <2>3, <2>5, <2>6, <2>7 DEF RelayInv
<1> QED
  BY <1>7, <1>9, <1>10

\* A further piece of a response with a length is collected.
LEMMA RecvLeftStep ==
  ASSUME RelayInv, RecvLeft
  PROVE  RelayInv'
<1>1. /\ TypeOK /\ pc = "left" /\ bf = Bytes(0, first) /\ sent = bf
      /\ buffer = Bytes(first, consumed - first) /\ UNCHANGED first
  BY DEF RelayInv, RecvLeft, Collected
<1>2. PICK n \in 1 .. BufSize :
        LET collected == buffer \o Bytes(consumed, n)
        IN  /\ Recv(n, Room)
            /\ buffer' = collected
            /\ IF Enough(Len(collected))
               THEN Keep(collected) /\ SendThen(RestOf(collected), "returned")
               ELSE UNCHANGED <<bf, sent, pc>>
  BY DEF RecvLeft
<1>3. /\ n \in Nat \ {0} /\ consumed' = consumed + n /\ piece' = n
      /\ consumed' \in 0 .. cut /\ piece' \in 0 .. consumed'
      /\ UNCHANGED <<response, cut, closes, browser>>
  BY <1>1, <1>2, RecvOf
<1>4. /\ consumed \in Nat /\ first \in Nat /\ consumed - first \in Nat
      /\ consumed' \in Nat /\ consumed' - first \in Nat /\ first <= consumed'
      /\ (consumed - first) + n = consumed' - first /\ first + (consumed - first) = consumed
      /\ first + (consumed' - first) = consumed'
      /\ consumed' <= cut /\ cut <= Length(response)
  BY <1>1, <1>3, ResponseType
<1> DEFINE collected == buffer \o Bytes(consumed, n)
<1>5. collected = Bytes(first, consumed' - first)
  <2> DEFINE m == consumed - first
  <2>1. m \in Nat /\ n \in Nat /\ first \in Nat
    BY <1>3, <1>4
  <2> HIDE DEF m
  <2>2. Bytes(first, m) \o Bytes(first + m, n) = Bytes(first, m + n)
    BY <2>1, BytesConcat
  <2> QED
    BY <1>1, <1>4, <2>2 DEF m
<1>6. /\ collected \in Seq(1 .. cut) /\ Len(collected) = consumed' - first
  <2> DEFINE m == consumed' - first
  <2>1. m \in Nat /\ first + m <= cut /\ cut \in Nat /\ first \in Nat
    BY <1>1, <1>4, ResponseType
  <2> HIDE DEF m
  <2>2. Bytes(first, m) \in Seq(1 .. cut) /\ Len(Bytes(first, m)) = m
    BY ONLY <2>1, BytesType, BytesArrived
  <2>3. /\ Bytes(first, consumed' - first) \in Seq(1 .. cut)
        /\ Len(Bytes(first, consumed' - first)) = consumed' - first
    BY <2>2 DEF m
  <2> QED
    BY ONLY <1>5, <2>3
<1>7. bf \o collected = Bytes(0, consumed')
  <2>1. 0 \in Nat /\ 0 + first = first
    BY <1>4
  <2>2. Bytes(0, first) \o Bytes(first, consumed' - first) = Bytes(0, consumed')
    <3> DEFINE m == consumed' - first
    <3>1. m \in Nat
      BY <1>4
    <3> HIDE DEF m
    <3>2. Bytes(0, first) \o Bytes(0 + first, m) = Bytes(0, first + m)
      BY ONLY <1>4, <2>1, <3>1, BytesConcat
    <3> QED
      BY <1>4, <2>1, <3>2 DEF m
  <2> QED
    BY <1>1, <1>5, <2>2
<1>8. Bytes(0, consumed') \in Seq(1 .. cut) /\ Len(Bytes(0, consumed')) = consumed'
  <2> DEFINE m == consumed'
  <2>1. m \in Nat /\ 0 + m <= cut /\ cut \in Nat /\ 0 \in Nat
    BY <1>1, <1>4, ResponseType
  <2> HIDE DEF m
  <2>2. Bytes(0, m) \in Seq(1 .. cut) /\ Len(Bytes(0, m)) = m
    BY ONLY <2>1, BytesType, BytesArrived
  <2> QED
    BY <2>2 DEF m
<1>9. /\ buffer' = collected
      /\ \/ /\ Enough(Len(collected)) /\ bf' = bf \o collected
            /\ SendThen(collected, "returned")
         \/ ~Enough(Len(collected)) /\ UNCHANGED <<bf, sent, pc>>
  BY <1>2 DEF Keep, RestOf
<1>10. /\ Regular' <=> Regular
       /\ Length(response)' = Length(response)
  BY <1>1, <1>3 DEF Regular, Length
<1>11. ASSUME Regular
       PROVE  /\ response.framing = "length"
              /\ Enough(Len(collected)) <=> consumed' >= Length(response)
  <2>1. response.framing = "length"
    BY <1>1, <1>11 DEF RelayInv, WaitsForMore
  <2>2. RegularFrom(first)
    BY <1>11 DEF Regular, RegularFrom
  <2>3. LeftBody(first) = Length(response) - first
    BY <1>1, <1>4, <2>1, <2>2, LeftBodyIsRest
  <2>4. Length(response) \in Nat
    BY <1>1, ResponseType
  <2>5. Enough(Len(collected)) <=> consumed' - first >= Length(response) - first
    BY <1>6, <2>3 DEF Enough
  <2> QED
    BY <1>4, <2>1, <2>4, <2>5
<1> HIDE DEF collected
<1>12. CASE Enough(Len(collected)) /\ bf' = bf \o collected /\ SendThen(collected, "returned")
  <2>1. \/ sent' = bf' /\ pc' = "returned"
        \/ sent' = sent /\ pc' \in {"failed", "killed"} /\ browser = "closed"
    BY <1>1, <1>12, SendThenOf
  <2>2. TypeOK'
    <3>1. bf' \in Seq(1 .. cut) /\ sent' \in Seq(1 .. cut) /\ buffer' \in Seq(1 .. cut)
      BY <1>1, <1>6, <1>7, <1>8, <1>9, <1>12, <2>1 DEF TypeOK
    <3>2. first' \in 0 .. consumed' /\ pc' \in Receiving \cup Ended
      BY <1>1, <1>4, <2>1 DEF Receiving, Ended
    <3> QED
      BY <1>1, <1>3, <3>1, <3>2 DEF TypeOK
  <2>3. CASE sent' = sent /\ pc' \in {"failed", "killed"} /\ browser = "closed"
    BY <1>3, <2>2, <2>3, SendFails
  <2>4. CASE sent' = bf' /\ pc' = "returned"
    <3>1. Collected' /\ WaitsForMore' /\ EndHasCause'
      BY <1>7, <1>8, <1>12, <2>4 DEF Collected, WaitsForMore, EndHasCause
    <3>2. WholeWhenReturned'
      <4>1. Len(sent') = consumed'
        BY <1>7, <1>8, <1>12, <2>4
      <4>2. Regular => consumed' = Length(response)
        <5>1. Length(response) \in Nat
          BY <1>1, ResponseType
        <5> QED
          <6>1. Regular => consumed' >= Length(response)
            BY <1>11, <1>12
          <6>2. consumed' <= Length(response)
            BY <1>1, <1>3, <1>4, ResponseType
          <6> QED
            BY ONLY <1>4, <5>1, <6>1, <6>2
      <4> QED
        BY <1>10, <2>4, <4>1, <4>2 DEF WholeWhenReturned
    <3> QED
      BY <2>2, <3>1, <3>2 DEF RelayInv
  <2> QED
    BY <2>1, <2>3, <2>4
<1>13. CASE ~Enough(Len(collected)) /\ UNCHANGED <<bf, sent, pc>>
  <2>1. TypeOK'
    BY <1>1, <1>3, <1>4, <1>6, <1>9, <1>13 DEF TypeOK
  <2>2. Collected'
    BY <1>1, <1>5, <1>9, <1>13 DEF Collected, RelayInv
  <2>3. WaitsForMore'
    BY <1>1, <1>4, <1>10, <1>11, <1>13, <1>3, ResponseType DEF WaitsForMore
  <2>4. WholeWhenReturned' /\ EndHasCause'
    BY <1>1, <1>13 DEF WholeWhenReturned, EndHasCause
  <2> QED
    BY <2>1, <2>2, <2>3, <2>4 DEF RelayInv
<1> QED
  BY <1>9, <1>12, <1>13

\* The server has closed, and get fails.
LEMMA RecvNothingStep ==
  ASSUME RelayInv, RecvNothing
  PROVE  RelayInv'
<1>1. /\ TypeOK /\ pc \in Receiving /\ consumed = cut /\ closes /\ pc' = "failed"
      /\ UNCHANGED <<response, cut, closes, browser, consumed, first, piece, bf, buffer, sent>>
  BY BufSizeAssumption DEF RelayInv, RecvNothing, Room, peers
<1>2. TypeOK'
  BY <1>1 DEF TypeOK, Ended
<1>3. Collected' /\ WaitsForMore' /\ WholeWhenReturned'
  BY <1>1 DEF RelayInv, Collected, WaitsForMore, WholeWhenReturned
<1>4. EndHasCause'
  <2> SUFFICES ASSUME Regular
               PROVE  \/ cut < Length(response)
                      \/ first < response.field
                      \/ response.framing = "chunked" /\ piece < EndMark
    BY <1>1 DEF EndHasCause, Regular, Length
  <2>1. CASE pc = "head"
    BY <1>1, <2>1, ResponseType DEF RelayInv, Collected
  <2>2. CASE pc = "chunks"
    <3>1. response.framing = "chunked" /\ (consumed \in response.ends => piece < EndMark)
      BY <2>2 DEF RelayInv, WaitsForMore
    <3>2. response.ends = {Length(response)}
      BY <3>1 DEF Regular
    <3> QED
      BY <1>1, <3>1, <3>2, ResponseType
  <2>3. CASE pc = "left"
    BY <1>1, <2>3 DEF RelayInv, WaitsForMore
  <2> QED
    BY <1>1, <2>1, <2>2, <2>3 DEF Receiving
<1> QED
  BY <1>2, <1>3, <1>4 DEF RelayInv

\* The browser closes; get notices at its next send.
LEMMA BrowserClosesStep ==
  ASSUME RelayInv, BrowserCloses
  PROVE  RelayInv'
<1>1. /\ TypeOK /\ browser' = "closed"
      /\ UNCHANGED <<response, cut, closes, pc, consumed, first, piece, bf, buffer, sent>>
  BY DEF RelayInv, BrowserCloses, peers
<1>2. TypeOK'
  BY <1>1 DEF TypeOK
<1> QED
  BY <1>1, <1>2
     DEF RelayInv, Collected, WaitsForMore, WholeWhenReturned, EndHasCause, Regular, Length

-------------------------------------------------------------------------------
(***************************************************************************)
(* RelayInv holds in every state: at each of its waits get holds the bytes *)
(* that its place in the code says, and more of a regular response is to   *)
(* come.                                                                   *)
(***************************************************************************)
THEOREM RelayInvariant == Spec => []RelayInv
<1>1. Init => RelayInv
  <2> SUFFICES ASSUME Init PROVE RelayInv
    OBVIOUS
  <2>1. <<>> \in Seq(1 .. cut) /\ Len(<<>>) = 0 /\ <<>> = Bytes(0, 0)
    BY DEF Bytes
  <2>2. cut \in Nat /\ Length(response) \in Nat
    BY OriginAssumption DEF Init, ResponseShape, Length
  <2>3. TypeOK
    BY <2>1, <2>2 DEF Init, TypeOK, Receiving
  <2>4. Collected
    BY <2>1 DEF Init, Collected
  <2>5. WaitsForMore /\ WholeWhenReturned /\ EndHasCause
    BY DEF Init, WaitsForMore, WholeWhenReturned, EndHasCause
  <2> QED
    BY <2>3, <2>4, <2>5 DEF RelayInv
<1>2. RelayInv /\ [Next]_vars => RelayInv'
  <2> SUFFICES ASSUME RelayInv, [Next]_vars
               PROVE  RelayInv'
    OBVIOUS
  <2>1. CASE UNCHANGED vars
    BY <2>1 DEF vars, peers, RelayInv, TypeOK, Collected, WaitsForMore, WholeWhenReturned,
                EndHasCause, Regular, Length
  <2>2. CASE Get
    BY <2>2, RecvHeadStep, RecvChunkStep, RecvLeftStep, RecvNothingStep DEF Get
  <2> QED
    BY <2>1, <2>2, BrowserClosesStep DEF Next
<1> QED
  BY <1>1, <1>2, PTL DEF Spec

\* The positions in the response stay within it, and the buffers hold only bytes
\* that have arrived.
THEOREM RelayTypeCorrect == Spec => []TypeOK
<1>1. RelayInv => TypeOK
  BY DEF RelayInv
<1> QED
  BY <1>1, RelayInvariant, PTL

(***************************************************************************)
(* The browser is sent the response from its first byte on, in order, with *)
(* nothing left out or repeated; what get has received and not sent is     *)
(* what it still collects.                                                 *)
(***************************************************************************)
THEOREM RelaySendsInOrder == Spec => []SentInOrder
<1>1. RelayInv => SentInOrder
  <2> SUFFICES ASSUME RelayInv PROVE SentInOrder
    OBVIOUS
  <2>1. TypeOK /\ Collected /\ sent = Bytes(0, Len(sent))
    BY DEF RelayInv, Collected
  <2>2. ASSUME pc \in Receiving
        PROVE  sent \o buffer = Bytes(0, consumed)
    <3>1. consumed \in Nat /\ first \in Nat /\ first <= consumed
      BY <2>1, ResponseType
    <3>2. CASE pc = "head"
      BY <2>1, <3>2 DEF Collected, Bytes
    <3>3. CASE pc = "chunks"
      BY <2>1, <3>1, <3>3, BytesType DEF Collected
    <3>4. CASE pc = "left"
      <4> DEFINE m == consumed - first
      <4>1. m \in Nat /\ first + m = consumed /\ 0 + first = first
        BY <3>1
      <4> HIDE DEF m
      <4>2. Bytes(0, first) \o Bytes(0 + first, m) = Bytes(0, first + m)
        BY <3>1, <4>1, BytesConcat
      <4> QED
        BY <2>1, <3>4, <4>1, <4>2 DEF Collected, m
    <3> QED
      BY <2>2, <3>2, <3>3, <3>4 DEF Receiving
  <2> QED
    BY <2>1, <2>2 DEF SentInOrder
<1> QED
  BY <1>1, RelayInvariant, PTL

\* The copy that do_get parses and may cache is what the browser was sent.
THEOREM CopyIsWhatWasSent == Spec => []KeptIsSent
<1>1. RelayInv => KeptIsSent
  BY DEF RelayInv, Collected, KeptIsSent
<1> QED
  BY <1>1, RelayInvariant, PTL

\* get returns from a regular response only with all of it sent.
THEOREM RelayIsWhole == Spec => []WholeWhenReturned
<1>1. RelayInv => WholeWhenReturned
  BY DEF RelayInv
<1> QED
  BY <1>1, RelayInvariant, PTL

\* The relay of a regular response fails, aborts or is killed only for the causes
\* that EndHasCause lists.
THEOREM RelayEndsForACause == Spec => []EndHasCause
<1>1. RelayInv => EndHasCause
  BY DEF RelayInv
<1> QED
  BY <1>1, RelayInvariant, PTL
===============================================================================
