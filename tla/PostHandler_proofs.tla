--------------------------- MODULE PostHandler_proofs ---------------------------
(***************************************************************************)
(* What doPost sends is what it has received, and what is missing from it  *)
(* is missing for a cause, for every response, every size of the buffers   *)
(* and of int, and every old content of the array.                         *)
(***************************************************************************)
EXTENDS PostHandler, WellFoundedInduction, SequenceTheorems, TLAPS

PostTypeOK ==
  /\ response \in Origin
  /\ cut \in 0 .. Length(response)
  /\ pc \in {"first", "rest", "parsing"} \cup Ended
  /\ first \in Nat /\ remains \in Nat /\ left \in Int
  /\ {residual, sent} \subseteq Seq(Nat)
  /\ first + Len(residual) <= cut

\* receiveAll has collected the bytes that follow the first piece.
RestFollows ==
  /\ pc = "first" => residual = <<>>
  /\ residual = Bytes(first, Len(residual))

(***************************************************************************)
(* receiveAll waits for all that is missing of a regular response but the  *)
(* two bytes that the empty line counted for, and for as many more as a    *)
(* zero byte in the first piece hid; old content of the array can make it  *)
(* wait for less.                                                          *)
(***************************************************************************)
Hidden == first - StringLength(first, remains)

WaitsForRest ==
  pc = "rest" /\ Regular =>
    \/ remains > 0 /\ StringLength(first, remains) > first
    \/ /\ StringLength(first, remains) \in 0 .. first
       /\ left >= Length(response) - first - EmptyLine + Hidden

PostInv == PostTypeOK /\ RestFollows /\ WaitsForRest /\ SentIsReceived /\ LossHasCause
-------------------------------------------------------------------------------
\* Bytes is a sequence of positions, as long as it says.
LEMMA BytesType ==
  ASSUME NEW i \in Nat, NEW n \in Nat
  PROVE  Bytes(i, n) \in Seq(Nat) /\ Len(Bytes(i, n)) = n
BY IsASeq DEF Bytes

\* A run of bytes and the run that begins where it ends are one run.
LEMMA BytesConcat ==
  ASSUME NEW i \in Nat, NEW m \in Nat, NEW n \in Nat
  PROVE  Bytes(i, m) \o Bytes(i + m, n) = Bytes(i, m + n)
BY DEF Bytes

\* Min of a set of numbers is one of them.
LEMMA MinOf ==
  ASSUME NEW S \in SUBSET Nat, S # {}
  PROVE  Min(S) \in S
<1> DEFINE R == {ss \in Nat \X Nat : ss[1] < ss[2]}
<1>1. IsWellFoundedOn(R, Nat)
  BY NatLessThanWellFounded DEF OpToRel
<1>2. PICK x \in S : \A y \in S : ~(<<y, x>> \in R)
  <2> HIDE DEF R
  <2> QED
    BY <1>1, WFMin
<1>3. ASSUME NEW y \in S PROVE x <= y
  <2>1. x \in Nat /\ y \in Nat /\ <<y, x>> \in Nat \X Nat
    OBVIOUS
  <2>2. ~(y < x)
    BY <1>2, <2>1
  <2> QED
    BY <2>1, <2>2
<1> QED
  BY <1>3 DEF Min

\* A number that fits stays as it is.
LEMMA ToIntOf ==
  ASSUME NEW i \in Int, -2 <= i, i <= MaxInt
  PROVE  ToInt(i) = i
<1>1. MaxInt \in Nat \ {0}
  BY SizesAssumption
<1> QED
  BY <1>1 DEF ToInt, Wrap

\* Whatever the number, an int comes of it.
LEMMA ToIntType ==
  ASSUME NEW i \in Int
  PROVE  ToInt(i) \in Int
<1>1. PICK n \in Nat : n = MaxInt
  BY SizesAssumption
<1>2. PICK w \in Nat \ {0} : w = Wrap
  BY <1>1 DEF Wrap
<1>3. PICK j \in Int : j = i + n + 1
  OBVIOUS
<1>4. j % w \in Int
  BY <1>2
<1>5. ToInt(i) = (j % w) - n - 1
  BY <1>1, <1>2, <1>3 DEF ToInt
<1> QED
  BY <1>1, <1>4, <1>5

\* A response has its shape, and its zero bytes are in its body.
LEMMA ResponseType ==
  ASSUME response \in Origin
  PROVE  /\ response.head \in Nat /\ response.body \in Nat
         /\ response.announced \in Nat \cup {Absent}
         /\ response.announced \in Nat => response.announced <= MaxInt
         /\ response.head >= EmptyLine /\ EmptyLine = 2
         /\ response.zeros \subseteq Nat
         /\ \A z \in response.zeros : response.head <= z /\ z < response.head + response.body
         /\ Length(response) = response.head + response.body
         /\ Length(response) \in Nat /\ MaxInt \in Nat
<1>1. response \in ResponseShape
  BY OriginAssumption
<1>2. MaxInt \in Nat
  BY SizesAssumption
<1>3. /\ response.head \in Nat /\ response.body \in Nat
      /\ response.announced \in 0 .. MaxInt \cup {Absent}
      /\ response.zeros \subseteq Nat
  BY <1>1 DEF ResponseShape
<1>4. \A z \in response.zeros : z \in response.head .. response.head + response.body - 1
  BY OriginAssumption
<1>5. /\ response.announced \in Nat \cup {Absent}
      /\ response.announced \in Nat => response.announced <= MaxInt
  BY <1>2, <1>3, AbsentAssumption
<1> QED
  BY <1>2, <1>3, <1>4, <1>5, OriginAssumption DEF Length, EmptyLine

\* The length of the C string is a number, and more than was received only when
\* there was old content in the array.
LEMMA StringLengthType ==
  ASSUME response \in Origin, NEW n \in Nat, NEW m \in Nat
  PROVE  /\ StringLength(n, m) \in Nat
         /\ StringLength(n, m) > n => m > 0
         /\ n >= response.head => StringLength(n, m) >= response.head
<1> DEFINE zeros == {z \in response.zeros : z < n}
<1>1. CASE zeros = {}
  BY <1>1, ResponseType DEF StringLength
<1>2. CASE zeros # {}
  <2>1. zeros \in SUBSET Nat
    BY ResponseType
  <2>2. Min(zeros) \in zeros
    BY <1>2, <2>1, MinOf
  <2>3. StringLength(n, m) \in response.zeros /\ StringLength(n, m) < n
    BY <1>2, <2>2 DEF StringLength
  <2> QED
    BY <2>3, ResponseType
<1> QED
  BY <1>1, <1>2

\* What the first piece of a regular response makes receiveAll wait for.
LEMMA LeftCovers ==
  ASSUME response \in Origin, NEW n \in Nat, NEW m \in Nat,
         response.announced = response.body, n >= response.head, n <= Length(response),
         StringLength(n, m) <= n
  PROVE  Left(response.body, n, m)
           >= Length(response) - n - EmptyLine + (n - StringLength(n, m))
<1>1. PICK s \in Nat : s = StringLength(n, m)
  BY StringLengthType
<1>2. response.head <= s /\ s <= n
  BY <1>1, StringLengthType
<1>3. PICK rest \in Int : rest = response.body - (s - (response.head - EmptyLine))
  BY ResponseType
<1>4. /\ rest >= -2 /\ rest <= MaxInt
      /\ rest >= Length(response) - n - EmptyLine + (n - s)
  BY <1>2, <1>3, ResponseType
<1>5. Left(response.body, n, m) = ToInt(rest)
  BY <1>1, <1>3 DEF Left, BodyLength
<1>6. ToInt(rest) = rest
  BY <1>4, ToIntOf
<1> QED
  BY <1>1, <1>4, <1>5, <1>6

-------------------------------------------------------------------------------
\* The steps of doPost, one by one.
LEMMA RecvFirstStep ==
  ASSUME PostInv, RecvFirst
  PROVE  PostInv'
<1>1. /\ response \in Origin /\ cut \in 0 .. Length(response) /\ residual = <<>>
      /\ left \in Int /\ sent \in Seq(Nat)
      /\ UNCHANGED <<response, cut, closes, residual, sent>>
  BY DEF PostInv, PostTypeOK, RestFollows, RecvFirst, server
<1>2. PICK n \in 1 .. BufSize, m \in Remains :
        /\ n <= cut /\ first' = n /\ remains' = m
        /\ IF n < response.head THEN ParseCut(m) ELSE ParseWhole(n, m)
  BY DEF RecvFirst
<1>3. n \in Nat /\ m \in Nat /\ n <= Length(response) /\ cut \in Nat
  BY <1>1, <1>2, SizesAssumption, ResponseType
<1>4. Uninitialised \subseteq Int /\ \A length \in ContentLen : length \in Int
  BY <1>1, ResponseType DEF ContentLen, Uninitialised
<1>5. /\ pc' \in {"rest", "parsing", "thrown"}
      /\ pc' = "thrown" => first' < response.head \/ response.parse = "throws"
      /\ pc' = "parsing" => first' < response.head \/ response.parse = "spins"
  BY <1>2 DEF ParseCut, ParseWhole
<1>6. left' \in Int
  <2>1. CASE n < response.head
    BY <1>1, <1>2, <1>4, <2>1 DEF ParseCut
  <2>2. CASE ~(n < response.head) /\ left' # left
    <3>1. PICK length \in ContentLen : left' = Left(length, n, m)
      BY <1>2, <2>2 DEF ParseWhole
    <3>2. \A i \in Int : ToInt(i) \in Int
      BY ToIntType
    <3>3. StringLength(n, m) \in Int
      BY <1>1, <1>3, StringLengthType
    <3>4. length - BodyLength(n, m) \in Int
      BY <1>1, <1>4, <3>3, ResponseType DEF BodyLength
    <3> QED
      BY <3>1, <3>2, <3>4 DEF Left
  <2> QED
    BY <1>1, <2>1, <2>2
<1>7. PostTypeOK'
  <2>1. residual' \in Seq(Nat) /\ Len(residual') = 0 /\ sent' \in Seq(Nat)
    BY <1>1
  <2>2. first' + Len(residual') <= cut'
    BY <1>1, <1>2, <1>3, <2>1
  <2> QED
    BY <1>1, <1>2, <1>3, <1>5, <1>6, <2>1, <2>2 DEF PostTypeOK, Ended, Length
<1>8. RestFollows'
  BY <1>1, <1>2, <1>5 DEF RestFollows, Bytes
<1>9. WaitsForRest'
  <2> SUFFICES ASSUME pc' = "rest", Regular'
               PROVE  \/ m > 0 /\ StringLength(n, m) > n
                      \/ /\ StringLength(n, m) \in 0 .. n
                         /\ left' >= Length(response) - n - EmptyLine + (n - StringLength(n, m))
    BY <1>1, <1>2 DEF WaitsForRest, Length, StringLength, Hidden
  <2>1. response.announced = response.body /\ n >= response.head
    BY <1>1, <1>2 DEF Regular
  <2>2. ContentLen = {response.body}
    BY <1>1, <2>1, ResponseType, AbsentAssumption DEF ContentLen
  <2>3. left' = Left(response.body, n, m)
    BY <1>1, <1>2, <1>3, <2>1, <2>2, ResponseType DEF ParseWhole
  <2>4. CASE StringLength(n, m) > n
    BY <1>1, <1>3, <2>4, StringLengthType
  <2>5. CASE StringLength(n, m) <= n
    <3>1. StringLength(n, m) \in 0 .. n
      BY <1>1, <1>3, <2>5, StringLengthType
    <3> QED
      BY <1>1, <1>3, <2>1, <2>3, <2>5, <3>1, LeftCovers
  <2> QED
    BY <1>1, <1>3, <2>4, <2>5, StringLengthType
<1>10. SentIsReceived' /\ LossHasCause'
  BY <1>1, <1>5 DEF SentIsReceived, LossHasCause
<1> QED
  BY <1>7, <1>8, <1>9, <1>10 DEF PostInv

\* The server has closed or reset before its first byte.
LEMMA RecvNoneStep ==
  ASSUME PostInv, RecvNone
  PROVE  PostInv'
<1>1. /\ pc = "first" /\ pc' \in {"unanswered", "badGateway"} /\ cut = 0 /\ closes # "no"
      /\ UNCHANGED <<response, cut, closes, first, remains, left, residual, sent>>
  BY DEF RecvNone, server
<1>2. PostTypeOK'
  BY <1>1 DEF PostInv, PostTypeOK, Ended, Length
<1> QED
  BY <1>1, <1>2 DEF PostInv, RestFollows, WaitsForRest, SentIsReceived, LossHasCause

\* A further piece goes behind what receiveAll has collected.
LEMMA RecvRestStep ==
  ASSUME PostInv, RecvRest
  PROVE  PostInv'
<1>1. /\ pc = "rest"
      /\ UNCHANGED <<response, cut, closes, pc, first, remains, left, sent>>
  BY DEF RecvRest, server
<1>2. PICK n \in 1 .. ChunkSize :
        first + Len(residual) + n <= cut /\ residual' = residual \o Received(n)
  BY DEF RecvRest
<1> DEFINE k == Len(residual)
<1>3. /\ residual \in Seq(Nat) /\ residual = Bytes(first, k)
      /\ first \in Nat /\ k \in Nat /\ n \in Nat
  BY SizesAssumption DEF PostInv, PostTypeOK, RestFollows
<1>4. residual' = Bytes(first, k) \o Bytes(first + k, n)
  BY <1>2, <1>3 DEF Received
<1> HIDE DEF k
<1>5. residual' = Bytes(first, k + n)
  BY <1>3, <1>4, BytesConcat
<1>6. residual' \in Seq(Nat) /\ Len(residual') = k + n
  <2>1. k + n \in Nat
    BY <1>3
  <2> QED
    BY <1>3, <1>5, <2>1, BytesType
<1>7. PostTypeOK'
  <2>1. first + Len(residual') <= cut
    BY <1>2, <1>3, <1>6 DEF k, PostInv, PostTypeOK
  <2> QED
    BY <1>1, <1>6, <2>1 DEF PostInv, PostTypeOK, Length
<1>8. RestFollows'
  BY <1>1, <1>5, <1>6 DEF RestFollows
<1> QED
  BY <1>1, <1>7, <1>8
     DEF PostInv, WaitsForRest, SentIsReceived, LossHasCause, Regular, Hidden,
         StringLength, Length

\* The answer goes to the browser as it was received.
LEMMA SendStep ==
  ASSUME PostInv, Send
  PROVE  PostInv'
<1> DEFINE k == Len(residual)
<1>1. /\ pc = "rest" /\ pc' = "answered" /\ sent' = Bytes(0, first) \o residual
      /\ Enough \/ (first + k = cut /\ closes # "no")
      /\ UNCHANGED <<response, cut, closes, first, remains, left, residual>>
  BY DEF Send, server
<1>2. /\ residual \in Seq(Nat) /\ residual = Bytes(first, k) /\ first \in Nat /\ k \in Nat
      /\ response \in Origin /\ left \in Int
  BY DEF PostInv, PostTypeOK, RestFollows
<1> HIDE DEF k
<1>3. sent' = Bytes(0, first + k)
  <2>1. Bytes(0, first) \o Bytes(0 + first, k) = Bytes(0, first + k)
    BY <1>2, BytesConcat
  <2>2. 0 + first = first
    BY <1>2
  <2> QED
    BY <1>1, <1>2, <2>1, <2>2
<1>4. sent' \in Seq(Nat) /\ Len(sent') = first + k
  <2>1. first + k \in Nat
    BY <1>2
  <2> QED
    BY <1>3, <2>1, BytesType
<1>5. PostTypeOK'
  BY <1>1, <1>4 DEF PostInv, PostTypeOK, Ended, Length
<1>6. SentIsReceived'
  BY <1>1, <1>3 DEF SentIsReceived, k
<1>7. LossHasCause'
  <2> SUFFICES ASSUME Regular, first + k < Length(response)
               PROVE  \/ closes # "no" /\ first + k = cut
                      \/ remains > 0 /\ StringLength(first, remains) > first
                      \/ /\ Length(response) - (first + k) <= EmptyLine
                         /\ Hidden < EmptyLine
    BY <1>1, <1>4 DEF LossHasCause, Regular, StringLength, Length, Hidden
  <2>1. CASE Enough
    <3>1. k >= left
      BY <2>1 DEF Enough, k
    <3>2. CASE remains > 0 /\ StringLength(first, remains) > first
      BY <3>2
    <3>3. CASE /\ StringLength(first, remains) \in 0 .. first
               /\ left >= Length(response) - first - EmptyLine + Hidden
      <4>1. PICK s \in 0 .. first : s = StringLength(first, remains)
        BY <3>3
      <4>2. left >= Length(response) - first - EmptyLine + (first - s)
        BY <3>3, <4>1 DEF Hidden
      <4>3. PICK L \in Nat : L = Length(response)
        BY <1>2, ResponseType
      <4>4. k >= L - first - 2 + (first - s) /\ first + k < L
        BY <1>2, <3>1, <4>1, <4>2, <4>3 DEF EmptyLine
      <4>5. L - (first + k) <= 2 /\ first - s < 2
        BY <1>2, <4>1, <4>4
      <4> QED
        BY <4>1, <4>3, <4>5 DEF EmptyLine, Hidden
    <3> QED
      BY <1>1, <3>2, <3>3 DEF PostInv, WaitsForRest
  <2> QED
    BY <1>1, <2>1
<1> QED
  BY <1>1, <1>5, <1>6, <1>7 DEF PostInv, RestFollows, WaitsForRest

(***************************************************************************)
(* PostInv holds in every state: receiveAll collects the bytes behind the  *)
(* first piece in order, and waits for all of a regular response but its   *)
(* last two bytes, and for as many more as a zero byte hid, unless old     *)
(* content of the array was counted as a part of it.                       *)
(***************************************************************************)
THEOREM PostInvariant == Spec => []PostInv
<1>1. Init => PostInv
  <2> SUFFICES ASSUME Init PROVE PostInv
    OBVIOUS
  <2>1. PostTypeOK
    BY ResponseType DEF Init, PostTypeOK
  <2>2. RestFollows
    BY DEF Init, RestFollows, Bytes
  <2> QED
    BY <2>1, <2>2 DEF Init, PostInv, WaitsForRest, SentIsReceived, LossHasCause
<1>2. PostInv /\ [DoPost]_vars => PostInv'
  <2>1. PostInv /\ UNCHANGED vars => PostInv'
    BY DEF vars, server, PostInv, PostTypeOK, RestFollows, WaitsForRest, SentIsReceived,
           LossHasCause, Regular, Hidden, StringLength, Length
  <2> QED
    BY <2>1, RecvFirstStep, RecvNoneStep, RecvRestStep, SendStep DEF DoPost
<1> QED
  BY <1>1, <1>2, PTL DEF Spec

\* The browser is sent what was received, from the first byte on and in order.
THEOREM PostSendsWhatItReceived == Spec => []SentIsReceived
<1>1. PostInv => SentIsReceived
  BY DEF PostInv
<1> QED
  BY <1>1, PostInvariant, PTL

\* A part of a regular response, or all of it, is missing only for the causes
\* that LossHasCause lists; the empty line counted as body costs it two bytes
\* at most.
THEOREM PostLosesForACause == Spec => []LossHasCause
<1>1. PostInv => LossHasCause
  BY DEF PostInv
<1> QED
  BY <1>1, PostInvariant, PTL
===============================================================================
