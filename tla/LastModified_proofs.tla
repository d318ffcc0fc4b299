-------------------------- MODULE LastModified_proofs --------------------------
(***************************************************************************)
(* What the two parsing loops make of a text and of a date of any length.  *)
(***************************************************************************)
EXTENDS LastModified, SequenceTheorems, WellFoundedInduction, TLAPS

(***************************************************************************)
(* The loop over a date that ends in GMT is at some word: rest is the date *)
(* from the word after the k-th on, and the fields and the flag are what   *)
(* the first k words say.                                                  *)
(***************************************************************************)
WordsRead(k) ==
  /\ rest \in Seq(Word) /\ Len(rest) = Len(date) - k
  /\ \A i \in 1 .. Len(rest) : rest[i] = date[i + k]
  /\ noStore <=> \E i \in 1 .. k : Fails(date[i])
  /\ lm \in [TimeField -> Word]
  /\ \A f \in TimeField : (\A i \in 1 .. k : Field(date[i]) # f) => lm[f] = Zero
  /\ ~noStore => \A i \in 1 .. k :
       LET f == Field(date[i])
       IN  f # "none" /\ (\A j \in i + 1 .. k : Field(date[j]) # f) => lm[f] = date[i]

DateInv ==
  /\ reading \in {"no", "looping", "done", "thrown"}
  /\ reading = "no" => lm = [field \in TimeField |-> Zero] /\ ~noStore
  /\ reading # "no" => date \in Dates
  /\ reading # "no" => rest \in Seq(Word) \ {<<>>}
  /\ reading # "no" /\ Last(date) = Gmt =>
       \E k \in 0 .. Len(date) - 1 : WordsRead(k)
  /\ reading # "no" => Last(rest) = Last(date)
  /\ reading = "done" => rest = <<Gmt>>
-------------------------------------------------------------------------------
\* Every set of numbers that is not empty has a least one.
LEMMA LeastNumber ==
  ASSUME NEW S \in SUBSET Nat, S # {}
  PROVE  \E m \in S : \A y \in S : m <= y
<1> DEFINE R == {ss \in Nat \X Nat : ss[1] < ss[2]}
<1>1. IsWellFoundedOn(R, Nat)
  BY NatLessThanWellFounded DEF OpToRel
<1>2. PICK x \in S : \A y \in S : ~(<<y, x>> \in R)
  <2> HIDE DEF R
  <2> QED
    BY <1>1, WFMin
<1>3. ASSUME NEW y \in S PROVE x <= y
  <2>1. x \in Nat /\ y \in Nat /\ <<y, x>> \in Nat \X Nat
    OBVIOUS
  <2>2. ~(y < x)
    BY <1>2, <2>1
  <2> QED
    BY <2>1, <2>2
<1> QED
  BY <1>3

\* Min of a set of numbers that is not empty is its least.
LEMMA MinIs ==
  ASSUME NEW S \in SUBSET Nat, S # {}
  PROVE  Min(S) \in S /\ \A y \in S : Min(S) <= y
<1>1. \E m \in S : \A y \in S : m <= y
  BY LeastNumber
<1> QED
  BY <1>1 DEF Min

\* Max of a set of numbers up to n that is not empty is its greatest.
LEMMA MaxIs ==
  ASSUME NEW n \in Nat, NEW S \in SUBSET (1 .. n), S # {}
  PROVE  Max(S) \in S /\ \A y \in S : y <= Max(S)
<1> DEFINE T == {x \in Nat : \E y \in S : x = n - y}
<1>1. T # {}
  <2>1. PICK y \in S : TRUE
    OBVIOUS
  <2>2. n - y \in T
    BY <2>1
  <2> QED
    BY <2>2
<1>2. PICK m \in T : \A x \in T : m <= x
  <2> T \in SUBSET Nat
    OBVIOUS
  <2> HIDE DEF T
  <2> QED
    BY <1>1, LeastNumber
<1>3. PICK g \in S : m = n - g
  OBVIOUS
<1>4. ASSUME NEW y \in S PROVE y <= g
  <2>1. n - y \in T /\ y \in Nat /\ g \in Nat
    OBVIOUS
  <2> QED
    BY <1>2, <1>3, <2>1
<1>5. \A y \in S : g >= y
  BY <1>4
<1>6. \E x \in S : \A y \in S : x >= y
  BY <1>5
<1> QED
  BY <1>6 DEF Max
-------------------------------------------------------------------------------
(* The loop over a date.                                                   *)

\* The field of a word is one of struct tm, or none; what fails has a field.
LEMMA FieldIs ==
  ASSUME NEW w \in Word
  PROVE  /\ Field(w) \in TimeField \cup {"none"}
         /\ Fails(w) <=> \/ w.length = 3 /\ w.is # "month"
                         \/ w.length = 8 /\ w.is # "time"
<1>1. w.length \in {0, 2, 3, 4, 8, 9}
  BY DEF Word
<1> QED
  <2>1. /\ w.length = 2 => Field(w) = "day"
        /\ w.length = 3 => Field(w) = "month"
        /\ w.length = 4 => Field(w) = "year"
        /\ w.length = 8 => Field(w) = "time"
        /\ w.length \notin {2, 3, 4, 8} => Field(w) = "none"
    BY <1>1 DEF Field
  <2> QED
    BY <1>1, <2>1 DEF Fails, TimeField

\* The loop starts at the first word.
LEMMA ReadHeadersStep ==
  ASSUME DateInv, ReadHeaders
  PROVE  DateInv'
<1>1. /\ date' \in Dates /\ rest' = date' /\ reading' = "looping" /\ reading = "no"
      /\ lm' = lm /\ noStore' = noStore
  BY DEF ReadHeaders
<1>2. date' \in Seq(Word) \ {<<>>} /\ Len(date') \in Nat /\ Len(date') # 0
  <2>1. date' \in Seq(Word) \ {<<>>}
    BY <1>1, DatesAssumption
  <2> QED
    BY <2>1, EmptySeq
<1>3. WordsRead(0)'
  <2>1. Zero \in Word
    BY DEF Zero, Word
  <2> QED
    BY <1>1, <1>2, <2>1 DEF WordsRead, DateInv
<1>4. 0 \in 0 .. Len(date') - 1
  BY <1>2
<1> QED
  BY <1>1, <1>2, <1>3, <1>4 DEF DateInv

\* A word that can be read is taken off, unless it is the last of the text.
LEMMA LeftIs ==
  ASSUME NEW words \in Seq(Word) \ {<<>>}
  PROVE  /\ Left(words) \in Seq(Word) \ {<<>>}
         /\ Last(Left(words)) = Last(words)
         /\ Len(words) # 1 => /\ Len(Left(words)) = Len(words) - 1
                              /\ \A i \in 1 .. Len(words) - 1 : Left(words)[i] = words[i + 1]
<1>1. Len(words) \in Nat \ {0}
  BY EmptySeq
<1>2. CASE Len(words) = 1
  BY <1>2 DEF Left
<1>3. CASE Len(words) # 1
  <2>1. /\ Left(words) = Tail(words)
        /\ Tail(words) \in Seq(Word) /\ Len(Tail(words)) = Len(words) - 1
        /\ \A i \in 1 .. Len(words) - 1 : Tail(words)[i] = words[i + 1]
    BY <1>3, HeadTailProperties DEF Left
  <2>2. \A n \in Nat \ {0} : n # 1 => n - 1 \in 1 .. n - 1 /\ n - 1 # 0 /\ n - 1 + 1 = n
    OBVIOUS
  <2>3. Tail(words) # <<>>
    BY <1>1, <1>3, <2>1, <2>2, EmptySeq
  <2>4. Tail(words)[Len(words) - 1] = words[Len(words)]
    BY <1>1, <1>3, <2>1, <2>2
  <2> QED
    BY <2>1, <2>3, <2>4 DEF Last
<1> QED
  BY <1>2, <1>3

\* What one pass of the loop does to what the first words say.
LEMMA ReadWordCounts ==
  ASSUME NEW k \in Nat, WordsRead(k), NEW word \in Word,
         k + 1 < Len(date), Len(date) \in Nat, word = date[k + 1],
         rest' \in Seq(Word), Len(rest') = Len(rest) - 1,
         \A i \in 1 .. Len(rest) - 1 : rest'[i] = rest[i + 1],
         date' = date,
         noStore' = (noStore \/ Fails(word)),
         lm' = IF Fails(word) \/ Field(word) = "none" THEN lm
               ELSE [lm EXCEPT ![Field(word)] = word]
  PROVE  WordsRead(k + 1)'
<1>1. /\ Len(rest') = Len(date) - (k + 1)
      /\ \A i \in 1 .. Len(rest') : rest'[i] = date[i + (k + 1)]
  <2>1. /\ Len(rest) = Len(date) - k
        /\ \A i \in 1 .. Len(rest) : rest[i] = date[i + k]
    BY DEF WordsRead
  <2>2. Len(rest') = Len(date) - (k + 1) /\ Len(rest) \in Int
    BY <2>1
  <2>3. ASSUME NEW i \in 1 .. Len(rest') PROVE rest'[i] = date[i + (k + 1)]
    <3>1. i \in 1 .. Len(rest) - 1 /\ i + 1 \in 1 .. Len(rest) /\ (i + 1) + k = i + (k + 1)
      BY <2>2
    <3>2. rest'[i] = rest[i + 1]
      BY <3>1
    <3>3. rest[i + 1] = date[(i + 1) + k]
      BY <2>1, <3>1
    <3> QED
      BY <3>1, <3>2, <3>3
  <2> QED
    BY <2>2, <2>3
<1>2. noStore' <=> \E i \in 1 .. k + 1 : Fails(date[i])
  <2>1. 1 .. k + 1 = 1 .. k \cup {k + 1}
    OBVIOUS
  <2> QED
    BY <2>1 DEF WordsRead
<1>3. lm' \in [TimeField -> Word]
  BY FieldIs DEF WordsRead
<1>4. ASSUME ~noStore', NEW i \in 1 .. k + 1, Field(date[i]) # "none",
             \A j \in i + 1 .. k + 1 : Field(date[j]) # Field(date[i])
      PROVE  lm'[Field(date[i])] = date[i]
  <2>1. ~noStore /\ ~Fails(word) /\ lm \in [TimeField -> Word]
    BY <1>4 DEF WordsRead
  <2>2. CASE i = k + 1
    <3>1. Field(word) \in TimeField
      BY <1>4, <2>2, FieldIs
    <3> QED
      BY <1>4, <2>1, <2>2, <3>1
  <2>3. CASE i # k + 1
    <3>1. i \in 1 .. k /\ k + 1 \in i + 1 .. k + 1 /\ \A j \in i + 1 .. k : j \in i + 1 .. k + 1
      BY <2>3
    <3>2. Field(word) # Field(date[i])
      BY <1>4, <3>1
    <3>3. lm[Field(date[i])] = date[i]
      BY <1>4, <2>1, <3>1 DEF WordsRead
    <3>4. lm'[Field(date[i])] = lm[Field(date[i])]
      BY <2>1, <3>2
    <3> QED
      BY <3>3, <3>4
  <2> QED
    BY <2>2, <2>3
<1>5. ASSUME NEW f \in TimeField, \A i \in 1 .. k + 1 : Field(date[i]) # f
      PROVE  lm'[f] = Zero
  <2>1. 1 .. k \subseteq 1 .. k + 1 /\ k + 1 \in 1 .. k + 1
    OBVIOUS
  <2>2. lm[f] = Zero /\ Field(word) # f /\ lm \in [TimeField -> Word]
    BY <1>5, <2>1 DEF WordsRead
  <2> QED
    BY <2>2
<1> QED
  BY <1>1, <1>2, <1>3, <1>4, <1>5 DEF WordsRead

\* To read one more word keeps the invariant.
LEMMA ReadWordStep ==
  ASSUME DateInv, ReadWord
  PROVE  DateInv'
<1>1. /\ reading = "looping" /\ rest # <<Gmt>> /\ date' = date
      /\ date \in Dates /\ rest \in Seq(Word) \ {<<>>} /\ Last(rest) = Last(date)
      /\ Last(date) = Gmt => \E k \in 0 .. Len(date) - 1 : WordsRead(k)
  BY DEF ReadWord, DateInv
<1> DEFINE word == rest[1]
<1>2. CASE Throws(word)
  <2>1. reading' = "thrown" /\ UNCHANGED <<rest, lm, noStore>>
    BY <1>2 DEF ReadWord
  <2> QED
    BY <1>1, <2>1 DEF DateInv, WordsRead
<1>3. CASE ~Throws(word)
  <2>1. /\ rest' = Left(rest) /\ reading' = "looping"
        /\ noStore' = (noStore \/ Fails(word))
        /\ lm' = IF Fails(word) \/ Field(word) = "none" THEN lm
                 ELSE [lm EXCEPT ![Field(word)] = word]
    BY <1>1, <1>3 DEF ReadWord
  <2>2. /\ rest' \in Seq(Word) \ {<<>>}
        /\ Last(rest') = Last(rest)
        /\ Len(rest) # 1 => /\ Len(rest') = Len(rest) - 1
                            /\ \A i \in 1 .. Len(rest) - 1 : rest'[i] = rest[i + 1]
    BY <1>1, <2>1, LeftIs
  <2>3. ASSUME Last(date) = Gmt
        PROVE  \E k \in 0 .. Len(date) - 1 : WordsRead(k)'
    <3>1. PICK k \in 0 .. Len(date) - 1 : WordsRead(k)
      BY <1>1, <2>3
    <3>2. date \in Seq(Word) \ {<<>>} /\ Len(date) \in Nat
      BY <1>1, DatesAssumption
    <3>3. Len(rest) \in Nat \ {0} /\ Len(rest) = Len(date) - k
      BY <1>1, <3>1, EmptySeq DEF WordsRead
    <3>4. Len(rest) # 1
      <4>1. SUFFICES ASSUME Len(rest) = 1
                     PROVE  FALSE
        OBVIOUS
      <4>2. rest[1] = Gmt
        BY <1>1, <2>3, <4>1 DEF Last
      <4>3. rest = <<rest[1]>>
        BY <1>1, <4>1
      <4> QED
        BY <1>1, <4>2, <4>3
    <3>5. /\ k \in Nat /\ k + 1 < Len(date) /\ k + 1 \in 0 .. Len(date) - 1
          /\ 1 \in 1 .. Len(rest)
      BY <3>2, <3>3, <3>4
    <3>6. word = date[k + 1] /\ word \in Word
      BY <1>1, <3>1, <3>5, ElementOfSeq DEF WordsRead
    <3> HIDE DEF word
    <3>7. WordsRead(k + 1)'
      BY <1>1, <2>1, <2>2, <3>1, <3>2, <3>4, <3>5, <3>6, ReadWordCounts
    <3> QED
      BY <3>5, <3>7
  <2> QED
    BY <1>1, <2>1, <2>2, <2>3 DEF DateInv
<1> QED
  BY <1>2, <1>3

\* The invariant of the loop over a date is kept by every step.
LEMMA DateInvariant == Spec => []DateInv
<1>1. Init => DateInv
  <2>1. Zero \in Word
    BY DEF Zero, Word
  <2> QED
    BY <2>1 DEF Init, DateInv
<1>2. DateInv /\ [Next]_vars => DateInv'
  <2> SUFFICES ASSUME DateInv, [Next]_vars PROVE DateInv'
    OBVIOUS
  <2>1. CASE Parse \/ UNCHANGED vars
    <3>1. UNCHANGED dateVars
      BY <2>1 DEF Parse, vars
    <3>2. /\ date' = date /\ rest' = rest /\ lm' = lm
          /\ noStore' = noStore /\ reading' = reading
      BY <3>1 DEF dateVars
    <3> QED
      BY <3>2 DEF DateInv, WordsRead
  <2>2. CASE ReadHeaders
    BY <2>2, ReadHeadersStep
  <2>3. CASE ReadWord
    BY <2>3, ReadWordStep
  <2>4. CASE DateEnds
    BY <2>4 DEF DateEnds, DateInv, WordsRead
  <2> QED
    BY <2>1, <2>2, <2>3, <2>4 DEF Next
<1> QED
  BY <1>1, <1>2, PTL DEF Spec

(***************************************************************************)
(* For a date of any number of words in any order: what makes the response *)
(* no-store, and otherwise which words its lifetime is computed from; a    *)
(* field for which there is no word is zero, and other words are ignored.  *)
(***************************************************************************)
THEOREM LifetimesAreFromDates == Spec => []LifetimeIsFromDate
<1>1. DateInv => LifetimeIsFromDate
  <2> SUFFICES ASSUME DateInv, reading = "done"
               PROVE  LET words == Front(date)
                          at(field) == {i \in DOMAIN words : Field(words[i]) = field}
                      IN  /\ noStore <=> \E w \in Range(words) :
                                \/ w.length = 3 /\ w.is # "month"
                                \/ w.length = 8 /\ w.is # "time"
                          /\ ~noStore => \A field \in TimeField :
                               lm[field] = IF at(field) = {} THEN Zero
                                           ELSE words[Max(at(field))]
    BY DEF LifetimeIsFromDate
  <2> DEFINE words == Front(date)
             at(field) == {i \in DOMAIN words : Field(words[i]) = field}
             n == Len(date) - 1
  <2>1. /\ date \in Seq(Word) \ {<<>>} /\ Len(date) \in Nat \ {0}
        /\ rest = <<Gmt>> /\ Last(rest) = Last(date)
    <3>1. date \in Seq(Word) \ {<<>>} /\ rest = <<Gmt>> /\ Last(rest) = Last(date)
      BY DatesAssumption DEF DateInv
    <3> QED
      BY <3>1, EmptySeq
  <2>2. Last(date) = Gmt
    BY <2>1 DEF Last
  <2>3. WordsRead(n)
    <3>1. PICK k \in 0 .. Len(date) - 1 : WordsRead(k)
      BY <2>2 DEF DateInv
    <3>2. k = Len(date) - 1
      BY <2>1, <3>1 DEF WordsRead
    <3> QED
      BY <3>1, <3>2
  <2>4. /\ n \in Nat /\ words \in Seq(Word) /\ DOMAIN words = 1 .. n
        /\ \A i \in 1 .. n : words[i] = date[i] /\ words[i] \in Word
    <3>1. n \in Nat /\ \A i \in 1 .. n : date[i] \in Word
      BY <2>1, ElementOfSeq
    <3>2. /\ words \in Seq(Word) /\ Len(words) = n
          /\ \A i \in 1 .. n : words[i] = date[i]
      <4>1. /\ SubSeq(date, 1, n) \in Seq(Word)
            /\ Len(SubSeq(date, 1, n)) = IF 1 <= n THEN n - 1 + 1 ELSE 0
            /\ \A i \in 1 .. n - 1 + 1 : SubSeq(date, 1, n)[i] = date[1 + i - 1]
        <5> HIDE DEF n
        <5> QED
          BY <3>1, SubSeqProperties
      <4> QED
        BY <2>1, <3>1, <4>1 DEF Front
    <3> QED
      BY <3>1, <3>2
  <2> HIDE DEF words, n
  <2>5. noStore <=> \E w \in Range(words) : \/ w.length = 3 /\ w.is # "month"
                                            \/ w.length = 8 /\ w.is # "time"
    <3>1. \A i \in 1 .. n : Fails(date[i]) <=> \/ words[i].length = 3 /\ words[i].is # "month"
                                               \/ words[i].length = 8 /\ words[i].is # "time"
      BY <2>4, FieldIs
    <3>2. Range(words) = {words[i] : i \in 1 .. n}
      BY <2>4 DEF Range
    <3> QED
      BY <2>3, <3>1, <3>2 DEF WordsRead
  <2>6. ASSUME ~noStore, NEW field \in TimeField, at(field) # {}
        PROVE  lm[field] = words[Max(at(field))]
    <3> DEFINE S == at(field)
               i == Max(S)
    <3>1. S \in SUBSET (1 .. n)
      BY <2>4
    <3>2. i \in S /\ \A j \in S : j <= i
      <4> S # {}
        BY <2>6
      <4> HIDE DEF S
      <4> QED
        BY <2>4, <3>1, MaxIs
    <3>3. i \in 1 .. n /\ Field(words[i]) = field /\ words[i] = date[i]
      BY <2>4, <3>2
    <3>4. \A j \in i + 1 .. n : Field(date[j]) # field
      <4> SUFFICES ASSUME NEW j \in i + 1 .. n, Field(date[j]) = field
                   PROVE  FALSE
        OBVIOUS
      <4>1. j \in 1 .. n /\ ~(j <= i)
        BY <2>4, <3>3
      <4>2. j \in S
        BY <2>4, <4>1
      <4> QED
        BY <3>2, <4>1, <4>2
    <3> HIDE DEF i
    <3>5. field # "none"
      BY DEF TimeField
    <3>6. Field(date[i]) = field
      BY <3>3
    <3>7. \A j \in i + 1 .. n : Field(date[j]) # Field(date[i])
      BY <3>4, <3>6
    <3>8. lm[Field(date[i])] = date[i]
      BY <2>3, <2>6, <3>3, <3>5, <3>6, <3>7 DEF WordsRead
    <3>9. lm[field] = words[i]
      BY <3>3, <3>6, <3>8
    <3> QED
      BY <3>9 DEF i
  <2>7. ASSUME NEW field \in TimeField, at(field) = {}
        PROVE  lm[field] = Zero
    <3>1. \A i \in 1 .. n : Field(date[i]) # field
      BY <2>4, <2>7
    <3> QED
      BY <2>3, <3>1 DEF WordsRead
  <2> HIDE DEF at
  <2>8. ~noStore => \A field \in TimeField :
          lm[field] = IF at(field) = {} THEN Zero ELSE words[Max(at(field))]
    BY <2>6, <2>7
  <2> QED
    BY <2>5, <2>8 DEF words, at
<1> QED
  BY <1>1, DateInvariant, PTL

\* A pass that goes on leaves one word less.
PassTakesAWord ==
  ReadWord /\ reading' = "looping" /\ Last(date) = Gmt => Len(rest') = Len(rest) - 1

(***************************************************************************)
(* Every pass over a date that ends in GMT takes one word off it, so that  *)
(* the loop ends as soon as the thread is given the time, whatever the     *)
(* words are.                                                              *)
(***************************************************************************)
THEOREM DateLoopAdvances == Spec => [][PassTakesAWord]_vars
<1>1. DateInv /\ [Next]_vars => [PassTakesAWord]_vars
  <2> SUFFICES ASSUME DateInv, ReadWord, reading' = "looping", Last(date) = Gmt
               PROVE  Len(rest') = Len(rest) - 1
    BY DEF PassTakesAWord
  <2>1. /\ reading = "looping" /\ rest # <<Gmt>>
        /\ rest \in Seq(Word) \ {<<>>} /\ Last(rest) = Gmt
    BY DEF ReadWord, DateInv
  <2>2. rest' = Left(rest)
    BY DEF ReadWord
  <2>3. Len(rest) # 1
    <3>1. Len(rest) = 1 => rest = <<rest[1]>> /\ rest[1] = Gmt
      BY <2>1 DEF Last
    <3> QED
      BY <2>1, <3>1
  <2> QED
    BY <2>1, <2>2, <2>3, LeftIs
<1> QED
  BY <1>1, DateInvariant, PTL DEF Spec
-------------------------------------------------------------------------------
(* The texts.  FlattenSeq is defined by a recursive function; here it is   *)
(* shown to satisfy its equation.                                          *)

\* f flattens the first n sequences of s.
Flattens(f, s, n) ==
  f = [i \in 1 .. n |-> IF i = 1 THEN s[i] ELSE f[i - 1] \o s[i]]

Flattened(s) == CHOOSE f : Flattens(f, s, Len(s))

\* Any number of sequences can be flattened.
LEMMA FlattensExists ==
  ASSUME NEW s
  PROVE  \A n \in Nat : \E f : Flattens(f, s, n)
<1> DEFINE S == {n \in Nat : ~\E f : Flattens(f, s, n)}
<1> SUFFICES ASSUME S # {}
             PROVE  FALSE
  OBVIOUS
<1>1. PICK n \in S : \A y \in S : n <= y
  <2> S \in SUBSET Nat
    OBVIOUS
  <2> HIDE DEF S
  <2> QED
    BY LeastNumber
<1>2. n \in Nat /\ ~\E f : Flattens(f, s, n)
  BY <1>1
<1>3. CASE n = 0
  <2> DEFINE f == [i \in 1 .. n |-> s[i]]
  <2>1. f = [i \in 1 .. n |-> IF i = 1 THEN s[i] ELSE f[i - 1] \o s[i]]
    BY <1>3
  <2> HIDE DEF f
  <2> QED
    BY <1>2, <2>1 DEF Flattens
<1>4. CASE n # 0
  <2>1. n - 1 \in Nat /\ ~(n <= n - 1)
    BY <1>2, <1>4
  <2>2. PICK f : Flattens(f, s, n - 1)
    BY <1>1, <2>1
  <2>3. f = [i \in 1 .. n - 1 |-> IF i = 1 THEN s[i] ELSE f[i - 1] \o s[i]]
    BY <2>2 DEF Flattens
  <2> DEFINE last == IF n = 1 THEN s[n] ELSE f[n - 1] \o s[n]
  <2> DEFINE g == [i \in 1 .. n |-> IF i < n THEN f[i] ELSE last]
  <2>4. ASSUME NEW i \in 1 .. n
        PROVE  g[i] = IF i = 1 THEN s[i] ELSE g[i - 1] \o s[i]
    <3>1. CASE i < n
      <4>1. i \in 1 .. n - 1 /\ (i # 1 => i - 1 \in 1 .. n /\ i - 1 < n)
        BY <1>2, <3>1
      <4>2. f[i] = IF i = 1 THEN s[i] ELSE f[i - 1] \o s[i]
        BY ONLY <2>3, <4>1
      <4> QED
        BY <3>1, <4>1, <4>2
    <3>2. CASE ~(i < n)
      <4>1. i = n /\ (n # 1 => n - 1 \in 1 .. n /\ n - 1 < n)
        BY <1>2, <1>4, <3>2
      <4> QED
        BY <3>2, <4>1
    <3> QED
      BY <3>1, <3>2
  <2>5. g = [i \in 1 .. n |-> IF i = 1 THEN s[i] ELSE g[i - 1] \o s[i]]
    <3>1. g = [i \in 1 .. n |-> g[i]]
      OBVIOUS
    <3> HIDE DEF g
    <3> QED
      BY <2>4, <3>1
  <2> HIDE DEF g
  <2> QED
    BY <1>2, <2>5 DEF Flattens
<1> QED
  BY <1>3, <1>4

\* FlattenSeq of a sequence of sequences is the last of the joins it defines.
LEMMA FlattenSeqIs ==
  ASSUME NEW s, Len(s) \in Nat
  PROVE  /\ FlattenSeq(s) = IF Len(s) = 0 THEN s ELSE Flattened(s)[Len(s)]
         /\ \A i \in 1 .. Len(s) :
              Flattened(s)[i] = IF i = 1 THEN s[i] ELSE Flattened(s)[i - 1] \o s[i]
<1>1. FlattenSeq(s) = IF Len(s) = 0 THEN s ELSE Flattened(s)[Len(s)]
  BY DEF FlattenSeq, Flattened, Flattens
<1> DEFINE f == Flattened(s)
<1>2. Flattens(f, s, Len(s))
  BY FlattensExists DEF Flattened
<1> HIDE DEF f
<1>3. f = [i \in 1 .. Len(s) |-> IF i = 1 THEN s[i] ELSE f[i - 1] \o s[i]]
  BY <1>2 DEF Flattens
<1>4. \A i \in 1 .. Len(s) : f[i] = IF i = 1 THEN s[i] ELSE f[i - 1] \o s[i]
  BY ONLY <1>3
<1> QED
  BY <1>1, <1>4 DEF f

\* What the map gets of a field's line.
Kept(field) == Tail(AfterColon(field))

\* The header section of a message up to its k-th field.
Lines(m) == [i \in DOMAIN m.fields |-> Line(m.fields[i])]

Upto(m, k) ==
  m.startLine \o CRLF \o (IF k = 0 THEN <<>> ELSE Flattened(Lines(m))[k])

\* A message has the parts that it is written with.
LEMMA MessageType ==
  ASSUME NEW m \in Messages
  PROVE  /\ m.startLine \in Seq(Character) /\ Len(m.startLine) \in Nat /\ Len(m.startLine) >= 2
         /\ \A i \in 1 .. Len(m.startLine) : m.startLine[i] \in {":", "x"}
         /\ m.body \in Seq(Character)
         /\ Len(m.fields) \in Nat /\ DOMAIN m.fields = 1 .. Len(m.fields)
         /\ \A i \in 1 .. Len(m.fields) :
              /\ m.fields[i].name \in Seq({"x"})
              /\ AfterColon(m.fields[i]) \in Seq({":", "x"}) \ {<<>>}
<1> DEFINE T == [name : Seq({"x"}), space : BOOLEAN, content : Seq({":", "x"})]
<1>1. /\ m.startLine \in Seq({":", "x"}) /\ Len(m.startLine) >= 2
      /\ m.fields \in Seq(T)
      /\ m.body \in Seq(Character)
  BY MessagesAssumption
<1>2. {":", "x"} \subseteq Character
  BY DEF Character, CR, LF
<1>3. m.startLine \in Seq(Character)
  BY <1>1, <1>2, SeqMonotonic
<1>4. \A i \in 1 .. Len(m.startLine) : m.startLine[i] \in {":", "x"}
  BY <1>1, ElementOfSeq
<1>5. \A i \in 1 .. Len(m.fields) : m.fields[i] \in T
  <2> HIDE DEF T
  <2> QED
    BY <1>1, ElementOfSeq
<1>6. Len(m.fields) \in Nat /\ DOMAIN m.fields = 1 .. Len(m.fields) /\ Len(m.startLine) \in Nat
  <2> HIDE DEF T
  <2> QED
    BY <1>1, LenProperties
<1>7. ASSUME NEW i \in 1 .. Len(m.fields)
      PROVE  AfterColon(m.fields[i]) \in Seq({":", "x"}) \ {<<>>}
  <2> DEFINE f == m.fields[i]
             gap == IF f.space THEN <<"x">> ELSE <<>>
  <2>1. /\ f.content \in Seq({":", "x"}) /\ f.space \in BOOLEAN
        /\ f.space \/ f.content # <<>>
    BY <1>5, <1>6, MessagesAssumption
  <2> HIDE DEF f
  <2>2. gap \in Seq({":", "x"}) /\ (f.space => gap = <<"x">>)
    <3>1. <<"x">> \in Seq({":", "x"}) /\ <<>> \in Seq({":", "x"})
      OBVIOUS
    <3> QED
      BY <3>1
  <2> HIDE DEF gap
  <2>3. /\ gap \o f.content \in Seq({":", "x"})
        /\ Len(gap \o f.content) = Len(gap) + Len(f.content)
    BY <2>1, <2>2, ConcatProperties
  <2>4. Len(gap) \in Nat /\ Len(f.content) \in Nat /\ (Len(gap) # 0 \/ Len(f.content) # 0)
    BY <2>1, <2>2, LenProperties, EmptySeq
  <2>5. gap \o f.content # <<>>
    BY <2>3, <2>4
  <2> QED
    BY <2>3, <2>5 DEF AfterColon, gap, f
<1> QED
  BY <1>1, <1>3, <1>4, <1>5, <1>6, <1>7

\* What a line of a header consists of, character by character.
LEMMA LineIs ==
  ASSUME NEW field, field.name \in Seq({"x"}), AfterColon(field) \in Seq({":", "x"}) \ {<<>>}
  PROVE  LET a == Len(field.name)
             b == Len(Kept(field))
             l == Line(field)
         IN  /\ a \in Nat /\ b \in Nat /\ Kept(field) \in Seq({":", "x"})
             /\ l \in Seq(Character) /\ Len(l) = a + b + 4
             /\ \A i \in 1 .. a : l[i] = field.name[i] /\ l[i] = "x"
             /\ l[a + 1] = ":" /\ l[a + 2] \in {":", "x"}
             /\ \A i \in 1 .. b : l[a + 2 + i] = Kept(field)[i] /\ l[a + 2 + i] \in {":", "x"}
             /\ l[a + b + 3] = CR /\ l[a + b + 4] = LF
<1> DEFINE n1 == field.name
           q == Head(AfterColon(field))
           c == Kept(field)
           a == Len(n1)
           b == Len(c)
           n2 == n1 \o <<":", q>>
           n3 == n2 \o c
           l == n3 \o CRLF
<1>1. /\ {"x"} \subseteq Character /\ {":", "x"} \subseteq Character
      /\ {CR, LF} \subseteq Character
  BY DEF Character
<1>2. n1 \in Seq(Character) /\ a \in Nat /\ \A i \in 1 .. a : n1[i] = "x"
  <2>1. \A i \in 1 .. a : n1[i] \in {"x"}
    BY ElementOfSeq
  <2> QED
    BY <1>1, <2>1, SeqMonotonic, LenProperties
<1>0. /\ c \in Seq({":", "x"}) /\ q \in {":", "x"} /\ AfterColon(field) = <<q>> \o c
  <2> DEFINE w == AfterColon(field)
  <2>1. w \in Seq({":", "x"}) /\ w # <<>>
    OBVIOUS
  <2> HIDE DEF w
  <2>2. /\ Head(w) \in {":", "x"} /\ Tail(w) \in Seq({":", "x"})
        /\ w = <<Head(w)>> \o Tail(w)
    BY <2>1, HeadTailProperties
  <2> QED
    BY <2>2 DEF w, Kept
<1>3. c \in Seq(Character) /\ b \in Nat /\ \A i \in 1 .. b : c[i] \in {":", "x"}
  BY <1>0, <1>1, SeqMonotonic, LenProperties, ElementOfSeq
<1>4. <<":", q>> \in Seq(Character) /\ CRLF \in Seq(Character)
  BY <1>0, <1>1 DEF CRLF
<1>5. Line(field) = l
  <2>1. /\ <<":">> \in Seq(Character) /\ <<q>> \in Seq(Character) /\ n1 \in Seq(Character)
        /\ n1 \o <<":">> \in Seq(Character) /\ <<":">> \o <<q>> = <<":", q>>
    <3>1. ":" \in Character /\ q \in Character
      BY <1>0, <1>1
    <3> HIDE DEF q, n1, a
    <3>2. <<":">> \in Seq(Character) /\ <<q>> \in Seq(Character) /\ n1 \in Seq(Character)
      BY <1>2, <3>1
    <3>3. n1 \o <<":">> \in Seq(Character)
      BY <3>2, ConcatProperties
    <3>4. <<":">> \o <<q>> = <<":", q>>
      <4>1. /\ <<":">> \o <<q>> \in Seq(Character) /\ Len(<<":">> \o <<q>>) = 2
            /\ (<<":">> \o <<q>>)[1] = ":" /\ (<<":">> \o <<q>>)[2] = q
        BY <3>2, ConcatProperties
      <4>2. /\ <<":", q>> \in Seq(Character) /\ Len(<<":", q>>) = 2
            /\ <<":", q>>[1] = ":" /\ <<":", q>>[2] = q
        BY <3>1
      <4>3. \A i \in 1 .. 2 : (<<":">> \o <<q>>)[i] = <<":", q>>[i]
        <5>1. \A i \in 1 .. 2 : i = 1 \/ i = 2
          OBVIOUS
        <5> QED
          BY <4>1, <4>2, <5>1
      <4> QED
        BY <4>1, <4>2, <4>3, SeqEqual
    <3> QED
      BY <3>2, <3>3, <3>4
  <2> HIDE DEF q, c, n1
  <2>2. (n1 \o <<":">>) \o (<<q>> \o c) = ((n1 \o <<":">>) \o <<q>>) \o c
    BY <1>3, <2>1, ConcatAssociative
  <2>3. (n1 \o <<":">>) \o <<q>> = n1 \o (<<":">> \o <<q>>)
    BY <2>1, ConcatAssociative
  <2>4. Line(field) = (n1 \o <<":">>) \o (<<q>> \o c) \o CRLF
    BY <1>0 DEF Line, n1
  <2> QED
    BY <2>1, <2>2, <2>3, <2>4
<1> HIDE DEF q
<1> HIDE DEF a, b, c
<1>6. /\ n2 \in Seq(Character) /\ Len(n2) = a + 2
      /\ \A i \in 1 .. a : n2[i] = n1[i]
      /\ n2[a + 1] = ":" /\ n2[a + 2] \in {":", "x"}
  BY <1>0, <1>2, <1>4, ConcatProperties DEF a
<1> HIDE DEF n1, n2
<1>7. /\ n3 \in Seq(Character) /\ Len(n3) = a + 2 + b
      /\ \A i \in 1 .. a + 2 : n3[i] = n2[i]
      /\ \A i \in 1 .. b : n3[a + 2 + i] = c[i]
  <2>1. /\ n3 \in Seq(Character) /\ Len(n3) = a + 2 + b
        /\ \A i \in 1 .. a + 2 + b : n3[i] = IF i <= a + 2 THEN n2[i] ELSE c[i - (a + 2)]
    <3>0. n2 \in Seq(Character) /\ c \in Seq(Character)
      BY <1>3, <1>6
    <3>1. /\ n3 \in Seq(Character) /\ Len(n3) = Len(n2) + Len(c)
          /\ \A i \in 1 .. Len(n2) + Len(c) :
               n3[i] = IF i <= Len(n2) THEN n2[i] ELSE c[i - Len(n2)]
      BY <3>0, ConcatProperties, Zenon
    <3> HIDE DEF n3
    <3> QED
      BY <1>6, <3>1 DEF b
  <2>2. \A i \in 1 .. a + 2 : i \in 1 .. a + 2 + b /\ i <= a + 2
    BY <1>2, <1>3
  <2>3. \A i \in 1 .. b : /\ a + 2 + i \in 1 .. a + 2 + b /\ ~(a + 2 + i <= a + 2)
                          /\ (a + 2 + i) - (a + 2) = i
    BY <1>2, <1>3
  <2> HIDE DEF n3
  <2> QED
    BY <2>1, <2>2, <2>3
<1> HIDE DEF n3
<1>8. /\ l \in Seq(Character) /\ Len(l) = a + 2 + b + 2
      /\ \A i \in 1 .. a + 2 + b : l[i] = n3[i]
      /\ l[a + b + 3] = CR /\ l[a + b + 4] = LF
  <2>1. /\ l \in Seq(Character) /\ Len(l) = a + 2 + b + 2
        /\ \A i \in 1 .. a + 2 + b + 2 : l[i] = IF i <= a + 2 + b THEN n3[i]
                                                ELSE CRLF[i - (a + 2 + b)]
    <3> DEFINE r == CRLF
    <3>1. Len(r) = 2 /\ r \in Seq(Character)
      BY <1>4 DEF CRLF
    <3>2. a + 2 + b \in Nat
      BY <1>2, <1>3
    <3> HIDE DEF r
    <3>3. /\ n3 \o r \in Seq(Character) /\ Len(n3 \o r) = Len(n3) + Len(r)
          /\ \A i \in 1 .. Len(n3) + Len(r) :
               (n3 \o r)[i] = IF i <= Len(n3) THEN n3[i] ELSE r[i - Len(n3)]
      BY <1>7, <3>1, ConcatProperties
    <3> QED
      BY <1>7, <3>1, <3>2, <3>3 DEF r
  <2>2. \A i \in 1 .. a + 2 + b : i \in 1 .. a + 2 + b + 2 /\ i <= a + 2 + b
    BY <1>2, <1>3
  <2>3. \A i \in 1 .. 2 :
          /\ a + b + 2 + i \in 1 .. a + 2 + b + 2 /\ ~(a + b + 2 + i <= a + 2 + b)
          /\ (a + b + 2 + i) - (a + 2 + b) = i
    BY <1>2, <1>3
  <2> HIDE DEF l
  <2>4. \A i \in 1 .. 2 : l[a + b + 2 + i] = CRLF[i]
    BY <2>1, <2>3
  <2>5. l[a + b + 2 + 1] = CR /\ l[a + b + 2 + 2] = LF
    BY <2>4 DEF CRLF
  <2>6. a + b + 2 + 1 = a + b + 3 /\ a + b + 2 + 2 = a + b + 4
    BY <1>2, <1>3
  <2> QED
    BY <2>1, <2>2, <2>5, <2>6
<1> HIDE DEF l
<1>9. /\ \A i \in 1 .. a : l[i] = n1[i] /\ l[i] = "x"
      /\ l[a + 1] = ":" /\ l[a + 2] \in {":", "x"}
      /\ \A i \in 1 .. b : l[a + 2 + i] = c[i] /\ l[a + 2 + i] \in {":", "x"}
  <2>1. \A i \in 1 .. a : i \in 1 .. a + 2 /\ i \in 1 .. a + 2 + b
    BY <1>2, <1>3
  <2>2. a + 1 \in 1 .. a + 2 /\ a + 2 \in 1 .. a + 2
        /\ a + 1 \in 1 .. a + 2 + b /\ a + 2 \in 1 .. a + 2 + b
    BY <1>2, <1>3
  <2>3. \A i \in 1 .. b : a + 2 + i \in 1 .. a + 2 + b
    BY <1>2, <1>3
  <2> QED
    <3>1. \A i \in 1 .. a : l[i] = n1[i] /\ l[i] = "x"
      BY <1>2, <1>6, <1>7, <1>8, <2>1
    <3>2. l[a + 1] = ":" /\ l[a + 2] \in {":", "x"}
      BY <1>6, <1>7, <1>8, <2>2
    <3>3. \A i \in 1 .. b : l[a + 2 + i] = c[i] /\ l[a + 2 + i] \in {":", "x"}
      BY <1>3, <1>7, <1>8, <2>3
    <3> QED
      BY <3>1, <3>2, <3>3
<1>10. Len(l) = a + b + 4
  BY <1>2, <1>3, <1>8
<1> QED
  BY <1>0, <1>2, <1>3, <1>5, <1>8, <1>9, <1>10 DEF a, b, c, n1

\* The header section grows by a line with each field.
LEMMA UptoIs ==
  ASSUME NEW m \in Messages
  PROVE  /\ Upto(m, 0) = m.startLine \o CRLF
         /\ \A k \in 0 .. Len(m.fields) : Upto(m, k) \in Seq(Character)
         /\ \A k \in 1 .. Len(m.fields) : Upto(m, k) = Upto(m, k - 1) \o Line(m.fields[k])
         /\ HeaderPart(m) = Upto(m, Len(m.fields))
<1> DEFINE n == Len(m.fields)
           s == Lines(m)
           base == m.startLine \o CRLF
<1>1. /\ n \in Nat /\ base \in Seq(Character)
      /\ s \in Seq(Seq(Character)) /\ Len(s) = n
      /\ \A i \in 1 .. n : s[i] = Line(m.fields[i]) /\ s[i] \in Seq(Character)
  <2>1. CRLF \in Seq(Character)
    BY DEF CRLF, Character
  <2>2. \A i \in 1 .. n : Line(m.fields[i]) \in Seq(Character)
    BY MessageType, LineIs
  <2>3. s = [i \in 1 .. n |-> Line(m.fields[i])]
    BY MessageType DEF Lines
  <2> QED
    BY <2>1, <2>2, <2>3, MessageType, ConcatProperties, IsASeq
<1> HIDE DEF n, s, base
<1>2. \A k \in 1 .. n :
        Flattened(s)[k] = IF k = 1 THEN s[k] ELSE Flattened(s)[k - 1] \o s[k]
  BY <1>1, FlattenSeqIs
<1>3. \A k \in 1 .. n : Flattened(s)[k] \in Seq(Character)
  <2> DEFINE S == {k \in Nat : k \in 1 .. n /\ Flattened(s)[k] \notin Seq(Character)}
  <2> SUFFICES ASSUME S # {}
               PROVE  FALSE
    BY <1>1
  <2>1. PICK k \in S : \A y \in S : k <= y
    <3> S \in SUBSET Nat
      OBVIOUS
    <3> HIDE DEF S
    <3> QED
      BY LeastNumber
  <2>2. k \in 1 .. n /\ Flattened(s)[k] \notin Seq(Character)
    BY <2>1
  <2>3. k # 1
    BY <1>1, <1>2, <2>2
  <2>4. k - 1 \in 1 .. n /\ ~(k <= k - 1)
    BY <1>1, <2>2, <2>3
  <2>5. Flattened(s)[k - 1] \in Seq(Character)
    BY <2>1, <2>4
  <2>6. Flattened(s)[k] = Flattened(s)[k - 1] \o s[k]
    BY <1>2, <2>2, <2>3
  <2> QED
    BY <1>1, <2>2, <2>5, <2>6, ConcatProperties
<1>4. Upto(m, 0) = base /\ \A k \in 1 .. n : Upto(m, k) = base \o Flattened(s)[k]
  <2>1. Upto(m, 0) = base \o <<>>
    BY DEF Upto, base
  <2>2. base \o <<>> = base
    BY <1>1, ConcatEmptySeq
  <2>3. ASSUME NEW k \in 1 .. n
        PROVE  Upto(m, k) = base \o Flattened(s)[k]
    <3>1. k # 0
      BY <1>1
    <3> QED
      BY <3>1 DEF Upto, base, s
  <2> QED
    BY <2>1, <2>2, <2>3
<1>5. ASSUME NEW k \in 0 .. n
      PROVE  Upto(m, k) \in Seq(Character)
  <2>1. k = 0 \/ k \in 1 .. n
    BY <1>1
  <2>2. CASE k = 0
    BY <1>1, <1>4, <2>2
  <2>3. CASE k \in 1 .. n
    <3> DEFINE t == Flattened(s)[k]
    <3>1. t \in Seq(Character) /\ Upto(m, k) = base \o t
      BY <1>3, <1>4, <2>3
    <3> HIDE DEF t
    <3> QED
      BY <1>1, <3>1, ConcatProperties
  <2> QED
    BY <2>1, <2>2, <2>3
<1>6. ASSUME NEW k \in 1 .. n
      PROVE  Upto(m, k) = Upto(m, k - 1) \o Line(m.fields[k])
  <2>1. CASE k = 1
    <3>1. 1 \in 1 .. n /\ k - 1 = 0
      BY <2>1
    <3>2. Flattened(s)[1] = s[1] /\ s[1] = Line(m.fields[1])
      BY <1>1, <1>2, <3>1
    <3>3. Upto(m, 1) = base \o s[1]
      BY <1>4, <3>1, <3>2
    <3> QED
      BY <1>4, <2>1, <3>1, <3>2, <3>3
  <2>2. CASE k # 1
    <3>1. k - 1 \in 1 .. n
      BY <1>1, <2>2
    <3>2. Flattened(s)[k] = Flattened(s)[k - 1] \o s[k]
      BY <1>2, <2>2
    <3> DEFINE before == Flattened(s)[k - 1]
               line == s[k]
    <3>3. before \in Seq(Character) /\ line \in Seq(Character)
      BY <1>1, <1>3, <3>1
    <3> HIDE DEF before, line
    <3>4. (base \o before) \o line = base \o (before \o line)
      <4>1. base \in Seq(Character)
        BY <1>1
      <4> QED
        BY ONLY <3>3, <4>1, ConcatAssociative
    <3> QED
      BY <1>1, <1>4, <3>1, <3>2, <3>4 DEF before, line
  <2> QED
    BY <2>1, <2>2
<1>7. HeaderPart(m) = Upto(m, n)
  <2>1. HeaderPart(m) = base \o FlattenSeq(s)
    BY DEF HeaderPart, base, s, Lines
  <2>2. FlattenSeq(s) = IF n = 0 THEN s ELSE Flattened(s)[n]
    BY <1>1, FlattenSeqIs
  <2>3. CASE n = 0
    <3>1. s = <<>>
      BY <1>1, <2>3, EmptySeq
    <3>2. base \o <<>> = base
      BY <1>1, ConcatEmptySeq
    <3> QED
      BY <1>4, <2>1, <2>2, <2>3, <3>1, <3>2
  <2>4. CASE n # 0
    <3>1. n \in 1 .. n
      BY <1>1, <2>4
    <3> QED
      BY <1>4, <2>1, <2>2, <2>4, <3>1
  <2> QED
    BY <2>3, <2>4
<1> QED
  BY <1>4, <1>5, <1>6, <1>7 DEF n, base

\* The whole header section, with the empty line, and what the first recv may
\* have returned of it.
LEMMA SectionType ==
  ASSUME NEW m \in Messages
  PROVE  /\ HeaderPart(m) \in Seq(Character) /\ Len(HeaderPart(m)) \in Nat
         /\ HeaderPart(m) \o CRLF \in Seq(Character)
         /\ Len(HeaderPart(m) \o CRLF) = Len(HeaderPart(m)) + 2
         /\ Text(m) \in Seq(Character) /\ Len(Text(m)) \in Nat
         /\ Len(HeaderPart(m) \o CRLF) + 3 < 2 ^ Width
         /\ Len(Text(m)) + 3 < 2 ^ Width
<1>1. HeaderPart(m) \in Seq(Character) /\ m.body \in Seq(Character)
  <2>1. Len(m.fields) \in 0 .. Len(m.fields)
    BY MessageType
  <2> QED
    BY <2>1, MessageType, UptoIs
<1>2. CRLF \in Seq(Character) /\ Len(CRLF) = 2
  BY DEF CRLF, Character
<1> DEFINE h == HeaderPart(m)
           c == CRLF
           e == h \o c
<1> HIDE DEF c, h
<1>3. /\ h \in Seq(Character) /\ Len(h) \in Nat
      /\ e \in Seq(Character) /\ Len(e) = Len(h) + 2 /\ Len(e) \in Nat
  <2>1. h \in Seq(Character) /\ c \in Seq(Character) /\ Len(c) = 2 /\ Len(h) \in Nat
    BY <1>1, <1>2, LenProperties DEF h, c
  <2>2. e \in Seq(Character) /\ Len(e) = Len(h) + Len(c)
    BY <2>1, ConcatProperties
  <2> HIDE DEF e
  <2> QED
    BY <2>1, <2>2
<1> HIDE DEF e
<1>4. /\ e \o m.body \in Seq(Character) /\ Len(e \o m.body) = Len(e) + Len(m.body)
      /\ Len(m.body) \in Nat
  BY <1>1, <1>3, ConcatProperties, LenProperties
<1>5. Text(m) = e \o m.body
  BY DEF Text, e, c, h
<1>6. 2 ^ Width \in Nat /\ Len(Text(m)) + 3 < 2 ^ Width
  BY TextsAssumption DEF Texts
<1>7. Len(e) + 3 < 2 ^ Width
  BY <1>3, <1>4, <1>5, <1>6
<1>8. Len(Text(m)) \in Nat
  BY <1>3, <1>4, <1>5
<1>9. h \o c \in Seq(Character) /\ Len(h \o c) = Len(h) + 2 /\ Len(h \o c) + 3 < 2 ^ Width
  BY <1>3, <1>7 DEF e
<1> QED
  BY <1>3, <1>4, <1>5, <1>6, <1>8, <1>9 DEF c, h

\* A part of a message is its first n characters.
LEMMA CutTextIs ==
  ASSUME NEW t \in CutTexts
  PROVE  \E m \in Messages : \E n \in 1 .. Len(HeaderPart(m)) + 1 :
           /\ t \in Seq(Character) /\ Len(t) = n /\ n + 3 < 2 ^ Width
           /\ \A i \in 1 .. n : t[i] = (HeaderPart(m) \o CRLF)[i]
<1>1. PICK m \in Messages : \E n \in 1 .. Len(HeaderPart(m) \o CRLF) - 1 :
        t = SubSeq(HeaderPart(m) \o CRLF, 1, n)
  BY DEF CutTexts
<1> DEFINE e == HeaderPart(m) \o CRLF
<1>2. PICK n \in 1 .. Len(e) - 1 : t = SubSeq(e, 1, n)
  BY <1>1
<1>3. /\ e \in Seq(Character) /\ Len(e) = Len(HeaderPart(m)) + 2
      /\ Len(HeaderPart(m)) \in Nat /\ Len(e) + 3 < 2 ^ Width /\ 2 ^ Width \in Nat
  BY SectionType, TextsAssumption
<1> HIDE DEF e
<1>4. n \in Nat /\ n \in 1 .. Len(HeaderPart(m)) + 1 /\ n + 3 < 2 ^ Width
  BY <1>2, <1>3
<1>5. \A i \in 1 .. n : e[i] \in Character
  BY <1>2, <1>3, ElementOfSeq
<1>6. /\ SubSeq(e, 1, n) \in Seq(Character)
      /\ Len(SubSeq(e, 1, n)) = IF 1 <= n THEN n - 1 + 1 ELSE 0
      /\ \A i \in 1 .. n - 1 + 1 : SubSeq(e, 1, n)[i] = e[1 + i - 1]
  BY <1>4, <1>5, SubSeqProperties
<1>7. /\ t \in Seq(Character) /\ Len(t) = n
      /\ \A i \in 1 .. n : t[i] = e[i]
  BY <1>2, <1>4, <1>6
<1> QED
  BY <1>4, <1>7 DEF e

\* Every text is one of characters, shorter than what size_t can count.
LEMMA TextType ==
  ASSUME NEW t \in Texts \cup CutTexts \cup Others
  PROVE  t \in Seq(Character) /\ Len(t) \in Nat /\ Len(t) + 3 < 2 ^ Width
<1>1. CASE t \in CutTexts
  BY <1>1, CutTextIs, LenProperties
<1>2. CASE t \in Texts \cup Others
  BY <1>2, TextsAssumption, LenProperties
<1> QED
  BY <1>1, <1>2
-------------------------------------------------------------------------------
(* The loop over the header section.                                       *)

\* size_t can count the characters of the text.
Countable ==
  msg \in Seq(Character) /\ Len(msg) \in Nat /\ Len(msg) + 3 < 2 ^ Width

\* The positions of the loop are within the text, or npos has sent it to 1.
Positions ==
  /\ Countable
  /\ outcome \in {"looping", "accepted", "refused", "thrown"}
  /\ lastPos \in 0 .. Len(msg) + 1
  /\ nextPos \in 0 .. Len(msg) \cup {npos}
  /\ nextPos = npos => lastPos = 1

\* A search returns the first position of such a character, or npos.
Finds(chars, pos, i) ==
  /\ i \in pos .. Len(msg) - 1
  /\ msg[i + 1] \in chars
  /\ \A j \in pos .. i - 1 : msg[j + 1] \notin chars

FindsNone(chars, pos, i) ==
  /\ i = npos
  /\ \A j \in pos .. Len(msg) - 1 : msg[j + 1] \notin chars

\* FindFirstOf is such a search.
LEMMA FindFirstOfIs ==
  ASSUME NEW chars, NEW pos \in Nat, Len(msg) \in Nat
  PROVE  \/ Finds(chars, pos, FindFirstOf(chars, pos))
         \/ FindsNone(chars, pos, FindFirstOf(chars, pos))
<1> DEFINE found == {i \in pos .. Len(msg) - 1 : msg[i + 1] \in chars}
<1>1. CASE found = {}
  BY <1>1 DEF FindFirstOf, FindsNone
<1>2. CASE found # {}
  <2>1. FindFirstOf(chars, pos) = Min(found)
    BY <1>2 DEF FindFirstOf
  <2>2. Min(found) \in found /\ \A y \in found : Min(found) <= y
    <3> found \in SUBSET Nat
      OBVIOUS
    <3> HIDE DEF found
    <3> QED
      BY <1>2, MinIs
  <2> DEFINE i == Min(found)
  <2>3. i \in pos .. Len(msg) - 1 /\ msg[i + 1] \in chars
    BY <2>2
  <2>4. ASSUME NEW j \in pos .. i - 1, msg[j + 1] \in chars
        PROVE  FALSE
    <3>1. j \in found /\ ~(i <= j)
      BY <2>3, <2>4
    <3> QED
      BY <2>2, <3>1
  <2> HIDE DEF i
  <2>5. Finds(chars, pos, i)
    BY <2>3, <2>4 DEF Finds
  <2> QED
    BY <2>1, <2>5 DEF i
<1> QED
  BY <1>1, <1>2

\* Within a text the sums are those of numbers; npos + 2 is 1.
LEMMA PlusIs ==
  ASSUME Countable
  PROVE  /\ \A i \in 0 .. Len(msg) : Plus(i, 2) = i + 2
         /\ Plus(npos, 2) = 1
         /\ npos \in Nat /\ npos > Len(msg) + 2
         /\ \A i, j \in 0 .. Len(msg) : j <= i => Plus(i, -j) = i - j
<1>1. Len(msg) \in Nat /\ 2 ^ Width \in Nat /\ Len(msg) + 3 < 2 ^ Width
  BY TextsAssumption DEF Countable
<1> DEFINE w == 2 ^ Width
<1> HIDE DEF w
<1>2. /\ w \in Nat /\ Len(msg) + 3 < w /\ npos = w - 1
      /\ \A i, j : Plus(i, j) = (i + j) % w
  BY <1>1 DEF w, Plus, npos
<1>3. \A x \in Nat : x < w => x % w = x
  BY <1>2
<1>4. (w + 1) % w = 1
  BY <1>2
<1>5. \A i \in 0 .. Len(msg) : i + 2 \in Nat /\ i + 2 < w
  BY <1>1, <1>2
<1>6. \A i, j \in 0 .. Len(msg) : j <= i => i + (-j) = i - j /\ i - j \in Nat /\ i - j < w
  BY <1>1, <1>2
<1>7. (w - 1) + 2 = w + 1
  BY <1>2
<1>8. \A i \in 0 .. Len(msg) : Plus(i, 2) = i + 2
  BY <1>2, <1>3, <1>5
<1>9. Plus(npos, 2) = 1
  BY <1>2, <1>4, <1>7
<1>10. npos \in Nat /\ npos > Len(msg) + 2
  BY <1>1, <1>2
<1>11. ASSUME NEW i \in 0 .. Len(msg), NEW j \in 0 .. Len(msg), j <= i
       PROVE  Plus(i, -j) = i - j
  <2>1. i + (-j) = i - j /\ i - j \in Nat /\ i - j < w
    BY <1>6, <1>11
  <2>2. (i - j) % w = i - j
    BY <1>3, <2>1
  <2> QED
    BY <1>2, <2>1, <2>2
<1> QED
  BY <1>8, <1>9, <1>10, <1>11

(***************************************************************************)
(* What a pass does: colon, start and eol are the positions that it comes  *)
(* through.  Each is found, or the search has returned npos.               *)
(***************************************************************************)
Pass(colon, start, eol) ==
  /\ \/ Finds({":"}, lastPos, colon) /\ start = colon + 2
     \/ FindsNone({":"}, lastPos, colon) /\ start = 1
  /\ start \in 1 .. Len(msg)
  /\ \/ Finds(EndOfLine, start, eol) /\ lastPos' = eol + 2
     \/ FindsNone(EndOfLine, start, eol) /\ lastPos' = 1
  /\ nextPos' = eol
  /\ nextPos <= lastPos'
  /\ headers' = Insert(Substr(lastPos, Plus(colon, -lastPos)), Substr(start, Plus(eol, -start)))
  /\ msg' = msg

\* A pass that does not end the loop is Pass.
LEMMA PassIs ==
  ASSUME Positions, ParseHeaders, outcome' = "looping"
  PROVE  /\ outcome = "looping" /\ lastPos <= Len(msg) /\ ~AtEmptyLine
         /\ \E colon, start, eol : Pass(colon, start, eol)
<1>1. outcome = "looping" /\ lastPos <= Len(msg) /\ ~AtEmptyLine /\ Header
  BY DEF ParseHeaders, Ends, Positions
<1> DEFINE colon == FindFirstOf({":"}, lastPos)
           start == Plus(colon, 2)
           eol == FindFirstOf(EndOfLine, start)
           next == Plus(eol, 2)
<1>2. /\ ~(start > Len(msg)) /\ ~(nextPos > next)
      /\ headers' = Insert(Substr(lastPos, Plus(colon, -lastPos)),
                           Substr(start, Plus(eol, -start)))
      /\ lastPos' = next /\ nextPos' = eol /\ msg' = msg
  BY <1>1 DEF Header, Ends, MovedBack
<1>3. /\ lastPos \in Nat /\ Len(msg) \in Nat /\ nextPos \in Nat
      /\ Countable
  BY PlusIs DEF Positions, Countable
<1>4. \/ Finds({":"}, lastPos, colon) /\ start = colon + 2 /\ colon \in Nat
      \/ FindsNone({":"}, lastPos, colon) /\ start = 1
  <2>1. CASE Finds({":"}, lastPos, colon)
    <3> HIDE DEF colon
    <3>1. colon \in 0 .. Len(msg)
      BY <1>3, <2>1 DEF Finds
    <3> QED
      BY <1>3, <2>1, <3>1, PlusIs
  <2>2. CASE FindsNone({":"}, lastPos, colon)
    BY <1>3, <2>2, PlusIs DEF FindsNone
  <2> QED
    BY <1>3, <2>1, <2>2, FindFirstOfIs
<1> HIDE DEF colon
<1>5. start \in Nat /\ start \in 1 .. Len(msg)
  <2> HIDE DEF start
  <2> QED
    BY <1>2, <1>3, <1>4 DEF start
<1> HIDE DEF start
<1>6. \/ Finds(EndOfLine, start, eol) /\ next = eol + 2 /\ next \in Nat
      \/ FindsNone(EndOfLine, start, eol) /\ next = 1
  <2>1. CASE Finds(EndOfLine, start, eol)
    <3> HIDE DEF eol
    <3>1. eol \in 0 .. Len(msg)
      BY <1>3, <1>5, <2>1 DEF Finds
    <3> QED
      BY <1>3, <2>1, <3>1, PlusIs
  <2>2. CASE FindsNone(EndOfLine, start, eol)
    BY <1>3, <2>2, PlusIs DEF FindsNone
  <2> QED
    BY <1>3, <1>5, <2>1, <2>2, FindFirstOfIs
<1> HIDE DEF eol, next
<1>7. nextPos <= next
  BY <1>2, <1>3, <1>6
<1>8. Pass(colon, start, eol)
  BY <1>2, <1>4, <1>5, <1>6, <1>7 DEF Pass
<1> QED
  BY <1>1, <1>8

\* The positions stay within the text.
LEMMA PositionsKept ==
  /\ ParserInit => Positions
  /\ Positions /\ [ParseHeaders]_parser => Positions'
<1>1. ASSUME ParserInit PROVE Positions
  <2>1. /\ Countable
        /\ lastPos = Plus(FindFirstOf(EndOfLine, 0), 2) /\ nextPos = 0 /\ outcome = "looping"
    BY <1>1, TextType DEF ParserInit, FirstHeader, Countable
  <2> DEFINE e == FindFirstOf(EndOfLine, 0)
  <2>2. Finds(EndOfLine, 0, e) \/ FindsNone(EndOfLine, 0, e)
    BY <2>1, FindFirstOfIs DEF Countable
  <2>3. lastPos = Plus(e, 2)
    BY <2>1
  <2> HIDE DEF e
  <2>4. CASE Finds(EndOfLine, 0, e)
    <3>1. Len(msg) \in Nat /\ e \in 0 .. Len(msg) - 1 /\ e \in 0 .. Len(msg)
      BY <2>1, <2>4 DEF Finds, Countable
    <3>2. lastPos = e + 2
      BY <2>1, <2>3, <3>1, PlusIs
    <3>3. lastPos \in 0 .. Len(msg) + 1 /\ 0 \in 0 .. Len(msg) /\ npos # 0
      BY <2>1, <3>1, <3>2, PlusIs
    <3> QED
      BY <2>1, <3>3 DEF Positions
  <2>5. CASE FindsNone(EndOfLine, 0, e)
    <3>1. lastPos = 1 /\ Len(msg) \in Nat
      BY <2>1, <2>3, <2>5, PlusIs DEF FindsNone, Countable
    <3>2. lastPos \in 0 .. Len(msg) + 1 /\ 0 \in 0 .. Len(msg)
      BY <3>1
    <3> QED
      BY <2>1, <3>1, <3>2 DEF Positions
  <2> QED
    BY <2>2, <2>4, <2>5
<1>2. ASSUME Positions, [ParseHeaders]_parser PROVE Positions'
  <2>1. CASE UNCHANGED parser
    BY <1>2, <2>1 DEF parser, Positions, Countable
  <2>2. CASE ParseHeaders /\ outcome' # "looping"
    <3>1. /\ outcome' \in {"accepted", "refused", "thrown"}
          /\ UNCHANGED <<msg, lastPos, nextPos>>
      BY <2>2 DEF ParseHeaders, Header, Ends
    <3> QED
      BY <1>2, <3>1 DEF Positions, Countable
  <2>3. CASE ParseHeaders /\ outcome' = "looping"
    <3>1. PICK colon, start, eol : Pass(colon, start, eol)
      BY <1>2, <2>3, PassIs
    <3>2. start \in Nat /\ Len(msg) \in Nat /\ msg' = msg /\ nextPos' = eol
      BY <1>2, <3>1 DEF Pass, Positions, Countable
    <3>3. \/ eol \in 0 .. Len(msg) - 1 /\ lastPos' = eol + 2
          \/ eol = npos /\ lastPos' = 1
      BY <3>1, <3>2 DEF Pass, Finds, FindsNone
    <3>4. npos \in Nat /\ npos > Len(msg) + 2
      BY <1>2, PlusIs DEF Positions
    <3>5. /\ lastPos' \in 0 .. Len(msg) + 1 /\ nextPos' \in 0 .. Len(msg) \cup {npos}
          /\ nextPos' = npos => lastPos' = 1
      BY <3>2, <3>3, <3>4
    <3> QED
      BY <1>2, <2>3, <3>2, <3>5 DEF Positions, Countable
  <2> QED
    BY <1>2, <2>1, <2>2, <2>3
<1> QED
  BY <1>1, <1>2

\* Once a header has been read, the loop is behind the first header, unless a
\* search for the end of a line has found none.
BehindFirst ==
  HasColon /\ nextPos # npos =>
    lastPos >= FirstHeader /\ (lastPos = FirstHeader \/ nextPos > FirstHeader)

\* How much of the text the loop has still to read.
TextLeft == IF nextPos = npos THEN 0 ELSE Len(msg) + 1 - lastPos

PassAdvances ==
  HasColon /\ ParseHeaders /\ outcome' = "looping" => TextLeft' \in Nat /\ TextLeft' < TextLeft

\* Where the first header begins.
LEMMA FirstHeaderIs ==
  ASSUME Countable
  PROVE  \/ \E e \in 0 .. Len(msg) - 1 :
              /\ Finds(EndOfLine, 0, e) /\ FindFirstOf(EndOfLine, 0) = e /\ FirstHeader = e + 2
         \/ /\ FindsNone(EndOfLine, 0, npos) /\ FindFirstOf(EndOfLine, 0) = npos
            /\ FirstHeader = 1
<1> DEFINE e == FindFirstOf(EndOfLine, 0)
<1>1. Finds(EndOfLine, 0, e) \/ FindsNone(EndOfLine, 0, e)
  BY FindFirstOfIs DEF Countable
<1>2. FirstHeader = Plus(e, 2)
  BY DEF FirstHeader
<1> HIDE DEF e
<1>3. CASE Finds(EndOfLine, 0, e)
  <2>1. e \in 0 .. Len(msg) - 1 /\ e \in 0 .. Len(msg)
    BY <1>3 DEF Finds, Countable
  <2> QED
    BY <1>2, <1>3, <2>1, PlusIs DEF e
<1>4. CASE FindsNone(EndOfLine, 0, e)
  BY <1>2, <1>4, PlusIs DEF e, FindsNone
<1> QED
  BY <1>1, <1>3, <1>4

(***************************************************************************)
(* With a colon after the first line, a pass that goes on has found its    *)
(* colon behind lastPos.  Had it not, it would come back to the first      *)
(* header, which the loop's test does not let it do a second time.         *)
(***************************************************************************)
LEMMA PassGoesOn ==
  ASSUME Positions, BehindFirst, HasColon, NEW colon, NEW start, NEW eol,
         Pass(colon, start, eol)
  PROVE  /\ nextPos # npos /\ FirstHeader \in Nat
         /\ lastPos \in Nat /\ lastPos >= FirstHeader
         /\ Finds({":"}, lastPos, colon) /\ start = colon + 2
<1>1. Countable /\ Len(msg) \in Nat /\ lastPos \in Nat /\ lastPos <= Len(msg) + 1
  BY DEF Positions, Countable
<1>2. npos \in Nat /\ npos > Len(msg) + 2 /\ nextPos \in Nat
  BY <1>1, PlusIs DEF Positions
<1>3. FirstHeader \in Nat /\ FirstHeader <= Len(msg) + 1
  BY <1>1, FirstHeaderIs
<1>4. /\ start \in Nat
      /\ \/ eol \in start .. Len(msg) - 1 /\ lastPos' = eol + 2
         \/ lastPos' = 1
  BY <1>1 DEF Pass, Finds
<1>5. lastPos' <= Len(msg) + 1 /\ nextPos <= lastPos' /\ lastPos' \in Nat
  BY <1>1, <1>4 DEF Pass
<1>6. nextPos # npos
  BY <1>1, <1>2, <1>5
<1>7. lastPos >= FirstHeader /\ (lastPos = FirstHeader \/ nextPos > FirstHeader)
  BY <1>6 DEF BehindFirst
<1>8. ASSUME FindsNone({":"}, lastPos, colon), start = 1
      PROVE  FALSE
  <2>1. CASE lastPos = FirstHeader
    <3> DEFINE c == FindFirstOf({":"}, FirstHeader)
    <3>1. Finds({":"}, FirstHeader, c) \/ FindsNone({":"}, FirstHeader, c)
      BY <1>1, <1>3, FindFirstOfIs
    <3>2. Finds({":"}, FirstHeader, c)
      BY <3>1 DEF HasColon, FindsNone
    <3> HIDE DEF c
    <3> QED
      BY <1>8, <2>1, <3>2 DEF Finds, FindsNone
  <2>2. CASE nextPos > FirstHeader
    <3>1. lastPos' = FirstHeader
      <4>1. CASE \E e \in 0 .. Len(msg) - 1 :
                   /\ Finds(EndOfLine, 0, e) /\ FindFirstOf(EndOfLine, 0) = e
                   /\ FirstHeader = e + 2
        <5>1. PICK e \in 0 .. Len(msg) - 1 :
                /\ Finds(EndOfLine, 0, e) /\ e > 0 /\ FirstHeader = e + 2
          BY <4>1 DEF HasColon
        <5>2. e \in 1 .. Len(msg) - 1 /\ msg[e + 1] \in EndOfLine
          BY <1>1, <5>1 DEF Finds
        <5>3. Finds(EndOfLine, 1, eol) /\ lastPos' = eol + 2
          BY <1>8, <5>2 DEF Pass, FindsNone
        <5>4. eol = e
          <6>1. eol \in 1 .. Len(msg) - 1 /\ msg[eol + 1] \in EndOfLine
            BY <5>3 DEF Finds
          <6>2. ~(eol < e)
            <7>1. eol < e => eol \in 0 .. e - 1
              BY <1>1, <5>2, <6>1
            <7> QED
              BY <5>1, <6>1, <7>1 DEF Finds
          <6>3. ~(e < eol)
            <7>1. e < eol => e \in 1 .. eol - 1
              BY <1>1, <5>2, <6>1
            <7> QED
              BY <5>2, <5>3, <7>1 DEF Finds
          <6> QED
            BY <1>1, <5>2, <6>1, <6>2, <6>3
        <5> QED
          BY <5>1, <5>3, <5>4
      <4>2. CASE FindsNone(EndOfLine, 0, npos) /\ FirstHeader = 1
        <5>1. ~Finds(EndOfLine, 1, eol)
          <6>1. Finds(EndOfLine, 1, eol) => eol \in 0 .. Len(msg) - 1 /\ msg[eol + 1] \in EndOfLine
            BY <1>1 DEF Finds
          <6> QED
            BY <4>2, <6>1 DEF FindsNone
        <5> QED
          BY <1>8, <4>2, <5>1 DEF Pass
      <4> QED
        BY <1>1, <4>1, <4>2, FirstHeaderIs
    <3> QED
      BY <1>2, <1>3, <1>5, <2>2, <3>1
  <2> QED
    BY <1>7, <2>1, <2>2
<1> QED
  BY <1>1, <1>3, <1>6, <1>7, <1>8 DEF Pass

\* The measure decreases, and the loop stays behind the first header.
LEMMA PassMeasure ==
  ASSUME Positions, BehindFirst, HasColon, ParseHeaders, outcome' = "looping"
  PROVE  BehindFirst' /\ TextLeft' \in Nat /\ TextLeft' < TextLeft
<1>1. lastPos <= Len(msg)
  BY PassIs
<1>2. PICK colon, start, eol : Pass(colon, start, eol)
  BY PassIs
<1>3. /\ nextPos # npos /\ FirstHeader \in Nat
      /\ lastPos \in Nat /\ lastPos >= FirstHeader
      /\ Finds({":"}, lastPos, colon) /\ start = colon + 2
  BY <1>2, PassGoesOn
<1>4. Len(msg) \in Nat /\ msg' = msg /\ nextPos' = eol
  BY <1>2 DEF Pass, Positions, Countable
<1>5. colon \in Nat /\ lastPos <= colon /\ start \in Nat
  BY <1>3 DEF Finds
<1>6. npos \in Nat /\ npos > Len(msg) + 2
  BY PlusIs DEF Positions
<1>7. TextLeft = Len(msg) + 1 - lastPos /\ TextLeft \in Nat /\ TextLeft > 0
  BY <1>1, <1>3, <1>4 DEF TextLeft
<1>8. FirstHeader' = FirstHeader
  BY <1>4 DEF FirstHeader, FindFirstOf
<1>9. CASE Finds(EndOfLine, start, eol) /\ lastPos' = eol + 2
  <2>1. eol \in Nat /\ start <= eol /\ eol <= Len(msg) - 1 /\ eol # npos
    BY <1>4, <1>5, <1>6, <1>9 DEF Finds
  <2>2. TextLeft' = Len(msg) + 1 - (eol + 2)
    BY <1>4, <1>9, <2>1 DEF TextLeft, npos
  <2>3. nextPos' > FirstHeader /\ lastPos' >= FirstHeader
    BY <1>3, <1>4, <1>5, <1>9, <2>1
  <2> QED
    BY <1>3, <1>4, <1>5, <1>7, <1>8, <2>1, <2>2, <2>3 DEF BehindFirst
<1>10. CASE FindsNone(EndOfLine, start, eol)
  <2>1. nextPos' = npos /\ npos' = npos
    BY <1>4, <1>10 DEF FindsNone, npos
  <2> QED
    BY <1>7, <2>1 DEF TextLeft, BehindFirst
<1> QED
  BY <1>2, <1>9, <1>10 DEF Pass

\* The positions and what they say of the first header hold throughout.
LEMMA PositionsInvariant == Spec => [](Positions /\ BehindFirst)
<1>1. Init => Positions /\ BehindFirst
  <2> SUFFICES ASSUME Init PROVE Positions /\ BehindFirst
    OBVIOUS
  <2>1. ParserInit
    BY DEF Init
  <2>2. Positions
    BY <2>1, PositionsKept
  <2>3. lastPos = FirstHeader /\ lastPos \in Nat
    BY <2>1, <2>2 DEF ParserInit, Positions
  <2> QED
    BY <2>2, <2>3 DEF BehindFirst
<1>2. Positions /\ BehindFirst /\ [Next]_vars => (Positions /\ BehindFirst)'
  <2> SUFFICES ASSUME Positions, BehindFirst, [Next]_vars
               PROVE  Positions' /\ BehindFirst'
    OBVIOUS
  <2>1. ParseHeaders \/ UNCHANGED parser
    BY DEF Next, Parse, ReadHeaders, ReadWord, DateEnds, vars
  <2>2. Positions'
    BY <2>1, PositionsKept
  <2>3. CASE ParseHeaders /\ outcome' = "looping"
    <3>1. CASE HasColon
      BY <2>2, <2>3, <3>1, PassMeasure
    <3>2. CASE ~HasColon
      <4>1. msg' = msg
        BY <2>3, PassIs DEF Pass
      <4>2. ~HasColon'
        BY <3>2, <4>1 DEF HasColon, FirstHeader, FindFirstOf, npos, Plus
      <4> QED
        BY <2>2, <4>2 DEF BehindFirst
    <3> QED
      BY <3>1, <3>2
  <2>4. CASE (ParseHeaders /\ outcome' # "looping") \/ UNCHANGED parser
    <3>1. msg' = msg /\ lastPos' = lastPos /\ nextPos' = nextPos
      BY <2>4 DEF ParseHeaders, Header, Ends, parser
    <3> QED
      BY <2>2, <3>1 DEF BehindFirst, HasColon, FirstHeader, FindFirstOf, npos, Plus
  <2> QED
    BY <2>1, <2>2, <2>3, <2>4
<1> QED
  BY <1>1, <1>2, PTL DEF Spec

(***************************************************************************)
(* On a text with a colon after its first line, whatever else is in it,    *)
(* every pass of the loop over the headers leaves less of the text to      *)
(* read: the loop ends as soon as the thread is given the time.            *)
(***************************************************************************)
THEOREM HeaderLoopAdvances == Spec => [][PassAdvances]_vars
<1>1. Positions /\ BehindFirst /\ [Next]_vars => [PassAdvances]_vars
  BY PassMeasure DEF PassAdvances
<1> QED
  BY <1>1, PositionsInvariant, PTL DEF Spec
-------------------------------------------------------------------------------
(* Parts of messages.                                                      *)

(***************************************************************************)
(* The shape of a header section without its empty line: CR and LF only    *)
(* together, at its end and before each header, and the header has a colon *)
(* and a character after it.                                               *)
(***************************************************************************)
Section(t) ==
  /\ t \in Seq(Character) /\ Len(t) >= 4
  /\ t[1] \notin EndOfLine /\ t[2] \notin EndOfLine
  /\ t[Len(t) - 1] = CR /\ t[Len(t)] = LF
  /\ \A i \in 1 .. Len(t) : t[i] = CR => i < Len(t) /\ t[i + 1] = LF
  /\ \A i \in 1 .. Len(t) : t[i] = LF => i > 1 /\ t[i - 1] = CR
  /\ \A i \in 1 .. Len(t) - 1 : t[i] = LF =>
       \E c \in i + 1 .. Len(t) - 1 :
         t[c] = ":" /\ t[c + 1] \in {":", "x"} /\ \A j \in i + 1 .. c - 1 : t[j] = "x"

\* What the first recv may return of it: half of the empty line at the most.
PartOfSection ==
  /\ \A i \in 1 .. 2 : i <= Len(msg) => msg[i] \notin EndOfLine
  /\ \A i \in 1 .. Len(msg) - 1 : msg[i] = CR => msg[i + 1] = LF
  /\ \A i \in 1 .. Len(msg) : msg[i] = LF => i > 1 /\ msg[i - 1] = CR
  /\ \A i \in 1 .. Len(msg) - 1 : msg[i] = LF =>
       \/ i + 1 = Len(msg) /\ msg[Len(msg)] = CR
       \/ \E c \in i + 1 .. Len(msg) + 1 :
            /\ \A j \in i + 1 .. c - 1 : msg[j] = "x"
            /\ c <= Len(msg) => msg[c] = ":"
            /\ c < Len(msg) => msg[c + 1] \in {":", "x"}

\* Two sequences one after the other, by position.
LEMMA AfterIs ==
  ASSUME NEW t \in Seq(Character), NEW l \in Seq(Character)
  PROVE  /\ t \o l \in Seq(Character)
         /\ Len(t) \in Nat /\ Len(l) \in Nat /\ Len(t \o l) = Len(t) + Len(l)
         /\ \A i \in 1 .. Len(t) : (t \o l)[i] = t[i]
         /\ \A i \in 1 .. Len(l) : (t \o l)[Len(t) + i] = l[i]
<1>1. /\ t \o l \in Seq(Character) /\ Len(t \o l) = Len(t) + Len(l)
      /\ \A i \in 1 .. Len(t) + Len(l) :
           (t \o l)[i] = IF i <= Len(t) THEN t[i] ELSE l[i - Len(t)]
  BY ConcatProperties
<1>2. Len(t) \in Nat /\ Len(l) \in Nat
  BY LenProperties
<1> DEFINE u == t \o l
           a == Len(t)
           b == Len(l)
<1>3. /\ u \in Seq(Character) /\ Len(u) = a + b /\ a \in Nat /\ b \in Nat
      /\ \A i \in 1 .. a + b : u[i] = IF i <= a THEN t[i] ELSE l[i - a]
  BY <1>1, <1>2
<1> HIDE DEF u, a, b
<1>4. \A i \in 1 .. a : u[i] = t[i]
  BY <1>3
<1>5. ASSUME NEW i \in 1 .. b PROVE u[a + i] = l[i]
  <2>1. a + i \in 1 .. a + b /\ ~(a + i <= a) /\ (a + i) - a = i
    BY <1>3
  <2> QED
    BY <1>3, <2>1
<1> QED
  BY <1>3, <1>4, <1>5 DEF u, a, b

\* A start line is such a section.
LEMMA StartIsSection ==
  ASSUME NEW m \in Messages
  PROVE  Section(m.startLine \o CRLF)
<1> DEFINE s == m.startLine
           c == CRLF
           u == s \o c
           n == Len(s)
<1>1. /\ s \in Seq(Character) /\ n \in Nat /\ n >= 2
      /\ \A i \in 1 .. n : s[i] \in {":", "x"}
  BY MessageType
<1>2. c \in Seq(Character) /\ Len(c) = 2 /\ c[1] = CR /\ c[2] = LF
  BY DEF CRLF, Character
<1> HIDE DEF s, c, n
<1>3. /\ u \in Seq(Character) /\ Len(u) = n + 2
      /\ \A i \in 1 .. n : u[i] = s[i]
      /\ \A i \in 1 .. 2 : u[n + i] = c[i]
  <2>1. /\ u \in Seq(Character) /\ Len(u) = Len(s) + Len(c)
        /\ \A i \in 1 .. Len(s) : u[i] = s[i]
        /\ \A i \in 1 .. Len(c) : u[Len(s) + i] = c[i]
    BY <1>1, <1>2, AfterIs
  <2> HIDE DEF u
  <2> QED
    BY <1>2, <2>1 DEF n
<1> HIDE DEF u
<1>4. u[n + 1] = CR /\ u[n + 2] = LF
  BY <1>2, <1>3
<1>5. \A i \in 1 .. n : u[i] # CR /\ u[i] # LF
  BY <1>1, <1>3 DEF CR, LF
<1>6. CR # LF
  BY DEF CR, LF
<1>7. \A i \in 1 .. n + 2 : i \in 1 .. n \/ i = n + 1 \/ i = n + 2
  BY <1>1
<1>8. Section(u)
  <2>1. Len(u) >= 4 /\ u[1] \notin EndOfLine /\ u[2] \notin EndOfLine
    BY <1>1, <1>3, <1>5 DEF EndOfLine
  <2>2. u[Len(u) - 1] = CR /\ u[Len(u)] = LF
    <3>1. Len(u) - 1 = n + 1
      BY <1>1, <1>3
    <3> QED
      BY <1>3, <1>4, <3>1
  <2>3. ASSUME NEW i \in 1 .. Len(u), u[i] = CR PROVE i < Len(u) /\ u[i + 1] = LF
    <3>1. i = n + 1
      BY <1>3, <1>4, <1>5, <1>6, <1>7, <2>3
    <3>2. n + 1 < n + 2 /\ (n + 1) + 1 = n + 2
      BY <1>1
    <3> QED
      BY <1>3, <1>4, <3>1, <3>2
  <2>4. ASSUME NEW i \in 1 .. Len(u), u[i] = LF PROVE i = n + 2 /\ i > 1 /\ u[i - 1] = CR
    <3>1. i = n + 2
      BY <1>3, <1>4, <1>5, <1>6, <1>7, <2>4
    <3>2. n + 2 > 1 /\ (n + 2) - 1 = n + 1
      BY <1>1
    <3> QED
      BY <1>3, <1>4, <3>1, <3>2
  <2>5. ASSUME NEW i \in 1 .. Len(u) - 1, u[i] = LF PROVE FALSE
    <3>1. i \in 1 .. Len(u) /\ i # n + 2
      BY <1>1, <1>3
    <3> QED
      BY <2>4, <2>5, <3>1
  <2> QED
    BY <1>3, <2>1, <2>2, <2>3, <2>4, <2>5 DEF Section
<1> QED
  BY <1>8 DEF u, s, c

\* A header after such a section leaves it one.
LEMMA HeaderKeepsSection ==
  ASSUME NEW t, Section(t),
         NEW field, field.name \in Seq({"x"}), AfterColon(field) \in Seq({":", "x"}) \ {<<>>}
  PROVE  Section(t \o Line(field))
<1> DEFINE l == Line(field)
           u == t \o l
           n == Len(t)
           a == Len(field.name)
           b == Len(Kept(field))
           e == a + b + 4
<1>1. /\ a \in Nat /\ b \in Nat /\ l \in Seq(Character) /\ Len(l) = a + b + 4
      /\ \A i \in 1 .. a : l[i] = "x"
      /\ l[a + 1] = ":" /\ l[a + 2] \in {":", "x"}
      /\ \A i \in 1 .. b : l[a + 2 + i] \in {":", "x"}
      /\ l[a + b + 3] = CR /\ l[a + b + 4] = LF
  <2> HIDE DEF a, b, l
  <2> QED
    BY LineIs DEF a, b, l
<1>2. t \in Seq(Character) /\ n \in Nat /\ n >= 4
  BY LenProperties DEF Section
<1> HIDE DEF l, a, b
<1>3. /\ u \in Seq(Character) /\ Len(u) = n + e
      /\ \A i \in 1 .. n : u[i] = t[i]
      /\ \A i \in 1 .. e : u[n + i] = l[i]
  <2>1. /\ u \in Seq(Character) /\ Len(u) = Len(t) + Len(l)
        /\ \A i \in 1 .. Len(t) : u[i] = t[i]
        /\ \A i \in 1 .. Len(l) : u[Len(t) + i] = l[i]
    BY <1>1, <1>2, AfterIs
  <2> HIDE DEF u
  <2> QED
    BY <1>1, <2>1
<1> HIDE DEF u
<1>4. \A i \in 1 .. e : l[i] \notin EndOfLine \/ i = e - 1 \/ i = e
  <2> SUFFICES ASSUME NEW i \in 1 .. e, i # e - 1, i # e
               PROVE  l[i] \notin EndOfLine
    OBVIOUS
  <2>1. i \in 1 .. a \/ i = a + 1 \/ i = a + 2 \/ i - (a + 2) \in 1 .. b
    BY <1>1
  <2>2. CASE i - (a + 2) \in 1 .. b
    <3>1. l[a + 2 + (i - (a + 2))] \in {":", "x"}
      BY <1>1, <2>2
    <3>2. a + 2 + (i - (a + 2)) = i
      BY <1>1
    <3> QED
      BY <3>1, <3>2 DEF EndOfLine, CR, LF
  <2> QED
    BY <1>1, <2>1, <2>2 DEF EndOfLine, CR, LF
<1>5. l[e - 1] = CR /\ l[e] = LF /\ e \in Nat /\ e >= 4 /\ CR # LF
  <2>1. e - 1 = a + b + 3
    BY <1>1
  <2> QED
    BY <1>1, <2>1 DEF CR, LF
<1>6. /\ e \in 1 .. e /\ e - 1 \in 1 .. e /\ n + (e - 1) = n + e - 1
      /\ a + 1 \in 1 .. e /\ a + 2 \in 1 .. e
  BY <1>1
<1> HIDE DEF e
<1>7. u[n + e - 1] = CR /\ u[n + e] = LF
  BY <1>3, <1>5, <1>6
<1>8. ASSUME NEW i \in 1 .. n + e, i \notin 1 .. n, u[i] \in EndOfLine
      PROVE  i = n + e - 1 \/ i = n + e
  <2>1. i - n \in 1 .. e /\ n + (i - n) = i
    BY <1>2, <1>5, <1>8
  <2>2. l[i - n] \in EndOfLine
    BY <1>3, <1>8, <2>1
  <2>3. i - n = e - 1 \/ i - n = e
    BY <1>4, <2>1, <2>2
  <2> QED
    BY <1>2, <1>5, <2>3
<1>9. CR \in EndOfLine /\ LF \in EndOfLine
  BY DEF EndOfLine
<1>10. Len(u) >= 4 /\ u[1] \notin EndOfLine /\ u[2] \notin EndOfLine
  <2>1. 1 \in 1 .. n /\ 2 \in 1 .. n /\ n + e >= 4
    BY <1>2, <1>5
  <2> QED
    BY <1>3, <2>1 DEF Section
<1>11. ASSUME NEW i \in 1 .. n + e, u[i] = CR PROVE i < n + e /\ u[i + 1] = LF
  <2>1. CASE i \in 1 .. n
    <3>1. i < n /\ t[i + 1] = LF
      BY <1>3, <1>11, <2>1 DEF Section
    <3>2. i + 1 \in 1 .. n /\ i < n + e
      BY <1>2, <1>5, <2>1, <3>1
    <3> QED
      BY <1>3, <3>1, <3>2
  <2>2. CASE i \notin 1 .. n
    <3>1. i = n + e - 1
      BY <1>5, <1>7, <1>8, <1>9, <1>11, <2>2
    <3>2. (n + e - 1) + 1 = n + e /\ n + e - 1 < n + e
      BY <1>2, <1>5
    <3> QED
      BY <1>7, <3>1, <3>2
  <2> QED
    BY <2>1, <2>2
<1>12. ASSUME NEW i \in 1 .. n + e, u[i] = LF
       PROVE  i > 1 /\ u[i - 1] = CR /\ (i \in 1 .. n \/ i = n + e)
  <2>1. CASE i \in 1 .. n
    <3>1. i > 1 /\ t[i - 1] = CR
      BY <1>3, <1>12, <2>1 DEF Section
    <3>2. i - 1 \in 1 .. n
      BY <1>2, <2>1, <3>1
    <3> QED
      BY <1>3, <2>1, <3>1, <3>2
  <2>2. CASE i \notin 1 .. n
    <3>1. i = n + e
      BY <1>5, <1>7, <1>8, <1>9, <1>12, <2>2
    <3>2. n + e > 1 /\ i - 1 = n + e - 1
      BY <1>2, <1>5, <3>1
    <3> QED
      BY <1>7, <3>1, <3>2
  <2> QED
    BY <2>1, <2>2
<1>13. ASSUME NEW i \in 1 .. n + e - 1, u[i] = LF
       PROVE  \E c \in i + 1 .. n + e - 1 :
                u[c] = ":" /\ u[c + 1] \in {":", "x"} /\ \A j \in i + 1 .. c - 1 : u[j] = "x"
  <2>1. i \in 1 .. n + e /\ i # n + e
    BY <1>2, <1>5
  <2>2. i \in 1 .. n
    BY <1>12, <1>13, <2>1
  <2>3. CASE i \in 1 .. n - 1
    <3>1. t[i] = LF
      BY <1>3, <1>13, <2>2
    <3>2. PICK c \in i + 1 .. n - 1 :
            t[c] = ":" /\ t[c + 1] \in {":", "x"} /\ \A j \in i + 1 .. c - 1 : t[j] = "x"
      BY <2>3, <3>1 DEF Section
    <3>3. c \in 1 .. n /\ c + 1 \in 1 .. n /\ c \in i + 1 .. n + e - 1
      BY <1>2, <1>5, <2>2, <3>2
    <3>4. \A j \in i + 1 .. c - 1 : j \in 1 .. n
      BY <1>2, <2>2, <3>3
    <3> QED
      BY <1>3, <3>2, <3>3, <3>4
  <2>4. CASE i = n
    <3> DEFINE c == n + (a + 1)
    <3>1. u[c] = ":" /\ c \in Int
      BY <1>1, <1>2, <1>3, <1>6
    <3>2. u[c + 1] \in {":", "x"}
      <4>1. c + 1 = n + (a + 2)
        BY <1>1, <1>2
      <4> QED
        BY <1>1, <1>3, <1>6, <4>1
    <3>3. ASSUME NEW j \in i + 1 .. c - 1 PROVE u[j] = "x"
      <4>1. j - n \in 1 .. a /\ n + (j - n) = j
        BY <1>1, <1>2, <2>4
      <4>2. j - n \in 1 .. e
        BY <1>1, <1>5, <1>6, <4>1
      <4> QED
        BY <1>1, <1>3, <4>1, <4>2
    <3>4. c \in i + 1 .. n + e - 1
      BY <1>1, <1>2, <2>4 DEF e
    <3> QED
      BY <3>1, <3>2, <3>3, <3>4
  <2>5. i \in 1 .. n - 1 \/ i = n
    BY <1>2, <2>2
  <2> QED
    BY <2>3, <2>4, <2>5
<1>14. Section(u)
  <2>1. Len(u) - 1 = n + e - 1
    BY <1>2, <1>3, <1>5
  <2> QED
    BY <1>3, <1>7, <1>10, <1>11, <1>12, <1>13, <2>1 DEF Section
<1> QED
  BY <1>14 DEF u, l

\* Every header section has the shape, up to each of its fields.
LEMMA SectionsAre ==
  ASSUME NEW m \in Messages, NEW k \in 0 .. Len(m.fields)
  PROVE  Section(Upto(m, k))
<1> DEFINE n == Len(m.fields)
           S == {i \in Nat : i <= n /\ ~Section(Upto(m, i))}
<1>1. n \in Nat
  BY MessageType
<1> SUFFICES ASSUME S # {}
             PROVE  FALSE
  BY <1>1
<1>2. PICK i \in S : \A y \in S : i <= y
  <2> S \in SUBSET Nat
    OBVIOUS
  <2> HIDE DEF S
  <2> QED
    BY LeastNumber
<1>3. i \in Nat /\ i <= n /\ ~Section(Upto(m, i))
  BY <1>2
<1>4. CASE i = 0
  BY <1>3, <1>4, UptoIs, StartIsSection
<1>5. CASE i # 0
  <2>1. i \in 1 .. n /\ i - 1 \in Nat /\ i - 1 <= n /\ ~(i <= i - 1)
    BY <1>1, <1>3, <1>5
  <2>2. Section(Upto(m, i - 1))
    BY <1>2, <2>1
  <2>3. Upto(m, i) = Upto(m, i - 1) \o Line(m.fields[i])
    BY <2>1, UptoIs
  <2>4. /\ m.fields[i].name \in Seq({"x"})
        /\ AfterColon(m.fields[i]) \in Seq({":", "x"}) \ {<<>>}
    BY <2>1, MessageType
  <2>5. Section(Upto(m, i - 1) \o Line(m.fields[i]))
    BY <2>2, <2>4, HeaderKeepsSection
  <2> QED
    BY <1>3, <2>3, <2>5
<1> QED
  BY <1>4, <1>5

\* A part of a message is a part of such a section.
LEMMA CutsAreParts == msg \in CutTexts => PartOfSection
<1> SUFFICES ASSUME msg \in CutTexts
             PROVE  PartOfSection
  OBVIOUS
<1>0. PICK m \in Messages : \E n \in 1 .. Len(HeaderPart(m)) + 1 :
        /\ msg \in Seq(Character) /\ Len(msg) = n
        /\ \A i \in 1 .. n : msg[i] = (HeaderPart(m) \o CRLF)[i]
  BY CutTextIs
<1>1. PICK n \in 1 .. Len(HeaderPart(m)) + 1 :
        /\ msg \in Seq(Character) /\ Len(msg) = n
        /\ \A i \in 1 .. n : msg[i] = (HeaderPart(m) \o CRLF)[i]
  BY <1>0
<1> DEFINE h == HeaderPart(m)
           l == Len(h)
<1>2. Section(h) /\ l \in Nat /\ l >= 4
  <2>1. Len(m.fields) \in 0 .. Len(m.fields)
    BY MessageType
  <2>2. Section(h)
    BY <2>1, SectionsAre, UptoIs
  <2> HIDE DEF h
  <2> QED
    BY <2>2, LenProperties DEF Section
<1>3. n \in Nat /\ n >= 1 /\ n <= l + 1 /\ CR # LF
  BY <1>1, <1>2 DEF CR, LF
<1>4. /\ \A i \in 1 .. n : i <= l => msg[i] = h[i]
      /\ n = l + 1 => msg[n] = CR
  <2> DEFINE e == h \o CRLF
  <2>1. \A i \in 1 .. n : msg[i] = e[i]
    BY <1>1
  <2>2. h \in Seq(Character) /\ CRLF \in Seq(Character) /\ Len(CRLF) = 2 /\ CRLF[1] = CR
    BY <1>2 DEF Section, CRLF, Character
  <2> HIDE DEF h
  <2>3. /\ \A i \in 1 .. Len(h) : e[i] = h[i]
        /\ \A i \in 1 .. Len(CRLF) : e[Len(h) + i] = CRLF[i]
    BY <2>2, AfterIs
  <2> HIDE DEF e
  <2>4. e[l + 1] = CR
    BY <2>2, <2>3
  <2>5. \A i \in 1 .. n : i <= l => i \in 1 .. Len(h)
    BY <1>2, <1>3
  <2>6. n \in 1 .. n
    BY <1>3
  <2> QED
    BY <2>1, <2>3, <2>4, <2>5, <2>6
<1> HIDE DEF h
<1>5. Len(msg) = n
  BY <1>1
<1>6. ASSUME NEW i \in 1 .. 2, i <= n PROVE msg[i] \notin EndOfLine
  <2>1. i \in 1 .. n /\ i <= l /\ (i = 1 \/ i = 2)
    BY <1>2, <1>3, <1>6
  <2> QED
    BY <1>2, <1>4, <2>1 DEF Section
<1>7. ASSUME NEW i \in 1 .. n - 1, msg[i] = CR PROVE msg[i + 1] = LF
  <2>1. i \in 1 .. n /\ i \in 1 .. l /\ i <= l
    BY <1>2, <1>3
  <2>2. i < l /\ h[i + 1] = LF
    BY <1>2, <1>4, <1>7, <2>1 DEF Section
  <2>3. i + 1 \in 1 .. n /\ i + 1 <= l
    BY <1>2, <1>3, <2>2
  <2> QED
    BY <1>4, <2>2, <2>3
<1>8. ASSUME NEW i \in 1 .. n, msg[i] = LF
      PROVE  i \in 1 .. l /\ h[i] = LF /\ i > 1 /\ msg[i - 1] = CR
  <2>1. i <= l
    <3>1. ~(i <= l) => i = n /\ n = l + 1
      BY <1>2, <1>3
    <3> QED
      BY <1>3, <1>4, <1>8, <3>1
  <2>2. i \in 1 .. l /\ h[i] = LF
    BY <1>2, <1>3, <1>4, <1>8, <2>1
  <2>3. i > 1 /\ h[i - 1] = CR
    BY <1>2, <2>2 DEF Section
  <2>4. i - 1 \in 1 .. n /\ i - 1 <= l
    BY <1>2, <1>3, <2>1, <2>3
  <2> QED
    BY <1>4, <2>2, <2>3, <2>4
<1>9. ASSUME NEW i \in 1 .. n - 1, msg[i] = LF
      PROVE  \/ i + 1 = n /\ msg[n] = CR
             \/ \E c \in i + 1 .. n + 1 :
                  /\ \A j \in i + 1 .. c - 1 : msg[j] = "x"
                  /\ c <= n => msg[c] = ":"
                  /\ c < n => msg[c + 1] \in {":", "x"}
  <2>1. i \in 1 .. n
    BY <1>3
  <2>2. i \in 1 .. l /\ h[i] = LF
    BY <1>8, <1>9, <2>1
  <2>3. CASE i = l
    <3>1. i + 1 = n /\ n = l + 1
      BY <1>2, <1>3, <2>3
    <3> QED
      BY <1>4, <3>1
  <2>4. CASE i # l
    <3>1. i \in 1 .. l - 1
      BY <1>2, <2>2, <2>4
    <3>2. PICK c \in i + 1 .. l - 1 :
            h[c] = ":" /\ h[c + 1] \in {":", "x"} /\ \A j \in i + 1 .. c - 1 : h[j] = "x"
      BY <1>2, <2>2, <3>1 DEF Section
    <3>3. c \in Nat /\ c + 1 <= l
      BY <1>2, <2>2, <3>2
    <3>4. CASE c <= n
      <4>1. c \in 1 .. n /\ c <= l /\ c \in i + 1 .. n + 1
        BY <1>2, <1>3, <2>2, <3>2, <3>4
      <4>2. msg[c] = ":"
        BY <1>4, <3>2, <4>1
      <4>3. c < n => c + 1 \in 1 .. n /\ c + 1 <= l
        BY <1>2, <1>3, <3>3
      <4>4. c < n => msg[c + 1] \in {":", "x"}
        BY <1>4, <3>2, <4>3
      <4>5. \A j \in i + 1 .. c - 1 : j \in 1 .. n /\ j <= l
        BY <1>2, <1>3, <2>2, <4>1
      <4> QED
        BY <1>4, <3>2, <4>1, <4>2, <4>4, <4>5
    <3>5. CASE c > n
      <4>1. \A j \in i + 1 .. (n + 1) - 1 : j \in i + 1 .. c - 1 /\ j \in 1 .. n /\ j <= l
        BY <1>2, <1>3, <2>2, <3>2, <3>3, <3>5
      <4>2. n + 1 \in i + 1 .. n + 1 /\ ~(n + 1 <= n) /\ ~(n + 1 < n)
        BY <1>3, <2>1
      <4> QED
        BY <1>4, <3>2, <4>1, <4>2
    <3> QED
      BY <1>3, <3>3, <3>4, <3>5
  <2> QED
    BY <2>3, <2>4
<1> QED
  BY <1>5, <1>6, <1>7, <1>8, <1>9 DEF PartOfSection

\* Where the loop takes the text for an empty line.
LEMMA AtEmptyLineIs ==
  ASSUME Countable, lastPos \in 0 .. Len(msg)
  PROVE  AtEmptyLine <=>
           lastPos + 2 <= Len(msg) /\ msg[lastPos + 1] = CR /\ msg[lastPos + 2] = LF
<1> DEFINE n == Len(msg)
           p == lastPos
           last == Min({p + 2, n})
           s == SubSeq(msg, p + 1, last)
<1>1. n \in Nat /\ msg \in Seq(Character) /\ p \in Nat /\ p <= n
  BY DEF Countable
<1>2. AtEmptyLine <=> s = CRLF
  BY DEF AtEmptyLine, Substr
<1>3. last = IF p + 2 <= n THEN p + 2 ELSE n
  <2>1. {p + 2, n} \in SUBSET Nat /\ {p + 2, n} # {}
    BY <1>1
  <2>2. last \in {p + 2, n} /\ \A y \in {p + 2, n} : last <= y
    <3> DEFINE two == {p + 2, n}
    <3> HIDE DEF two
    <3> QED
      BY <2>1, MinIs DEF two
  <2> HIDE DEF last, p, n
  <2>3. last <= p + 2 /\ last <= n /\ (last = p + 2 \/ last = n)
    BY <2>2
  <2> QED
    BY <1>1, <2>3
<1> HIDE DEF last, p, n
<1>4. last \in Int /\ last <= n
  BY <1>1, <1>3
<1>5. /\ Len(s) = IF p + 1 <= last THEN last - (p + 1) + 1 ELSE 0
      /\ \A i \in 1 .. last - (p + 1) + 1 : s[i] = msg[p + 1 + i - 1]
      /\ s \in Seq(Character)
  <2>1. \A i \in p + 1 .. last : msg[i] \in Character
    <3>1. \A i \in p + 1 .. last : i \in 1 .. n
      BY <1>1, <1>4
    <3> QED
      BY <1>1, <3>1, ElementOfSeq DEF n
  <2>2. p + 1 \in Int
    BY <1>1
  <2> QED
    BY <1>4, <2>1, <2>2, SubSeqProperties
<1> HIDE DEF s
<1>6. CRLF \in Seq(Character) /\ Len(CRLF) = 2 /\ CRLF[1] = CR /\ CRLF[2] = LF
  BY DEF CRLF, Character
<1>7. CASE p + 2 <= n
  <2>1. last = p + 2 /\ last - (p + 1) + 1 = 2 /\ p + 1 <= last
    BY <1>1, <1>3, <1>7
  <2>2. Len(s) = 2
    BY <1>5, <2>1
  <2>3. s[1] = msg[p + 1] /\ s[2] = msg[p + 2]
    <3>1. p + 1 + 1 - 1 = p + 1 /\ p + 1 + 2 - 1 = p + 2
      BY <1>1
    <3> QED
      BY <1>5, <2>1, <3>1
  <2>4. msg[p + 1] = CR /\ msg[p + 2] = LF => s = CRLF
    <3>1. \A i \in 1 .. 2 : i = 1 \/ i = 2
      OBVIOUS
    <3> QED
      BY <1>5, <1>6, <2>2, <2>3, <3>1, SeqEqual
  <2> QED
    BY <1>2, <1>6, <1>7, <2>3, <2>4 DEF p, n
<1>8. CASE ~(p + 2 <= n)
  <2>1. Len(s) # 2
    <3>1. last = n /\ n - (p + 1) + 1 # 2
      BY <1>1, <1>3, <1>8
    <3> QED
      BY <1>5, <3>1
  <2> QED
    BY <1>2, <1>6, <1>8, <2>1 DEF p, n
<1> QED
  BY <1>7, <1>8

(***************************************************************************)
(* Reading a part of a message, the loop is at the end of the text, after  *)
(* an end of line, or at position 1 with no end of line left to find; at   *)
(* none of them does the text have an empty line.                          *)
(***************************************************************************)
AtLine ==
  \/ lastPos = Len(msg) + 1
  \/ lastPos \in 1 .. Len(msg) /\ msg[lastPos] = LF

AtOne ==
  /\ lastPos = 1
  /\ nextPos = npos \/ \A i \in 1 .. Len(msg) : msg[i] \notin EndOfLine

CutInv ==
  PartOfSection =>
    outcome # "accepted" /\ (outcome = "looping" => AtLine \/ AtOne)

\* After an end of line that a search has found comes a line, or nothing.
LEMMA NextIsLine ==
  ASSUME Countable, PartOfSection, NEW pos \in 0 .. 1, NEW eol, Finds(EndOfLine, pos, eol)
  PROVE  /\ eol \in Nat
         /\ \/ eol + 2 = Len(msg) + 1
            \/ eol + 2 \in 1 .. Len(msg) /\ msg[eol + 2] = LF
<1>1. /\ Len(msg) \in Nat /\ eol \in Nat /\ eol <= Len(msg) - 1 /\ pos <= eol
      /\ msg[eol + 1] \in EndOfLine
      /\ \A j \in pos .. eol - 1 : msg[j + 1] \notin EndOfLine
  BY DEF Finds, Countable
<1>2. msg[eol + 1] # LF
  <2> SUFFICES ASSUME msg[eol + 1] = LF PROVE FALSE
    OBVIOUS
  <2>1. eol + 1 \in 1 .. Len(msg) /\ (eol + 1) - 1 = eol
    BY <1>1
  <2>2. eol >= 1 /\ msg[eol] = CR
    BY <2>1 DEF PartOfSection
  <2>3. CASE eol = 1
    <3>1. msg[1] \notin EndOfLine
      BY <1>1, <2>3 DEF PartOfSection
    <3> QED
      BY <2>2, <2>3, <3>1 DEF EndOfLine
  <2>4. CASE eol # 1
    <3>1. eol - 1 \in pos .. eol - 1 /\ (eol - 1) + 1 = eol
      BY <1>1, <2>2, <2>4
    <3>2. msg[eol] \notin EndOfLine
      BY <1>1, <3>1
    <3> QED
      BY <2>2, <3>2 DEF EndOfLine
  <2> QED
    BY <2>3, <2>4
<1>3. msg[eol + 1] = CR
  BY <1>1, <1>2 DEF EndOfLine
<1>4. CASE eol + 1 = Len(msg)
  BY <1>1, <1>4
<1>5. CASE eol + 1 # Len(msg)
  <2>1. eol + 1 \in 1 .. Len(msg) - 1 /\ (eol + 1) + 1 = eol + 2 /\ eol + 2 \in 1 .. Len(msg)
    BY <1>1, <1>5
  <2>2. msg[(eol + 1) + 1] = LF
    BY <1>3, <2>1 DEF PartOfSection
  <2> QED
    BY <1>1, <2>1, <2>2
<1> QED
  BY <1>4, <1>5

\* The same behind a character that is no end of a line.
LEMMA NextBehindIsLine ==
  ASSUME Countable, PartOfSection, NEW start \in 1 .. Len(msg), msg[start] \notin EndOfLine,
         NEW eol, Finds(EndOfLine, start, eol)
  PROVE  \/ eol + 2 = Len(msg) + 1
         \/ eol + 2 \in 1 .. Len(msg) /\ msg[eol + 2] = LF
<1>1. /\ Len(msg) \in Nat /\ eol \in Nat /\ eol <= Len(msg) - 1 /\ start \in Nat /\ start <= eol
      /\ start >= 1
      /\ msg[eol + 1] \in EndOfLine
      /\ \A j \in start .. eol - 1 : msg[j + 1] \notin EndOfLine
  BY DEF Finds, Countable
<1>2. msg[eol + 1] # LF
  <2> SUFFICES ASSUME msg[eol + 1] = LF PROVE FALSE
    OBVIOUS
  <2>1. eol + 1 \in 1 .. Len(msg) /\ (eol + 1) - 1 = eol
    BY <1>1
  <2>2. msg[eol] = CR
    BY <2>1 DEF PartOfSection
  <2>3. eol = start \/ (eol - 1 \in start .. eol - 1 /\ (eol - 1) + 1 = eol)
    BY <1>1
  <2>4. msg[eol] \notin EndOfLine
    BY <1>1, <2>3
  <2> QED
    BY <2>2, <2>4 DEF EndOfLine
<1>3. msg[eol + 1] = CR
  BY <1>1, <1>2 DEF EndOfLine
<1>4. CASE eol + 1 = Len(msg)
  BY <1>1, <1>4
<1>5. CASE eol + 1 # Len(msg)
  <2>1. eol + 1 \in 1 .. Len(msg) - 1 /\ (eol + 1) + 1 = eol + 2 /\ eol + 2 \in 1 .. Len(msg)
    BY <1>1, <1>5
  <2>2. msg[(eol + 1) + 1] = LF
    BY <1>3, <2>1 DEF PartOfSection
  <2> QED
    BY <1>1, <2>1, <2>2
<1> QED
  BY <1>4, <1>5

\* At a line, the colon the loop finds is that of its header, if it has one.
LEMMA ColonOfLine ==
  ASSUME Countable, PartOfSection, lastPos \in 1 .. Len(msg), msg[lastPos] = LF,
         NEW colon, Finds({":"}, lastPos, colon), colon + 2 <= Len(msg)
  PROVE  msg[colon + 2] \in {":", "x"}
<1>1. /\ Len(msg) \in Nat /\ lastPos \in Nat /\ lastPos >= 1
      /\ colon \in Nat /\ colon <= Len(msg) - 1 /\ lastPos <= colon
      /\ msg[colon + 1] = ":"
      /\ \A j \in lastPos .. colon - 1 : msg[j + 1] # ":"
  BY DEF Finds, Countable
<1>2. lastPos \in 1 .. Len(msg) - 1
  BY <1>1
<1>3. CASE lastPos + 1 = Len(msg) /\ msg[Len(msg)] = CR
  <2>1. colon + 1 = Len(msg)
    BY <1>1, <1>3
  <2> QED
    BY <1>1, <1>3, <2>1 DEF CR
<1>4. CASE \E c \in lastPos + 1 .. Len(msg) + 1 :
             /\ \A j \in lastPos + 1 .. c - 1 : msg[j] = "x"
             /\ c <= Len(msg) => msg[c] = ":"
             /\ c < Len(msg) => msg[c + 1] \in {":", "x"}
  <2>1. PICK c \in lastPos + 1 .. Len(msg) + 1 :
          /\ \A j \in lastPos + 1 .. c - 1 : msg[j] = "x"
          /\ c <= Len(msg) => msg[c] = ":"
          /\ c < Len(msg) => msg[c + 1] \in {":", "x"}
    BY <1>4
  <2>2. c \in Nat /\ c >= lastPos + 1
    BY <1>1, <2>1
  <2>3. c = colon + 1
    <3>1. ~(colon + 1 < c)
      <4>1. colon + 1 < c => colon + 1 \in lastPos + 1 .. c - 1
        BY <1>1, <2>2
      <4> QED
        BY <1>1, <2>1, <4>1
    <3>2. ~(c < colon + 1)
      <4>1. c < colon + 1 => c - 1 \in lastPos .. colon - 1 /\ (c - 1) + 1 = c /\ c <= Len(msg)
        BY <1>1, <2>2
      <4> QED
        BY <1>1, <2>1, <4>1
    <3> QED
      BY <1>1, <2>2, <3>1, <3>2
  <2>4. c < Len(msg) /\ c + 1 = colon + 2
    BY <1>1, <2>3
  <2> QED
    BY <2>1, <2>4
<1> QED
  BY <1>2, <1>3, <1>4 DEF PartOfSection

\* Neither at a line nor at position 1 is there an empty line.
LEMMA NoEmptyLine ==
  ASSUME Positions, PartOfSection, lastPos <= Len(msg), AtLine \/ AtOne
  PROVE  ~AtEmptyLine
<1>1. Countable /\ Len(msg) \in Nat /\ lastPos \in Nat /\ lastPos \in 0 .. Len(msg)
  BY DEF Positions, Countable
<1> SUFFICES ASSUME lastPos + 2 <= Len(msg), msg[lastPos + 1] = CR, msg[lastPos + 2] = LF
             PROVE  FALSE
  BY <1>1, AtEmptyLineIs
<1>2. CASE lastPos = 1
  <2>1. msg[2] \notin EndOfLine
    BY <1>1, <1>2 DEF PartOfSection
  <2> QED
    BY <1>2, <2>1 DEF EndOfLine
<1>3. CASE lastPos \in 1 .. Len(msg) /\ msg[lastPos] = LF
  <2>1. lastPos \in 1 .. Len(msg) - 1 /\ lastPos + 1 # Len(msg)
    BY <1>1, <1>3
  <2>2. PICK c \in lastPos + 1 .. Len(msg) + 1 :
          /\ \A j \in lastPos + 1 .. c - 1 : msg[j] = "x"
          /\ c <= Len(msg) => msg[c] = ":"
    BY <1>3, <2>1 DEF PartOfSection
  <2>3. c = lastPos + 1 \/ lastPos + 1 \in lastPos + 1 .. c - 1
    BY <1>1, <2>2
  <2>4. msg[lastPos + 1] \in {"x", ":"}
    BY <1>1, <2>2, <2>3
  <2> QED
    BY <2>4 DEF CR
<1> QED
  BY <1>1, <1>2, <1>3 DEF AtLine, AtOne

\* The invariant of the loop over a part of a message.
LEMMA CutInvariant == Spec => []CutInv
<1>1. Init => CutInv
  <2> SUFFICES ASSUME Init, PartOfSection
               PROVE  outcome = "looping" /\ (AtLine \/ AtOne)
    BY DEF CutInv
  <2>1. Positions /\ Countable /\ outcome = "looping" /\ lastPos = FirstHeader
    BY PositionsKept DEF Init, ParserInit, Positions
  <2>2. CASE \E e \in 0 .. Len(msg) - 1 : Finds(EndOfLine, 0, e) /\ FirstHeader = e + 2
    <3>1. PICK e \in 0 .. Len(msg) - 1 : Finds(EndOfLine, 0, e) /\ lastPos = e + 2
      BY <2>1, <2>2
    <3> QED
      BY <2>1, <3>1, NextIsLine DEF AtLine
  <2>3. CASE FindsNone(EndOfLine, 0, npos) /\ FirstHeader = 1
    <3>1. ASSUME NEW i \in 1 .. Len(msg) PROVE msg[i] \notin EndOfLine
      <4>1. i - 1 \in 0 .. Len(msg) - 1 /\ (i - 1) + 1 = i
        BY <2>1 DEF Countable
      <4> QED
        BY <2>3, <4>1 DEF FindsNone
    <3> QED
      BY <2>1, <2>3, <3>1 DEF AtOne
  <2> QED
    BY <2>1, <2>2, <2>3, FirstHeaderIs
<1>2. Positions /\ CutInv /\ [Next]_vars => CutInv'
  <2> SUFFICES ASSUME Positions, CutInv, [Next]_vars, PartOfSection'
               PROVE  outcome' # "accepted" /\ (outcome' = "looping" => (AtLine \/ AtOne)')
    BY DEF CutInv
  <2>1. ParseHeaders \/ UNCHANGED parser
    BY DEF Next, Parse, ReadHeaders, ReadWord, DateEnds, vars
  <2>2. msg' = msg
    BY <2>1 DEF ParseHeaders, Header, Ends, parser
  <2>3. /\ PartOfSection /\ outcome # "accepted"
        /\ outcome = "looping" => AtLine \/ AtOne
    BY <2>2 DEF PartOfSection, CutInv
  <2>4. CASE UNCHANGED parser
    BY <2>3, <2>4 DEF parser, AtLine, AtOne, npos
  <2>5. CASE ParseHeaders /\ outcome' # "looping"
    <3>1. CASE lastPos <= Len(msg)
      <4>1. ~AtEmptyLine
        BY <2>3, <2>5, <3>1, NoEmptyLine DEF ParseHeaders
      <4> QED
        BY <2>3, <2>5, <4>1 DEF ParseHeaders, Header, Ends
    <3>2. CASE ~(lastPos <= Len(msg))
      <4>1. lastPos > Len(msg)
        BY <3>2 DEF Positions, Countable
      <4> QED
        BY <2>5, <4>1 DEF ParseHeaders, Ends
    <3> QED
      BY <3>1, <3>2
  <2>6. CASE ParseHeaders /\ outcome' = "looping"
    <3>1. outcome = "looping" /\ lastPos <= Len(msg) /\ (AtLine \/ AtOne)
      BY <2>3, <2>6, PassIs
    <3>2. PICK colon, start, eol : Pass(colon, start, eol)
      BY <2>6, PassIs
    <3>3. /\ Countable /\ Len(msg) \in Nat /\ lastPos \in Nat /\ npos \in Nat
          /\ npos > Len(msg) + 2
      BY PlusIs DEF Positions, Countable
    <3>4. start \in 1 .. Len(msg) /\ start \in Nat /\ nextPos' = eol /\ nextPos <= lastPos'
      BY <3>2, <3>3 DEF Pass
    <3>5. CASE FindsNone(EndOfLine, start, eol) /\ lastPos' = 1
      BY <2>6, <3>4, <3>5 DEF AtOne, FindsNone, npos
    <3>6. CASE Finds(EndOfLine, start, eol) /\ lastPos' = eol + 2
      <4>1. \/ eol + 2 = Len(msg) + 1
            \/ eol + 2 \in 1 .. Len(msg) /\ msg[eol + 2] = LF
        <5>1. CASE start = 1
          BY <2>3, <3>3, <3>6, <5>1, NextIsLine
        <5>2. CASE start # 1
          <6>1. Finds({":"}, lastPos, colon) /\ start = colon + 2
            BY <3>2, <5>2 DEF Pass
          <6>2. CASE AtLine
            <7>1. lastPos \in 1 .. Len(msg) /\ msg[lastPos] = LF
              BY <3>1, <3>3, <6>2 DEF AtLine
            <7>2. colon + 2 <= Len(msg)
              BY <3>4, <6>1
            <7>3. msg[start] \in {":", "x"}
              BY <2>3, <3>3, <6>1, <7>1, <7>2, ColonOfLine
            <7>4. msg[start] \notin EndOfLine
              BY <7>3 DEF EndOfLine, CR, LF
            <7> QED
              BY <2>3, <3>3, <3>4, <3>6, <7>4, NextBehindIsLine
          <6>3. CASE AtOne
            <7>1. eol \in start .. Len(msg) - 1 /\ msg[eol + 1] \in EndOfLine
              BY <3>6 DEF Finds
            <7>2. eol + 1 \in 1 .. Len(msg) /\ ~(npos <= eol + 2)
              BY <3>3, <3>4, <7>1
            <7> QED
              BY <3>4, <3>6, <6>3, <7>1, <7>2 DEF AtOne
          <6> QED
            BY <3>1, <6>2, <6>3
        <5> QED
          BY <5>1, <5>2
      <4> QED
        BY <2>2, <2>6, <3>6, <4>1 DEF AtLine
    <3> QED
      BY <2>6, <3>2, <3>5, <3>6 DEF Pass
  <2> QED
    BY <2>1, <2>4, <2>5, <2>6
<1> QED
  BY <1>1, <1>2, PositionsInvariant, PTL DEF Spec

(***************************************************************************)
(* A part of the header section of a message is never taken for a whole    *)
(* one: the loop refuses it, throws, or goes on.                           *)
(***************************************************************************)
THEOREM CutsAreNotAccepted == Spec => []CutIsNotAccepted
<1>1. CutInv => CutIsNotAccepted
  BY CutsAreParts DEF CutInv, CutIsNotAccepted
<1> QED
  BY <1>1, CutInvariant, PTL
-------------------------------------------------------------------------------
(* Messages.                                                               *)

\* The headers of the first k fields of a message.
FirstFields(m, k) ==
  LET names == {m.fields[i].name : i \in 1 .. k}
      first(name) == Min({i \in 1 .. k : m.fields[i].name = name})
  IN  [name \in names |-> Tail(AfterColon(m.fields[first(name)]))]

\* A search returns the one position that it finds.
LEMMA FoundIs ==
  ASSUME Countable, NEW chars, NEW pos \in Nat, NEW i, Finds(chars, pos, i)
  PROVE  FindFirstOf(chars, pos) = i
<1> DEFINE f == FindFirstOf(chars, pos)
<1>1. /\ Len(msg) \in Nat
      /\ Finds(chars, pos, f) \/ FindsNone(chars, pos, f)
  BY FindFirstOfIs DEF Countable
<1> HIDE DEF f
<1>2. i \in pos .. Len(msg) - 1 /\ msg[i + 1] \in chars
      /\ \A j \in pos .. i - 1 : msg[j + 1] \notin chars
  BY DEF Finds
<1>3. Finds(chars, pos, f)
  BY <1>1, <1>2 DEF FindsNone
<1>4. f \in pos .. Len(msg) - 1 /\ msg[f + 1] \in chars
      /\ \A j \in pos .. f - 1 : msg[j + 1] \notin chars
  BY <1>3 DEF Finds
<1>5. ~(i < f)
  <2>1. i < f => i \in pos .. f - 1
    BY <1>1, <1>2, <1>4
  <2> QED
    BY <1>2, <1>4, <2>1
<1>6. ~(f < i)
  <2>1. f < i => f \in pos .. i - 1
    BY <1>1, <1>2, <1>4
  <2> QED
    BY <1>2, <1>4, <2>1
<1> QED
  BY <1>1, <1>2, <1>4, <1>5, <1>6 DEF f

\* A part within the text has the characters from its position on.
LEMMA SubstrIs ==
  ASSUME Countable, NEW pos \in Nat, NEW n \in Nat, pos + n <= Len(msg)
  PROVE  /\ Substr(pos, n) \in Seq(Character) /\ Len(Substr(pos, n)) = n
         /\ \A i \in 1 .. n : Substr(pos, n)[i] = msg[pos + i]
<1> DEFINE l == Len(msg)
           last == Min({pos + n, l})
           s == SubSeq(msg, pos + 1, last)
<1>1. l \in Nat /\ msg \in Seq(Character) /\ pos + n <= l
  BY DEF Countable
<1>2. Substr(pos, n) = s
  BY DEF Substr
<1>3. last = pos + n
  <2>1. {pos + n, l} \in SUBSET Nat /\ {pos + n, l} # {}
    BY <1>1
  <2>2. last \in {pos + n, l} /\ \A y \in {pos + n, l} : last <= y
    <3> DEFINE two == {pos + n, l}
    <3> HIDE DEF two
    <3> QED
      BY <2>1, MinIs DEF two
  <2> HIDE DEF last, l
  <2>3. last <= pos + n /\ (last = pos + n \/ last = l)
    BY <2>2
  <2> QED
    BY <1>1, <2>3
<1> HIDE DEF last, l
<1>4. /\ Len(s) = IF pos + 1 <= last THEN last - (pos + 1) + 1 ELSE 0
      /\ \A i \in 1 .. last - (pos + 1) + 1 : s[i] = msg[pos + 1 + i - 1]
      /\ s \in Seq(Character)
  <2>1. \A i \in pos + 1 .. last : msg[i] \in Character
    <3>1. \A i \in pos + 1 .. last : i \in 1 .. l
      BY <1>1, <1>3
    <3> QED
      BY <1>1, <3>1, ElementOfSeq DEF l
  <2>2. pos + 1 \in Int /\ last \in Int
    BY <1>3
  <2> QED
    BY <2>1, <2>2, SubSeqProperties
<1> HIDE DEF s
<1>5. last - (pos + 1) + 1 = n /\ (pos + 1 <= last <=> n # 0)
  BY <1>3
<1>6. \A i \in 1 .. n : pos + 1 + i - 1 = pos + i
  OBVIOUS
<1> QED
  BY <1>2, <1>4, <1>5, <1>6

\* Every part of a header section is a prefix of it.
LEMMA UptoIsPrefix ==
  ASSUME NEW m \in Messages, NEW k \in 0 .. Len(m.fields)
  PROVE  /\ Len(Upto(m, k)) \in Nat /\ Len(Upto(m, k)) <= Len(HeaderPart(m))
         /\ \A i \in 1 .. Len(Upto(m, k)) : HeaderPart(m)[i] = Upto(m, k)[i]
<1> DEFINE n == Len(m.fields)
           h == HeaderPart(m)
           Prefix(t) == /\ Len(t) \in Nat /\ Len(t) <= Len(h)
                        /\ \A i \in 1 .. Len(t) : h[i] = t[i]
           S == {j \in Nat : j <= n /\ ~Prefix(Upto(m, n - j))}
<1>1. n \in Nat /\ h = Upto(m, n) /\ Len(h) \in Nat
  BY MessageType, UptoIs, SectionType
<1>2. S = {}
  <2> SUFFICES ASSUME S # {}
               PROVE  FALSE
    OBVIOUS
  <2>1. PICK j \in S : \A y \in S : j <= y
    <3> S \in SUBSET Nat
      OBVIOUS
    <3> HIDE DEF S
    <3> QED
      BY LeastNumber
  <2>2. j \in Nat /\ j <= n /\ ~Prefix(Upto(m, n - j))
    BY <2>1
  <2>3. CASE j = 0
    <3>1. n - j = n
      BY <1>1, <2>3
    <3>2. Upto(m, n - j) = h
      BY <1>1, <3>1
    <3>3. Prefix(h)
      BY <1>1
    <3> QED
      BY <2>2, <3>2, <3>3
  <2>4. CASE j # 0
    <3> DEFINE i == n - j + 1
    <3>1. /\ i \in 1 .. n /\ i - 1 = n - j
          /\ j - 1 \in Nat /\ j - 1 <= n /\ n - (j - 1) = i /\ ~(j <= j - 1)
      BY <1>1, <2>2, <2>4
    <3> HIDE DEF i
    <3>2. Prefix(Upto(m, i))
      BY <2>1, <3>1
    <3>3. Upto(m, i) = Upto(m, n - j) \o Line(m.fields[i])
      BY <3>1, UptoIs
    <3>4. n - j \in 0 .. n
      BY <1>1, <2>2
    <3> DEFINE t == Upto(m, n - j)
               l == Line(m.fields[i])
    <3>5. t \in Seq(Character) /\ l \in Seq(Character)
      <4>1. /\ m.fields[i].name \in Seq({"x"})
            /\ AfterColon(m.fields[i]) \in Seq({":", "x"}) \ {<<>>}
        BY <3>1, MessageType
      <4> QED
        BY <3>4, <4>1, UptoIs, LineIs
    <3> HIDE DEF t, l, h
    <3>6. /\ Len(t) \in Nat /\ Len(l) \in Nat /\ Len(t \o l) = Len(t) + Len(l)
          /\ \A x \in 1 .. Len(t) : (t \o l)[x] = t[x]
      BY <3>5, AfterIs
    <3>7. Prefix(t \o l)
      BY <3>2, <3>3 DEF t, l
    <3> DEFINE u == t \o l
    <3> HIDE DEF u
    <3>8. /\ Len(u) = Len(t) + Len(l) /\ Len(u) <= Len(h)
          /\ \A x \in 1 .. Len(u) : h[x] = u[x]
          /\ \A x \in 1 .. Len(t) : u[x] = t[x]
      BY <3>6, <3>7 DEF u
    <3>9. Len(t) <= Len(h) /\ \A x \in 1 .. Len(t) : x \in 1 .. Len(u)
      <4> DEFINE a == Len(t)
                 b == Len(l)
                 c == Len(u)
                 d == Len(h)
      <4>1. a \in Nat /\ b \in Nat /\ c = a + b /\ c <= d /\ d \in Nat
        BY <1>1, <3>6, <3>8 DEF h
      <4> HIDE DEF a, b, c, d
      <4>2. a <= d /\ \A x \in 1 .. a : x \in 1 .. c
        BY <4>1
      <4> QED
        BY <4>2 DEF a, c, d
    <3>10. Prefix(t)
      BY <3>6, <3>8, <3>9
    <3> QED
      BY <2>2, <3>10 DEF t
  <2> QED
    BY <2>3, <2>4
<1>3. n - k \in Nat /\ n - k <= n /\ n - (n - k) = k
  BY <1>1
<1>4. Prefix(Upto(m, k))
  BY <1>2, <1>3
<1> QED
  BY <1>4

\* The text after the first k fields is the next field, or the empty line.
LEMMA TextIs ==
  ASSUME NEW m \in Messages
  PROVE  /\ \A k \in 1 .. Len(m.fields) :
              LET p == Len(Upto(m, k - 1))
                  l == Line(m.fields[k])
              IN  /\ p \in Nat /\ Len(l) \in Nat
                  /\ Len(Upto(m, k)) = p + Len(l) /\ p + Len(l) <= Len(Text(m))
                  /\ \A i \in 1 .. Len(l) : Text(m)[p + i] = l[i]
         /\ LET p == Len(HeaderPart(m))
            IN  /\ p \in Nat /\ p + 2 <= Len(Text(m))
                /\ Text(m)[p + 1] = CR /\ Text(m)[p + 2] = LF
<1> DEFINE h == HeaderPart(m)
           e == h \o CRLF
<1>1. /\ h \in Seq(Character) /\ CRLF \in Seq(Character) /\ m.body \in Seq(Character)
      /\ Len(CRLF) = 2 /\ CRLF[1] = CR /\ CRLF[2] = LF
  BY SectionType, MessageType DEF CRLF, Character
<1>2. Text(m) = e \o m.body
  BY DEF Text
<1> HIDE DEF h
<1>3. /\ e \in Seq(Character) /\ Len(h) \in Nat /\ Len(e) = Len(h) + Len(CRLF)
      /\ \A i \in 1 .. Len(h) : e[i] = h[i]
      /\ \A i \in 1 .. Len(CRLF) : e[Len(h) + i] = CRLF[i]
  BY <1>1, AfterIs
<1> HIDE DEF e
<1>4. /\ Len(e) \in Nat /\ Len(m.body) \in Nat /\ Len(Text(m)) = Len(e) + Len(m.body)
      /\ \A i \in 1 .. Len(e) : Text(m)[i] = e[i]
  <2> DEFINE b == m.body
             t == e \o b
  <2>1. b \in Seq(Character)
    BY <1>1
  <2> HIDE DEF b
  <2>2. /\ Len(e) \in Nat /\ Len(b) \in Nat /\ Len(t) = Len(e) + Len(b)
        /\ \A i \in 1 .. Len(e) : t[i] = e[i]
    BY <1>3, <2>1, AfterIs
  <2>3. Text(m) = t
    BY <1>2 DEF b
  <2> HIDE DEF t
  <2> QED
    BY <2>2, <2>3 DEF b
<1> DEFINE full == Text(m)
<1> HIDE DEF full
<1>5. /\ Len(h) + 2 <= Len(Text(m))
      /\ Text(m)[Len(h) + 1] = CR /\ Text(m)[Len(h) + 2] = LF
      /\ \A i \in 1 .. Len(h) : Text(m)[i] = h[i]
  <2>1. /\ Len(h) + 1 \in 1 .. Len(e) /\ Len(h) + 2 \in 1 .. Len(e)
        /\ \A i \in 1 .. Len(h) : i \in 1 .. Len(e)
    BY <1>1, <1>3
  <2>2. e[Len(h) + 1] = CR /\ e[Len(h) + 2] = LF
    BY <1>1, <1>3
  <2>3. full[Len(h) + 1] = CR /\ full[Len(h) + 2] = LF
    BY <1>4, <2>1, <2>2 DEF full
  <2>4. \A i \in 1 .. Len(h) : full[i] = h[i]
    BY <1>3, <1>4, <2>1 DEF full
  <2>5. Len(h) + 2 <= Len(full)
    <3>1. Len(e) = Len(h) + 2 /\ Len(full) = Len(e) + Len(m.body) /\ Len(m.body) \in Nat
      BY <1>1, <1>3, <1>4 DEF full
    <3> DEFINE x == Len(m.body)
    <3> HIDE DEF x
    <3>2. Len(full) = Len(h) + 2 + x /\ x \in Nat
      BY <1>3, <3>1 DEF x
    <3> QED
      BY <1>3, <3>2
  <2> QED
    BY <2>3, <2>4, <2>5 DEF full
<1>6. ASSUME NEW k \in 1 .. Len(m.fields)
      PROVE  /\ Len(Upto(m, k - 1)) \in Nat /\ Len(Line(m.fields[k])) \in Nat
             /\ Len(Upto(m, k)) = Len(Upto(m, k - 1)) + Len(Line(m.fields[k]))
             /\ Len(Upto(m, k - 1)) + Len(Line(m.fields[k])) <= Len(Text(m))
             /\ \A i \in 1 .. Len(Line(m.fields[k])) :
                  Text(m)[Len(Upto(m, k - 1)) + i] = Line(m.fields[k])[i]
  <2>1. k - 1 \in 0 .. Len(m.fields) /\ k \in 0 .. Len(m.fields)
    BY MessageType
  <2> DEFINE t == Upto(m, k - 1)
             l == Line(m.fields[k])
             u == t \o l
  <2>2. Upto(m, k) = u
    BY UptoIs
  <2>3. t \in Seq(Character) /\ l \in Seq(Character)
    <3>1. /\ m.fields[k].name \in Seq({"x"})
          /\ AfterColon(m.fields[k]) \in Seq({":", "x"}) \ {<<>>}
      BY MessageType
    <3> QED
      BY <2>1, <3>1, UptoIs, LineIs
  <2> HIDE DEF t, l
  <2>4. /\ Len(t) \in Nat /\ Len(l) \in Nat /\ Len(u) = Len(t) + Len(l)
        /\ \A i \in 1 .. Len(l) : u[Len(t) + i] = l[i]
    BY <2>3, AfterIs
  <2> HIDE DEF u
  <2>5. Len(u) <= Len(h) /\ \A i \in 1 .. Len(u) : h[i] = u[i]
    BY <2>1, <2>2, UptoIsPrefix DEF h
  <2>6. ASSUME NEW i \in 1 .. Len(l) PROVE Text(m)[Len(t) + i] = l[i]
    <3>1. Len(t) + i \in 1 .. Len(u) /\ Len(t) + i \in 1 .. Len(h)
      BY <1>3, <2>4, <2>5
    <3> QED
      BY <1>5, <2>4, <2>5, <3>1
  <2>7. Len(t) + Len(l) <= Len(full)
    <3>1. Len(full) \in Nat /\ Len(h) + 2 <= Len(full)
      BY <1>5, SectionType DEF full
    <3> QED
      BY <1>3, <2>4, <2>5, <3>1
  <2> QED
    BY <2>2, <2>4, <2>6, <2>7 DEF t, l, full
<1> QED
  BY <1>3, <1>5, <1>6 DEF h

\* The map without a field, and with all of them.
LEMMA FirstFieldsAre ==
  ASSUME NEW m \in Messages
  PROVE  FirstFields(m, 0) = <<>> /\ FirstFields(m, Len(m.fields)) = Fields(m)
<1>1. FirstFields(m, 0) = <<>>
  <2>1. 1 .. 0 = {}
    OBVIOUS
  <2> QED
    BY <2>1 DEF FirstFields
<1>2. FirstFields(m, Len(m.fields)) = Fields(m)
  <2>1. DOMAIN m.fields = 1 .. Len(m.fields)
    BY MessageType
  <2> QED
    BY <2>1 DEF FirstFields, Fields
<1> QED
  BY <1>1, <1>2

\* To insert the next field keeps the first of each name.
LEMMA InsertIs ==
  ASSUME NEW m \in Messages, NEW k \in 1 .. Len(m.fields), headers = FirstFields(m, k - 1)
  PROVE  Insert(m.fields[k].name, Kept(m.fields[k])) = FirstFields(m, k)
<1> DEFINE name(i) == m.fields[i].name
           content(i) == Kept(m.fields[i])
           names(i) == {name(j) : j \in 1 .. i}
           with(i, x) == {j \in 1 .. i : name(j) = x}
<1>1. Len(m.fields) \in Nat /\ k \in Nat /\ k >= 1
  BY MessageType
<1>2. headers = [x \in names(k - 1) |-> content(Min(with(k - 1, x)))]
  BY DEF FirstFields, Kept
<1>3. FirstFields(m, k) = [x \in names(k) |-> content(Min(with(k, x)))]
  BY DEF FirstFields, Kept
<1> HIDE DEF name, content
<1>4. 1 .. k = (1 .. k - 1) \cup {k}
  BY <1>1
<1>5. names(k - 1) \cup {name(k)} = names(k)
  BY <1>4
<1>6. ASSUME NEW x \in names(k - 1)
      PROVE  Min(with(k, x)) = Min(with(k - 1, x))
  <2>1. with(k - 1, x) \subseteq with(k, x) /\ with(k - 1, x) # {}
    BY <1>4
  <2>2. with(k, x) \in SUBSET Nat /\ with(k - 1, x) \in SUBSET Nat /\ with(k, x) # {}
    BY <1>1, <2>1
  <2> DEFINE a == with(k, x)
             b == with(k - 1, x)
  <2>3. \A j \in a : j \in b \/ j = k
    BY <1>4
  <2>4. \A j \in b : j < k
    BY <1>1
  <2> HIDE DEF a, b
  <2>5. /\ Min(a) \in a /\ \A y \in a : Min(a) <= y
        /\ Min(b) \in b /\ \A y \in b : Min(b) <= y
    BY <2>1, <2>2, MinIs DEF a, b
  <2>6. a \subseteq Nat /\ b \subseteq a
    BY <2>1, <2>2 DEF a, b
  <2>7. Min(a) <= Min(b) /\ Min(b) < k /\ Min(a) \in Nat /\ Min(b) \in Nat
    BY <2>4, <2>5, <2>6
  <2>8. Min(a) # k
    BY <1>1, <2>7
  <2>9. Min(a) \in b
    BY <2>3, <2>5, <2>8
  <2>10. Min(b) <= Min(a)
    BY <2>5, <2>9
  <2>11. Min(a) = Min(b)
    <3> DEFINE i == Min(a)
               j == Min(b)
    <3> HIDE DEF i, j
    <3>1. i \in Nat /\ j \in Nat /\ i <= j /\ j <= i
      BY <2>7, <2>10 DEF i, j
    <3>2. i = j
      BY <3>1
    <3> QED
      BY <3>2 DEF i, j
  <2> QED
    BY <2>11 DEF a, b
<1>7. ASSUME name(k) \notin names(k - 1)
      PROVE  Min(with(k, name(k))) = k
  <2> DEFINE a == with(k, name(k))
  <2>1. a = {k}
    BY <1>1, <1>4, <1>7
  <2>2. a \in SUBSET Nat /\ a # {}
    BY <1>1, <2>1
  <2> HIDE DEF a
  <2>3. Min(a) \in a
    BY <2>2, MinIs
  <2> QED
    BY <2>1, <2>3 DEF a
<1> HIDE DEF names, with
<1>8. DOMAIN headers = names(k - 1)
  BY <1>2
<1>9. ASSUME NEW x \in names(k)
      PROVE  (IF x \in DOMAIN headers THEN headers[x] ELSE content(k))
               = content(Min(with(k, x)))
  <2>1. CASE x \in names(k - 1)
    BY <1>2, <1>6, <1>8, <2>1
  <2>2. CASE x \notin names(k - 1)
    <3>1. x = name(k)
      BY <1>5, <1>9, <2>2
    <3> QED
      BY <1>7, <1>8, <2>2, <3>1
  <2> QED
    BY <2>1, <2>2
<1>10. Insert(name(k), content(k))
         = [x \in names(k) |-> IF x \in DOMAIN headers THEN headers[x] ELSE content(k)]
  BY <1>5, <1>8 DEF Insert
<1>11. Insert(name(k), content(k)) = FirstFields(m, k)
  BY <1>3, <1>9, <1>10
<1> QED
  BY <1>11 DEF name, content

\* The loop has read the first k fields.
FieldsRead(m, k) ==
  /\ lastPos = Len(Upto(m, k)) /\ nextPos \in 0 .. lastPos
  /\ headers = FirstFields(m, k)

\* Reading a message, the loop has read some of its fields, in the end all.
TextInv ==
  \A m \in Messages : msg = Text(m) =>
    \/ outcome = "looping" /\ \E k \in 0 .. Len(m.fields) : FieldsRead(m, k)
    \/ outcome = "accepted" /\ FieldsRead(m, Len(m.fields))

\* The pass over the k-th field.
LEMMA FieldPass ==
  ASSUME Countable, NEW m \in Messages, msg = Text(m), NEW k \in 1 .. Len(m.fields),
         FieldsRead(m, k - 1), ParseHeaders
  PROVE  outcome' = "looping" /\ msg' = msg /\ FieldsRead(m, k)'
<1> DEFINE p == lastPos
           name == m.fields[k].name
           content == Kept(m.fields[k])
           l == Line(m.fields[k])
           a == Len(name)
           b == Len(content)
<1>1. /\ name \in Seq({"x"}) /\ content \in Seq({":", "x"})
      /\ a \in Nat /\ b \in Nat /\ Len(l) = a + b + 4
      /\ \A i \in 1 .. a : l[i] = name[i] /\ l[i] = "x"
      /\ l[a + 1] = ":"
      /\ \A i \in 1 .. b : l[a + 2 + i] = content[i] /\ l[a + 2 + i] \in {":", "x"}
      /\ l[a + b + 3] = CR
  <2>1. name \in Seq({"x"}) /\ AfterColon(m.fields[k]) \in Seq({":", "x"}) \ {<<>>}
    BY MessageType
  <2> QED
    BY <2>1, LineIs
<1> HIDE DEF l, a, b
<1>2. /\ p \in Nat /\ Len(Upto(m, k)) = p + (a + b + 4) /\ p + (a + b + 4) <= Len(msg)
      /\ \A i \in 1 .. a + b + 4 : msg[p + i] = l[i]
      /\ nextPos \in Nat /\ nextPos <= p /\ headers = FirstFields(m, k - 1)
  <2> HIDE DEF p
  <2>1. /\ p \in Nat /\ Len(Upto(m, k)) = p + Len(l) /\ p + Len(l) <= Len(msg)
        /\ \A i \in 1 .. Len(l) : msg[p + i] = l[i]
    BY TextIs DEF FieldsRead, l, p
  <2> QED
    BY <1>1, <2>1 DEF FieldsRead, p
<1>3. Len(msg) \in Nat
  BY DEF Countable
<1> DEFINE colon == p + a
           start == p + a + 2
           eol == p + a + 2 + b
<1> HIDE DEF p
<1>4. /\ \A i \in 1 .. a : msg[p + i] = name[i] /\ msg[p + i] = "x"
      /\ msg[p + a + 1] = ":"
      /\ \A i \in 1 .. b : msg[start + i] = content[i] /\ msg[start + i] \in {":", "x"}
      /\ msg[eol + 1] = CR
  <2>1. \A i \in 1 .. a : i \in 1 .. a + b + 4
    BY <1>1
  <2>2. a + 1 \in 1 .. a + b + 4 /\ p + (a + 1) = p + a + 1
    BY <1>1, <1>2
  <2>3. \A i \in 1 .. b : a + 2 + i \in 1 .. a + b + 4 /\ p + (a + 2 + i) = start + i
    BY <1>1, <1>2
  <2>4. a + b + 3 \in 1 .. a + b + 4 /\ p + (a + b + 3) = eol + 1
    BY <1>1, <1>2
  <2> HIDE DEF start, eol, name, content
  <2>5. \A i \in 1 .. a : msg[p + i] = name[i] /\ msg[p + i] = "x"
    BY <1>1, <1>2, <2>1
  <2>6. msg[p + a + 1] = ":"
    BY <1>1, <1>2, <2>2
  <2>7. ASSUME NEW i \in 1 .. b
        PROVE  msg[start + i] = content[i] /\ msg[start + i] \in {":", "x"}
    <3>1. msg[p + (a + 2 + i)] = l[a + 2 + i]
      BY <1>2, <2>3
    <3> QED
      BY <1>1, <2>3, <3>1
  <2>8. msg[eol + 1] = CR
    BY <1>1, <1>2, <2>4
  <2> QED
    BY <2>5, <2>6, <2>7, <2>8
<1>5. p <= Len(msg) /\ colon \in 0 .. Len(msg) - 1 /\ start \in 0 .. Len(msg)
      /\ eol \in 0 .. Len(msg) - 1
  BY <1>1, <1>2, <1>3
<1>6. ~AtEmptyLine
  <2>1. a = 0 \/ 1 \in 1 .. a
    BY <1>1
  <2>2. a = 0 => p + a + 1 = p + 1
    BY <1>2
  <2>3. msg[p + 1] \in {"x", ":"}
    BY <1>4, <2>1, <2>2
  <2>4. lastPos \in 0 .. Len(msg)
    BY <1>2, <1>5 DEF p
  <2> QED
    BY <2>3, <2>4, AtEmptyLineIs DEF CR, p
<1>7. FindFirstOf({":"}, p) = colon
  <2>1. ASSUME NEW j \in p .. colon - 1 PROVE msg[j + 1] \notin {":"}
    <3>1. j + 1 - p \in 1 .. a /\ p + (j + 1 - p) = j + 1
      BY <1>1, <1>2
    <3>2. msg[j + 1] = "x"
      BY <1>4, <3>1
    <3> QED
      BY <3>2
  <2>2. colon \in p .. Len(msg) - 1
    BY <1>1, <1>2, <1>5
  <2> HIDE DEF colon
  <2>3. msg[colon + 1] \in {":"}
    BY <1>4 DEF colon
  <2>4. Finds({":"}, p, colon)
    BY <2>1, <2>2, <2>3 DEF Finds
  <2> QED
    BY <1>2, <2>4, FoundIs
<1>8. FindFirstOf(EndOfLine, start) = eol
  <2>1. ASSUME NEW j \in start .. eol - 1 PROVE msg[j + 1] \notin EndOfLine
    <3>1. j + 1 - start \in 1 .. b /\ start + (j + 1 - start) = j + 1
      BY <1>1, <1>2
    <3>2. msg[j + 1] \in {":", "x"}
      <4> HIDE DEF start
      <4> QED
        BY <1>4, <3>1
    <3> QED
      BY <3>2 DEF EndOfLine, CR, LF
  <2>2. eol \in start .. Len(msg) - 1 /\ start \in Nat
    BY <1>1, <1>2, <1>5
  <2> HIDE DEF start, eol
  <2>3. Finds(EndOfLine, start, eol)
    BY <1>4, <2>1, <2>2 DEF Finds, EndOfLine
  <2> QED
    BY <2>2, <2>3, FoundIs
<1>9. /\ Plus(colon, 2) = start /\ Plus(eol, 2) = p + (a + b + 4)
      /\ Plus(colon, -p) = a /\ Plus(eol, -start) = b
  <2>1. /\ colon \in 0 .. Len(msg) /\ eol \in 0 .. Len(msg) /\ p \in 0 .. Len(msg)
        /\ p <= colon /\ start <= eol
        /\ colon + 2 = start /\ eol + 2 = p + (a + b + 4)
        /\ colon - p = a /\ eol - start = b
    BY <1>1, <1>2, <1>3, <1>5
  <2> HIDE DEF colon, start, eol
  <2> QED
    BY <1>5, <2>1, PlusIs
<1>10. Substr(p, a) = name
  <2>1. p + a <= Len(msg)
    BY <1>1, <1>2, <1>3
  <2>2. /\ Substr(p, a) \in Seq(Character) /\ Len(Substr(p, a)) = a
        /\ \A i \in 1 .. a : Substr(p, a)[i] = msg[p + i]
    BY <1>1, <1>2, <2>1, SubstrIs
  <2>3. name \in Seq(Character)
    <3>1. {"x"} \subseteq Character
      BY DEF Character
    <3> QED
      BY <1>1, <3>1, SeqMonotonic
  <2> DEFINE s == Substr(p, a)
  <2> HIDE DEF s
  <2>4. \A i \in 1 .. a : s[i] = name[i]
    BY <1>4, <2>2 DEF s
  <2>5. s \in Seq(Character) /\ Len(s) = a /\ Len(name) = a
    BY <2>2 DEF s, a
  <2> HIDE DEF name
  <2>6. s = name
    BY <2>3, <2>4, <2>5, SeqEqual
  <2> QED
    BY <2>6 DEF s
<1>11. Substr(start, b) = content
  <2>1. start + b <= Len(msg) /\ start \in Nat
    BY <1>1, <1>2, <1>3
  <2> HIDE DEF start
  <2>2. /\ Substr(start, b) \in Seq(Character) /\ Len(Substr(start, b)) = b
        /\ \A i \in 1 .. b : Substr(start, b)[i] = msg[start + i]
    BY <1>1, <2>1, SubstrIs
  <2>3. content \in Seq(Character)
    <3>1. {":", "x"} \subseteq Character
      BY DEF Character
    <3> QED
      BY <1>1, <3>1, SeqMonotonic
  <2> DEFINE s == Substr(start, b)
  <2> HIDE DEF s
  <2>4. \A i \in 1 .. b : s[i] = content[i]
    BY <1>4, <2>2 DEF s
  <2>5. s \in Seq(Character) /\ Len(s) = b /\ Len(content) = b
    BY <2>2 DEF s, b
  <2> HIDE DEF content
  <2>6. s = content
    BY <2>3, <2>4, <2>5, SeqEqual
  <2> QED
    BY <2>6 DEF s
<1>12. ~(lastPos > Len(msg)) /\ ~(start > Len(msg)) /\ ~(nextPos > p + (a + b + 4))
  BY <1>1, <1>2, <1>3, <1>5 DEF p
<1> HIDE DEF colon, start, eol, name, content
<1>13. /\ outcome' = "looping" /\ msg' = msg
       /\ lastPos' = p + (a + b + 4) /\ nextPos' = eol
       /\ headers' = Insert(name, content)
  BY <1>6, <1>7, <1>8, <1>9, <1>10, <1>11, <1>12 DEF ParseHeaders, Header, MovedBack, p
<1>14. headers' = FirstFields(m, k)
  BY <1>2, <1>13, InsertIs DEF name, content
<1>15. eol \in 0 .. p + (a + b + 4)
  BY <1>1, <1>2 DEF eol
<1> QED
  BY <1>2, <1>13, <1>14, <1>15 DEF FieldsRead

\* Behind the last field the loop ends.
LEMMA LastPass ==
  ASSUME Countable, NEW m \in Messages, msg = Text(m),
         FieldsRead(m, Len(m.fields)), ParseHeaders
  PROVE  outcome' = "accepted" /\ FieldsRead(m, Len(m.fields))'
<1>1. lastPos = Len(HeaderPart(m))
  BY UptoIs DEF FieldsRead
<1> DEFINE p == Len(HeaderPart(m))
<1>2. p \in Nat /\ p + 2 <= Len(msg) /\ msg[p + 1] = CR /\ msg[p + 2] = LF
  BY TextIs
<1>3. Len(msg) \in Nat
  BY DEF Countable
<1> HIDE DEF p
<1>4. lastPos = p
  BY <1>1 DEF p
<1>5. lastPos \in 0 .. Len(msg) /\ ~(lastPos > Len(msg))
  BY <1>2, <1>3, <1>4
<1>6. AtEmptyLine
  BY <1>2, <1>4, <1>5, AtEmptyLineIs
<1> QED
  BY <1>5, <1>6 DEF ParseHeaders, Ends, FieldsRead

\* The invariant of the loop over a message.
LEMMA TextInvariant == Spec => []TextInv
<1>1. Init => TextInv
  <2> SUFFICES ASSUME Init, NEW m \in Messages, msg = Text(m)
               PROVE  outcome = "looping" /\ 0 \in 0 .. Len(m.fields) /\ FieldsRead(m, 0)
    BY DEF TextInv
  <2>1. /\ Positions /\ Countable /\ outcome = "looping" /\ lastPos = FirstHeader
        /\ nextPos = 0 /\ headers = <<>>
    BY PositionsKept DEF Init, ParserInit, Positions
  <2>2. Len(m.fields) \in Nat /\ 0 \in 0 .. Len(m.fields)
    BY MessageType
  <2> DEFINE s == m.startLine
             n == Len(s)
             u == s \o CRLF
  <2>3. /\ s \in Seq(Character) /\ n \in Nat /\ n >= 2
        /\ \A i \in 1 .. n : s[i] \in {":", "x"}
        /\ CRLF \in Seq(Character) /\ Len(CRLF) = 2 /\ CRLF[1] = CR
    BY MessageType DEF CRLF, Character
  <2>4. u = Upto(m, 0)
    BY UptoIs
  <2> HIDE DEF s
  <2>5. /\ Len(u) = n + 2 /\ \A i \in 1 .. n : u[i] = s[i]
        /\ u[n + 1] = CR
    <3>1. /\ Len(u) = Len(s) + Len(CRLF) /\ \A i \in 1 .. Len(s) : u[i] = s[i]
          /\ \A i \in 1 .. Len(CRLF) : u[Len(s) + i] = CRLF[i]
      BY <2>3, AfterIs
    <3> HIDE DEF u
    <3> QED
      BY <2>3, <3>1
  <2> HIDE DEF u, n
  <2>6. /\ Len(u) <= Len(msg) /\ Len(msg) \in Nat
        /\ \A i \in 1 .. Len(u) : msg[i] = u[i]
    <3> DEFINE h == HeaderPart(m)
               e == h \o CRLF
    <3>1. Len(u) <= Len(h) /\ \A i \in 1 .. Len(u) : h[i] = u[i]
      BY <2>2, <2>4, UptoIsPrefix
    <3>2. h \in Seq(Character) /\ m.body \in Seq(Character) /\ msg = e \o m.body
      BY SectionType, MessageType DEF Text
    <3> HIDE DEF h
    <3>3. /\ e \in Seq(Character) /\ Len(h) \in Nat /\ Len(e) = Len(h) + 2
          /\ \A i \in 1 .. Len(h) : e[i] = h[i]
      <4>1. /\ e \in Seq(Character) /\ Len(h) \in Nat /\ Len(e) = Len(h) + Len(CRLF)
            /\ \A i \in 1 .. Len(h) : e[i] = h[i]
        BY <2>3, <3>2, AfterIs
      <4> HIDE DEF e
      <4> QED
        BY <2>3, <4>1
    <3> HIDE DEF e
    <3>4. \A i \in 1 .. Len(e) : msg[i] = e[i]
      BY <3>2, <3>3, AfterIs
    <3>5. Len(h) <= Len(msg) /\ Len(msg) \in Nat
      BY TextIs, <2>1 DEF h, Countable
    <3>6. \A i \in 1 .. Len(u) : i \in 1 .. Len(h) /\ i \in 1 .. Len(e)
      BY <2>3, <2>5, <3>1, <3>3
    <3>7. \A i \in 1 .. Len(u) : msg[i] = u[i]
      BY <3>1, <3>3, <3>4, <3>6
    <3> QED
      BY <2>3, <2>5, <3>1, <3>3, <3>5, <3>7
  <2>7. /\ \A i \in 1 .. n : msg[i] \in {":", "x"}
        /\ msg[n + 1] = CR /\ n \in 0 .. Len(msg) - 1 /\ n \in Nat
    <3>1. \A i \in 1 .. n : i \in 1 .. Len(u)
      BY <2>3, <2>5
    <3>2. n + 1 \in 1 .. Len(u)
      BY <2>3, <2>5
    <3> QED
      BY <2>3, <2>5, <2>6, <3>1, <3>2
  <2>8. Finds(EndOfLine, 0, n)
    <3>1. ASSUME NEW j \in 0 .. n - 1 PROVE msg[j + 1] \notin EndOfLine
      <4>1. j + 1 \in 1 .. n
        BY <2>7
      <4> QED
        BY <2>7, <4>1 DEF EndOfLine, CR, LF
    <3> QED
      BY <2>7, <3>1 DEF Finds, EndOfLine
  <2>9. FindFirstOf(EndOfLine, 0) = n
    BY <2>1, <2>8, FoundIs
  <2>10. FirstHeader = n + 2
    BY <2>1, <2>6, <2>7, <2>9, PlusIs DEF FirstHeader
  <2>11. lastPos = Len(Upto(m, 0)) /\ nextPos \in 0 .. lastPos
    BY <2>1, <2>4, <2>5, <2>7, <2>10
  <2> QED
    BY <2>1, <2>2, <2>11, FirstFieldsAre DEF FieldsRead
<1>2. Positions /\ TextInv /\ [Next]_vars => TextInv'
  <2> SUFFICES ASSUME Positions, TextInv, [Next]_vars, NEW m \in Messages, msg' = Text(m)
               PROVE  \/ outcome' = "looping" /\ \E k \in 0 .. Len(m.fields) : FieldsRead(m, k)'
                      \/ outcome' = "accepted" /\ FieldsRead(m, Len(m.fields))'
    BY DEF TextInv
  <2>1. ParseHeaders \/ UNCHANGED parser
    BY DEF Next, Parse, ReadHeaders, ReadWord, DateEnds, vars
  <2>2. msg' = msg /\ Countable
    BY <2>1 DEF ParseHeaders, Header, Ends, parser, Positions
  <2>3. msg = Text(m)
    BY <2>2
  <2>4. CASE UNCHANGED parser
    BY <2>3, <2>4 DEF parser, TextInv, FieldsRead
  <2>5. CASE ParseHeaders
    <3>1. PICK k \in 0 .. Len(m.fields) : FieldsRead(m, k)
      BY <2>3, <2>5 DEF TextInv, ParseHeaders
    <3>2. CASE k = Len(m.fields)
      BY <2>2, <2>3, <2>5, <3>1, <3>2, LastPass
    <3>3. CASE k # Len(m.fields)
      <4>1. k + 1 \in 1 .. Len(m.fields) /\ (k + 1) - 1 = k /\ k + 1 \in 0 .. Len(m.fields)
        BY <3>3, MessageType
      <4>2. FieldsRead(m, (k + 1) - 1)
        BY <3>1, <4>1
      <4> DEFINE i == k + 1
      <4> HIDE DEF i
      <4>3. i \in 1 .. Len(m.fields) /\ FieldsRead(m, i - 1) /\ i \in 0 .. Len(m.fields)
        BY <4>1, <4>2 DEF i
      <4> QED
        BY <2>2, <2>3, <2>5, <4>3, FieldPass
    <3> QED
      BY <3>2, <3>3
  <2> QED
    BY <2>1, <2>4, <2>5
<1> QED
  BY <1>1, <1>2, PositionsInvariant, PTL DEF Spec

\* The end of a text is found by its position.
LEMMA PartIs ==
  ASSUME NEW t \in Seq(Character), NEW r \in Seq(Character),
         NEW a \in Nat, NEW b \in Nat, Len(t) = a + b, Len(r) = b,
         \A i \in 1 .. b : t[a + i] = r[i]
  PROVE  SubSeq(t, a + 1, a + b) = r
<1>1. PICK x \in Int, y \in Int : x = a + 1 /\ y = a + b
  OBVIOUS
<1>2. \A i \in x .. y : t[i] \in Character
  <2>1. \A i \in x .. y : i \in 1 .. Len(t)
    BY <1>1
  <2> QED
    BY <2>1, ElementOfSeq
<1>3. /\ SubSeq(t, x, y) \in Seq(Character)
      /\ Len(SubSeq(t, x, y)) = IF x <= y THEN y - x + 1 ELSE 0
      /\ \A i \in 1 .. y - x + 1 : SubSeq(t, x, y)[i] = t[x + i - 1]
  BY ONLY <1>2, SubSeqProperties
<1>4. y - x + 1 = b /\ (IF x <= y THEN y - x + 1 ELSE 0) = b
  BY <1>1
<1>5. ASSUME NEW i \in 1 .. b PROVE SubSeq(t, x, y)[i] = r[i]
  <2>1. x + i - 1 = a + i
    BY <1>1
  <2>2. SubSeq(t, x, y)[i] = t[x + i - 1]
    BY <1>3, <1>4
  <2> QED
    BY <2>1, <2>2
<1>6. SubSeq(t, x, y) = r
  BY <1>3, <1>4, <1>5, SeqEqual
<1> QED
  BY <1>1, <1>6

\* What follows the header section is the empty line and the body.
LEMMA BodyIs ==
  ASSUME NEW m \in Messages, msg = Text(m), lastPos = Len(HeaderPart(m))
  PROVE  Body = CRLF \o m.body
<1> DEFINE h == HeaderPart(m)
           r == CRLF \o m.body
<1>1. /\ h \in Seq(Character) /\ CRLF \in Seq(Character) /\ m.body \in Seq(Character)
  BY SectionType, MessageType DEF CRLF, Character
<1>2. r \in Seq(Character)
  BY <1>1, ConcatProperties
<1>3. msg = h \o r
  <2> DEFINE body == m.body
             e == CRLF
  <2>1. h \in Seq(Character) /\ e \in Seq(Character) /\ body \in Seq(Character)
    BY <1>1
  <2>2. msg = (h \o e) \o body
    BY DEF Text
  <2> HIDE DEF h, e, body
  <2>3. (h \o e) \o body = h \o (e \o body)
    BY <2>1, ConcatAssociative
  <2> QED
    BY <2>2, <2>3 DEF e, body
<1> HIDE DEF h, r
<1>4. /\ Len(h) \in Nat /\ Len(r) \in Nat /\ msg \in Seq(Character)
      /\ Len(msg) = Len(h) + Len(r) /\ \A i \in 1 .. Len(r) : msg[Len(h) + i] = r[i]
  BY <1>1, <1>2, <1>3, AfterIs DEF h
<1>5. Body = SubSeq(msg, Len(h) + 1, Len(msg))
  BY DEF Body, h
<1> DEFINE a == Len(h)
           b == Len(r)
<1> HIDE DEF a, b
<1>6. a \in Nat /\ b \in Nat /\ Len(msg) = a + b /\ \A i \in 1 .. b : msg[a + i] = r[i]
  BY <1>4 DEF a, b
<1>7. SubSeq(msg, a + 1, a + b) = r
  BY <1>2, <1>4, <1>6, PartIs DEF b
<1> QED
  BY <1>4, <1>5, <1>7 DEF r, a, b

(***************************************************************************)
(* A well-formed message, of whatever length, is neither refused nor       *)
(* thrown out, and if the loop ends it has been read right: the map has    *)
(* exactly its fields, and what the code keeps as the body is the two      *)
(* characters of the empty line and the message's body.                    *)
(***************************************************************************)
THEOREM MessagesAreReadRight ==
  Spec => [](msg \in Texts => outcome = "looping" \/ MessageIsRead)
<1>1. TextInv => (msg \in Texts => outcome = "looping" \/ MessageIsRead)
  <2> SUFFICES ASSUME TextInv, msg \in Texts, outcome # "looping"
               PROVE  MessageIsRead
    OBVIOUS
  <2>1. PICK m \in Messages : msg = Text(m)
    BY DEF Texts
  <2>2. outcome = "accepted" /\ FieldsRead(m, Len(m.fields))
    BY <2>1 DEF TextInv
  <2>3. lastPos = Len(HeaderPart(m)) /\ headers = Fields(m)
    BY <2>2, FirstFieldsAre, UptoIs DEF FieldsRead
  <2>4. Body = CRLF \o m.body
    BY <2>1, <2>3, BodyIs
  <2> QED
    BY <2>1, <2>2, <2>3, <2>4 DEF MessageIsRead
<1> QED
  BY <1>1, TextInvariant, PTL

\* A pass over a message that does not end the loop comes to a later line of it.
MessagePassAdvances ==
  msg \in Texts /\ ParseHeaders /\ outcome' = "looping" =>
    lastPos' \in Nat /\ lastPos < lastPos' /\ lastPos' <= Len(msg)

(***************************************************************************)
(* The loop over a well-formed message comes further with every pass, and  *)
(* never beyond the text: it ends as soon as the thread is given the time. *)
(***************************************************************************)
THEOREM MessageLoopAdvances == Spec => [][MessagePassAdvances]_vars
<1>1. Positions /\ TextInv /\ [Next]_vars => [MessagePassAdvances]_vars
  <2> SUFFICES ASSUME Positions, TextInv, msg \in Texts, ParseHeaders, outcome' = "looping"
               PROVE  lastPos' \in Nat /\ lastPos < lastPos' /\ lastPos' <= Len(msg)
    BY DEF MessagePassAdvances
  <2>1. PICK m \in Messages : msg = Text(m)
    BY DEF Texts
  <2>2. PICK k \in 0 .. Len(m.fields) : FieldsRead(m, k)
    BY <2>1 DEF TextInv, ParseHeaders
  <2>3. Countable /\ Len(m.fields) \in Nat
    BY MessageType DEF Positions
  <2>4. k # Len(m.fields)
    BY <2>1, <2>2, <2>3, LastPass
  <2> DEFINE i == k + 1
  <2>5. i \in 1 .. Len(m.fields) /\ i - 1 = k
    BY <2>3, <2>4
  <2> HIDE DEF i
  <2>6. FieldsRead(m, i - 1)
    BY <2>2, <2>5
  <2>7. FieldsRead(m, i)'
    BY <2>1, <2>3, <2>5, <2>6, FieldPass
  <2>8. lastPos = Len(Upto(m, i - 1)) /\ lastPos' = Len(Upto(m, i))
    BY <2>6, <2>7 DEF FieldsRead
  <2>9. /\ Len(Upto(m, i - 1)) \in Nat /\ Len(Line(m.fields[i])) \in Nat
        /\ Len(Upto(m, i)) = Len(Upto(m, i - 1)) + Len(Line(m.fields[i]))
        /\ Len(Upto(m, i - 1)) + Len(Line(m.fields[i])) <= Len(msg)
    BY <2>1, <2>5, TextIs
  <2>10. Len(Line(m.fields[i])) >= 4
    <3>1. /\ m.fields[i].name \in Seq({"x"})
          /\ AfterColon(m.fields[i]) \in Seq({":", "x"}) \ {<<>>}
      BY <2>5, MessageType
    <3> DEFINE a == Len(m.fields[i].name)
               b == Len(Kept(m.fields[i]))
    <3>2. a \in Nat /\ b \in Nat /\ Len(Line(m.fields[i])) = a + b + 4
      BY <3>1, LineIs
    <3> HIDE DEF a, b
    <3> QED
      BY <3>2
  <2> DEFINE p == Len(Upto(m, i - 1))
             l == Len(Line(m.fields[i]))
  <2> HIDE DEF p, l
  <2>11. lastPos = p /\ lastPos' = p + l /\ p \in Nat /\ l \in Nat /\ l >= 4 /\ p + l <= Len(msg)
    BY <2>8, <2>9, <2>10 DEF p, l
  <2> QED
    BY <2>11
<1> QED
  BY <1>1, PositionsInvariant, TextInvariant, PTL DEF Spec
===============================================================================
