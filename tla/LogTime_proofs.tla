----------------------------- MODULE LogTime_proofs -----------------------------
(***************************************************************************)
(* A line of the log shows its own time or one of a line that overlapped   *)
(* it, for any number of threads that write lines.                         *)
(***************************************************************************)
EXTENDS LogTime, TLAPS

LogTypeOK ==
  /\ kind \in [Lines -> {"arrival", "expiry"}]
  /\ pc \in [Lines -> 0 .. 7]
  /\ mtx \in Lines \cup {Nobody}
  /\ tm \in Lines \cup {Nobody}
  /\ text \in [Half -> Lines \cup {Nobody}]
  /\ shown \in [Lines -> [Half -> Lines \cup {Nobody}]]
  /\ overlapped \in [Lines -> SUBSET Lines]

\* How many steps a line has taken when its time is converted.
Converted(l) == IF kind[l] = "arrival" THEN 2 ELSE 1

\* Who is between its lock and its unlock holds the mutex.
HoldsMutex ==
  \A l \in Lines :
    pc[l] \in (IF kind[l] = "arrival" THEN 1 ELSE 4) .. 6 => mtx = l

(***************************************************************************)
(* While a line is in between, only a line that has overlapped it can have *)
(* put its time into tm, or, once it is formatted, into text.              *)
(***************************************************************************)
OwnOrOverlapped ==
  \A l \in Lines :
    /\ pc[l] \in Converted(l) .. 5 => tm \in {l} \cup overlapped[l]
    /\ \A h \in Half :
         /\ pc[l] \in Converted(l) + h .. 5 => text[h] \in {l} \cup overlapped[l]
         /\ shown[l][h] \in {l, Nobody} \cup overlapped[l]

\* The line of an arrival holds the mutex, so no other arrival overlaps it.
ArrivalsApart ==
  \A l \in Lines : \A k \in overlapped[l] : "expiry" \in {kind[l], kind[k]}

LogInv == LogTypeOK /\ HoldsMutex /\ OwnOrOverlapped /\ ArrivalsApart
-------------------------------------------------------------------------------
\* Converted is one or two.
LEMMA ConvertedType == \A l \in Lines : Converted(l) \in 1 .. 2
BY DEF Converted

\* At which step of its kind a line does what.
LEMMA StepOf ==
  ASSUME LogTypeOK, NEW l \in Lines, NEW step, Takes(l, step)
  PROVE  /\ pc[l] \in 0 .. 6 /\ pc' = [pc EXCEPT ![l] = @ + 1] /\ kind' = kind
         /\ step = Steps(kind[l])[pc[l] + 1]
<1>1. kind[l] \in {"arrival", "expiry"} /\ pc[l] \in 0 .. 7
  BY DEF LogTypeOK
<1>2. Len(Steps(kind[l])) = 7
  BY <1>1 DEF Steps
<1> QED
  BY <1>1, <1>2 DEF Takes, Written

\* The steps of the two kinds of line, one by one.
LEMMA StepsAre ==
  ASSUME NEW k \in {"arrival", "expiry"}
  PROVE  /\ k = "arrival" =>
              /\ Steps(k)[1] = "lock" /\ Steps(k)[2] = "convert"
              /\ Steps(k)[3] = "format 1" /\ Steps(k)[4] = "format 2"
         /\ k = "expiry" =>
              /\ Steps(k)[1] = "convert" /\ Steps(k)[2] = "format 1"
              /\ Steps(k)[3] = "format 2" /\ Steps(k)[4] = "lock"
         /\ Steps(k)[5] = "read 1" /\ Steps(k)[6] = "read 2" /\ Steps(k)[7] = "unlock"
BY DEF Steps

\* How many steps a line has taken when it takes a step.
LEMMA StepAt ==
  ASSUME LogTypeOK, NEW l \in Lines, NEW step, Takes(l, step)
  PROVE  /\ step = "lock" => pc[l] = IF kind[l] = "arrival" THEN 0 ELSE 3
         /\ step = "convert" => pc[l] = IF kind[l] = "arrival" THEN 1 ELSE 0
         /\ step = "format 1" => pc[l] = IF kind[l] = "arrival" THEN 2 ELSE 1
         /\ step = "format 2" => pc[l] = IF kind[l] = "arrival" THEN 3 ELSE 2
         /\ step = "read 1" => pc[l] = 4
         /\ step = "read 2" => pc[l] = 5
         /\ step = "unlock" => pc[l] = 6
<1> DEFINE s == Steps(kind[l])
<1>1. kind[l] \in {"arrival", "expiry"} /\ pc[l] \in {0, 1, 2, 3, 4, 5, 6}
  BY StepOf DEF LogTypeOK
<1>2. /\ pc[l] = 0 => step = s[1]
      /\ pc[l] = 1 => step = s[2]
      /\ pc[l] = 2 => step = s[3]
      /\ pc[l] = 3 => step = s[4]
      /\ pc[l] = 4 => step = s[5]
      /\ pc[l] = 5 => step = s[6]
      /\ pc[l] = 6 => step = s[7]
  BY StepOf
<1>3. /\ kind[l] = "arrival" =>
           s[1] = "lock" /\ s[2] = "convert" /\ s[3] = "format 1" /\ s[4] = "format 2"
      /\ kind[l] = "expiry" =>
           s[1] = "convert" /\ s[2] = "format 1" /\ s[3] = "format 2" /\ s[4] = "lock"
      /\ s[5] = "read 1" /\ s[6] = "read 2" /\ s[7] = "unlock"
  BY <1>1, StepsAre
<1> HIDE DEF s
<1> QED
  BY <1>1, <1>2, <1>3

\* The lines in between, told by how many steps they have taken.
LEMMA InBetweenIs ==
  ASSUME LogTypeOK, NEW l \in Lines
  PROVE  l \in InBetween <=> pc[l] \in Converted(l) .. 5
<1>1. kind[l] \in {"arrival", "expiry"} /\ pc[l] \in {0, 1, 2, 3, 4, 5, 6, 7}
  BY DEF LogTypeOK
<1>2. l \in InBetween <=> /\ \E i \in 1 .. pc[l] : Steps(kind[l])[i] = "convert"
                          /\ \A i \in 1 .. pc[l] : Steps(kind[l])[i] # "read 2"
  BY DEF InBetween
<1> DEFINE s == Steps(kind[l])
<1>3. /\ kind[l] = "arrival" =>
           s[1] = "lock" /\ s[2] = "convert" /\ s[3] = "format 1" /\ s[4] = "format 2"
      /\ kind[l] = "expiry" =>
           s[1] = "convert" /\ s[2] = "format 1" /\ s[3] = "format 2" /\ s[4] = "lock"
      /\ s[5] = "read 1" /\ s[6] = "read 2" /\ s[7] = "unlock"
  BY <1>1, StepsAre
<1> HIDE DEF s
<1>4. ASSUME NEW i \in 1 .. 7
      PROVE  (s[i] = "convert" <=> i = Converted(l)) /\ (s[i] = "read 2" <=> i = 6)
  <2>1. i \in {1, 2, 3, 4, 5, 6, 7}
    OBVIOUS
  <2>2. CASE kind[l] = "arrival"
    BY <1>3, <2>1, <2>2 DEF Converted
  <2>3. CASE kind[l] = "expiry"
    BY <1>3, <2>1, <2>3 DEF Converted
  <2> QED
    BY <1>1, <2>2, <2>3
<1>5. /\ Converted(l) \in {1, 2} /\ Converted(l) \in 1 .. 7
      /\ pc[l] \in 0 .. 7 /\ \A i \in 1 .. pc[l] : i \in 1 .. 7
  BY <1>1 DEF Converted
<1>6. (\E i \in 1 .. pc[l] : s[i] = "convert") <=> Converted(l) <= pc[l]
  <2>1. s[Converted(l)] = "convert"
    BY <1>4, <1>5
  <2>2. ASSUME NEW i \in 1 .. pc[l], s[i] = "convert" PROVE Converted(l) <= pc[l]
    <3>1. i = Converted(l)
      BY <1>4, <1>5, <2>2
    <3> QED
      BY <1>5, <3>1
  <2>3. Converted(l) <= pc[l] => Converted(l) \in 1 .. pc[l]
    BY <1>5
  <2> QED
    BY <2>1, <2>2, <2>3
<1>7. (\A i \in 1 .. pc[l] : s[i] # "read 2") <=> pc[l] <= 5
  <2>1. pc[l] <= 5 \/ 6 \in 1 .. pc[l]
    BY <1>5
  <2>2. ASSUME NEW i \in 1 .. pc[l], pc[l] <= 5 PROVE s[i] # "read 2"
    <3>1. i \in 1 .. 7 /\ i # 6
      BY <1>5, <2>2
    <3> QED
      BY <1>4, <3>1
  <2> QED
    BY <1>3, <1>5, <2>1, <2>2
<1>8. pc[l] \in Converted(l) .. 5 <=> Converted(l) <= pc[l] /\ pc[l] <= 5
  BY <1>5
<1> QED
  BY <1>2, <1>6, <1>7, <1>8 DEF s

-------------------------------------------------------------------------------
\* A step of line l: the other lines stay where they are.
LEMMA OneStep ==
  ASSUME LogTypeOK, NEW l \in Lines, NEW step, Takes(l, step)
  PROVE  /\ kind' = kind /\ pc' \in [Lines -> 0 .. 7]
         /\ pc[l] \in 0 .. 6 /\ pc'[l] = pc[l] + 1
         /\ \A k \in Lines \ {l} : pc'[k] = pc[k]
         /\ \A k \in Lines : /\ kind[k] \in {"arrival", "expiry"} /\ pc[k] \in 0 .. 7
                             /\ Converted(k) \in 1 .. 2 /\ Converted(k)' = Converted(k)
                             /\ Converted(k) = IF kind[k] = "arrival" THEN 2 ELSE 1
<1>1. /\ pc[l] \in 0 .. 6 /\ pc' = [pc EXCEPT ![l] = @ + 1] /\ kind' = kind
      /\ pc \in [Lines -> 0 .. 7] /\ kind \in [Lines -> {"arrival", "expiry"}]
  BY StepOf DEF LogTypeOK
<1>2. pc[l] + 1 \in 0 .. 7
  BY <1>1
<1> QED
  BY <1>1, <1>2 DEF Converted

\* A step that takes or gives up the mutex, and touches nothing else.
LEMMA MutexStep ==
  ASSUME LogInv, NEW l \in Lines, Lock(l) \/ Unlock(l)
  PROVE  LogInv'
<1>1. PICK step \in {"lock", "unlock"} :
        /\ Takes(l, step)
        /\ step = "lock" => mtx = Nobody /\ mtx' = l
        /\ step = "unlock" => mtx' = Nobody
        /\ UNCHANGED <<tm, text, shown, overlapped>>
  BY DEF Lock, Unlock
<1>2. LogTypeOK
  BY DEF LogInv
<1>3. /\ kind' = kind /\ pc' \in [Lines -> 0 .. 7]
      /\ pc[l] \in 0 .. 6 /\ pc'[l] = pc[l] + 1
      /\ \A k \in Lines \ {l} : pc'[k] = pc[k]
      /\ \A k \in Lines : kind[k] \in {"arrival", "expiry"} /\ pc[k] \in 0 .. 7
      /\ \A k \in Lines : Converted(k) \in 1 .. 2 /\ Converted(k)' = Converted(k)
      /\ \A k \in Lines : Converted(k) = IF kind[k] = "arrival" THEN 2 ELSE 1
  BY <1>1, <1>2, OneStep
<1>4. /\ step = "lock" => pc[l] = IF kind[l] = "arrival" THEN 0 ELSE 3
      /\ step = "unlock" => pc[l] = 6
  BY <1>1, <1>2, StepAt
<1>5. LogTypeOK'
  BY <1>1, <1>2, <1>3 DEF LogTypeOK
<1>6. HoldsMutex'
  <2> SUFFICES ASSUME NEW k \in Lines,
                      pc'[k] \in (IF kind[k] = "arrival" THEN 1 ELSE 4) .. 6
               PROVE  mtx' = k
    BY <1>3 DEF HoldsMutex
  <2>1. CASE k = l
    BY <1>1, <1>3, <1>4, <2>1
  <2>2. CASE k # l
    <3>1. mtx = k
      BY <1>3, <2>2 DEF LogInv, HoldsMutex
    <3>2. step = "unlock" => mtx = l
      <4>1. step = "unlock" => pc[l] \in (IF kind[l] = "arrival" THEN 1 ELSE 4) .. 6
        BY <1>4
      <4> QED
        BY <4>1 DEF LogInv, HoldsMutex
    <3> QED
      BY <1>1, <2>2, <3>1, <3>2, NobodyAssumption
  <2> QED
    BY <2>1, <2>2
<1>7. OwnOrOverlapped'
  <2> SUFFICES ASSUME NEW k \in Lines
               PROVE  /\ pc'[k] \in Converted(k) .. 5 => tm \in {k} \cup overlapped[k]
                      /\ \A h \in Half :
                           /\ pc'[k] \in Converted(k) + h .. 5 =>
                                text[h] \in {k} \cup overlapped[k]
                           /\ shown[k][h] \in {k, Nobody} \cup overlapped[k]
    BY <1>1, <1>3 DEF OwnOrOverlapped
  <2>1. ASSUME NEW i \in 1 .. 4, i >= Converted(k), i <= Converted(k) + 2,
               pc'[k] \in i .. 5
        PROVE  pc[k] \in i .. 5
    <3>1. CASE k # l
      BY <1>3, <2>1, <3>1
    <3>2. CASE k = l /\ kind[k] = "arrival"
      BY <1>1, <1>3, <1>4, <2>1, <3>2
    <3>3. CASE k = l /\ kind[k] = "expiry"
      BY <1>1, <1>3, <1>4, <2>1, <3>3
    <3> QED
      BY <1>3, <3>1, <3>2, <3>3
  <2>2. \A h \in Half : Converted(k) + h \in 1 .. 4 /\ Converted(k) + h <= Converted(k) + 2
                        /\ Converted(k) + h >= Converted(k)
    BY <1>3 DEF Half
  <2>3. Converted(k) \in 1 .. 4 /\ Converted(k) >= Converted(k)
        /\ Converted(k) <= Converted(k) + 2
    BY <1>3
  <2> QED
    BY <2>1, <2>2, <2>3 DEF LogInv, OwnOrOverlapped
<1>8. ArrivalsApart'
  BY <1>1, <1>3 DEF LogInv, ArrivalsApart
<1> QED
  BY <1>5, <1>6, <1>7, <1>8 DEF LogInv

\* Where a line is when it holds the mutex.
LEMMA Holder ==
  ASSUME LogInv, NEW l \in Lines,
         \/ kind[l] = "arrival" /\ pc[l] \in {1, 2, 3, 4, 5}
         \/ kind[l] = "expiry" /\ pc[l] \in {4, 5, 6}
  PROVE  mtx = l
<1>1. pc[l] \in (IF kind[l] = "arrival" THEN 1 ELSE 4) .. 6
  OBVIOUS
<1> QED
  BY <1>1 DEF LogInv, HoldsMutex

\* Where a line is when it converts, formats or reads a time.
LEMMA BetweenLocks ==
  ASSUME LogTypeOK, NEW l \in Lines, NEW step, Takes(l, step),
         step \in {"convert", "format 1", "format 2", "read 1", "read 2"}
  PROVE  \/ kind[l] = "arrival" /\ pc[l] \in {1, 2, 3, 4, 5}
         \/ kind[l] = "expiry" /\ pc[l] \in {0, 1, 2, 4, 5}
<1>1. kind[l] \in {"arrival", "expiry"}
  BY DEF LogTypeOK
<1> QED
  BY <1>1, StepAt

\* A step within a line's use of the mutex, or before it.
LEMMA MutexStays ==
  ASSUME LogInv, NEW l \in Lines, mtx' = mtx, kind' = kind, pc'[l] = pc[l] + 1,
         \A k \in Lines \ {l} : pc'[k] = pc[k],
         \/ kind[l] = "arrival" /\ pc[l] \in {1, 2, 3, 4, 5}
         \/ kind[l] = "expiry" /\ pc[l] \in {0, 1, 2, 4, 5}
  PROVE  HoldsMutex'
<1> SUFFICES ASSUME NEW k \in Lines,
                    pc'[k] \in (IF kind[k] = "arrival" THEN 1 ELSE 4) .. 6
             PROVE  mtx = k
  BY DEF HoldsMutex
<1>1. CASE k # l
  BY <1>1 DEF LogInv, HoldsMutex
<1>2. CASE k = l /\ kind[l] = "arrival"
  BY <1>2, Holder
<1>3. CASE k = l /\ kind[l] = "expiry"
  <2>1. pc[l] \in {4, 5, 6}
    BY <1>3
  <2> QED
    BY <1>3, <2>1, Holder
<1> QED
  BY <1>1, <1>2, <1>3

\* An arrival that is in between holds the mutex.
LEMMA InBetweenHolds ==
  ASSUME LogInv, NEW k \in InBetween, kind[k] = "arrival"
  PROVE  mtx = k
<1>1. k \in Lines /\ pc[k] \in 2 .. 5
  BY InBetweenIs DEF LogInv, InBetween, Converted
<1>2. pc[k] \in {1, 2, 3, 4, 5}
  BY <1>1
<1> QED
  BY <1>1, <1>2, Holder

(***************************************************************************)
(* A use of tm or text is noted with all the lines in between; and it is   *)
(* no arrival that overlaps an arrival, since both would hold the mutex.   *)
(***************************************************************************)
LEMMA Overlapping ==
  ASSUME LogInv, NEW l \in Lines, NEW step, Takes(l, step), mtx' = mtx, OverlapBy(l),
         step \in {"convert", "format 1", "format 2"}
  PROVE  /\ overlapped' \in [Lines -> SUBSET Lines]
         /\ \A k \in Lines : overlapped[k] \subseteq overlapped'[k]
         /\ \A k \in Lines \ {l} : pc[k] \in Converted(k) .. 5 => l \in overlapped'[k]
         /\ ArrivalsApart'
<1>1. kind' = kind /\ \A k \in Lines : kind[k] \in {"arrival", "expiry"} /\ pc[k] \in 0 .. 7
  BY OneStep DEF LogInv
<1>2. overlapped' = [k \in Lines |->
                       overlapped[k] \cup IF k \in InBetween \ {l} THEN {l} ELSE {}]
  BY DEF OverlapBy
<1>3. overlapped \in [Lines -> SUBSET Lines]
  BY DEF LogInv, LogTypeOK
<1>4. \A k \in Lines : k \in InBetween <=> pc[k] \in Converted(k) .. 5
  BY InBetweenIs DEF LogInv
<1>5. ASSUME NEW k \in Lines, NEW x \in overlapped'[k]
      PROVE  "expiry" \in {kind[k], kind[x]}
  <2>1. CASE x \in overlapped[k]
    BY <2>1 DEF LogInv, ArrivalsApart
  <2>2. CASE x \notin overlapped[k]
    <3>1. x = l /\ k # l /\ k \in InBetween
      BY <1>2, <1>5, <2>2
    <3>2. kind[l] = "arrival" => mtx = l
      BY BetweenLocks, Holder DEF LogInv
    <3>3. kind[k] = "arrival" => mtx = k
      BY <3>1, InBetweenHolds
    <3> QED
      BY <1>1, <3>1, <3>2, <3>3
  <2> QED
    BY <2>1, <2>2
<1>6. ArrivalsApart'
  BY <1>1, <1>5 DEF ArrivalsApart
<1> QED
  BY <1>2, <1>3, <1>4, <1>6

\* The steps that use tm or text, one by one.
LEMMA ConvertStep ==
  ASSUME LogInv, NEW l \in Lines, Convert(l)
  PROVE  LogInv'
<1>1. /\ Takes(l, "convert") /\ tm' = l /\ OverlapBy(l)
      /\ UNCHANGED <<mtx, text, shown>> /\ LogTypeOK
  BY DEF Convert, LogInv
<1>2. /\ kind' = kind /\ pc' \in [Lines -> 0 .. 7]
      /\ pc[l] \in 0 .. 6 /\ pc'[l] = pc[l] + 1
      /\ \A k \in Lines \ {l} : pc'[k] = pc[k]
      /\ \A k \in Lines : Converted(k) \in 1 .. 2 /\ Converted(k)' = Converted(k)
      /\ \A k \in Lines : Converted(k) = IF kind[k] = "arrival" THEN 2 ELSE 1
  BY <1>1, OneStep
<1>3. pc'[l] = Converted(l)
  <2>1. pc[l] = IF kind[l] = "arrival" THEN 1 ELSE 0
    BY <1>1, StepAt
  <2> QED
    BY <1>2, <2>1
<1>4. /\ overlapped' \in [Lines -> SUBSET Lines] /\ ArrivalsApart'
      /\ \A k \in Lines : overlapped[k] \subseteq overlapped'[k]
      /\ \A k \in Lines \ {l} : pc[k] \in Converted(k) .. 5 => l \in overlapped'[k]
  BY <1>1, Overlapping
<1>5. HoldsMutex'
  BY <1>1, <1>2, BetweenLocks, MutexStays DEF LogInv
<1>6. LogTypeOK'
  BY <1>1, <1>2, <1>4 DEF LogTypeOK
<1>7. OwnOrOverlapped'
  <2> SUFFICES ASSUME NEW k \in Lines
               PROVE  /\ pc'[k] \in Converted(k) .. 5 => l \in {k} \cup overlapped'[k]
                      /\ \A h \in Half :
                           /\ pc'[k] \in Converted(k) + h .. 5 =>
                                text[h] \in {k} \cup overlapped'[k]
                           /\ shown[k][h] \in {k, Nobody} \cup overlapped'[k]
    BY <1>1, <1>2 DEF OwnOrOverlapped
  <2>1. CASE k # l
    BY <1>2, <1>4, <2>1 DEF LogInv, OwnOrOverlapped
  <2>2. CASE k = l
    <3>1. \A h \in Half : ~(pc'[k] \in Converted(k) + h .. 5)
      BY <1>2, <1>3, <2>2 DEF Half
    <3> QED
      BY <1>4, <2>2, <3>1 DEF LogInv, OwnOrOverlapped
  <2> QED
    BY <2>1, <2>2
<1> QED
  BY <1>4, <1>5, <1>6, <1>7 DEF LogInv

\* asctime formats what tm holds, whoever has converted it.
LEMMA FormatStep ==
  ASSUME LogInv, NEW l \in Lines, Format(l)
  PROVE  LogInv'
<1>1. PICK g \in Half :
        Takes(l, <<"format 1", "format 2">>[g]) /\ text' = [text EXCEPT ![g] = tm]
  BY DEF Format
<1>2. OverlapBy(l) /\ UNCHANGED <<mtx, tm, shown>> /\ LogTypeOK
  BY DEF Format, LogInv
<1> DEFINE step == <<"format 1", "format 2">>[g]
<1>3. /\ step \in {"format 1", "format 2"} /\ (g = 1 \/ g = 2)
      /\ (g = 1 => step = "format 1") /\ (g = 2 => step = "format 2")
  <2>1. CASE g = 1
    BY <2>1
  <2>2. CASE g = 2
    BY <2>2
  <2> QED
    BY <2>1, <2>2 DEF Half
<1> HIDE DEF step
<1>4. Takes(l, step)
  BY <1>1 DEF step
<1>5. /\ kind' = kind /\ pc' \in [Lines -> 0 .. 7]
      /\ pc[l] \in 0 .. 6 /\ pc'[l] = pc[l] + 1
      /\ \A k \in Lines \ {l} : pc'[k] = pc[k]
      /\ \A k \in Lines : Converted(k) \in 1 .. 2 /\ Converted(k)' = Converted(k)
      /\ \A k \in Lines : Converted(k) = IF kind[k] = "arrival" THEN 2 ELSE 1
  BY <1>2, <1>4, OneStep
<1>6. g \in 1 .. 2 /\ pc'[l] = Converted(l) + g
  <2>1. /\ step = "format 1" => pc[l] = IF kind[l] = "arrival" THEN 2 ELSE 1
        /\ step = "format 2" => pc[l] = IF kind[l] = "arrival" THEN 3 ELSE 2
    BY <1>2, <1>4, StepAt
  <2>2. CASE g = 1
    <3>1. pc[l] = IF kind[l] = "arrival" THEN 2 ELSE 1
      BY <1>3, <2>1, <2>2
    <3> QED
      BY <1>5, <2>2, <3>1
  <2>3. CASE g = 2
    <3>1. pc[l] = IF kind[l] = "arrival" THEN 3 ELSE 2
      BY <1>3, <2>1, <2>3
    <3> QED
      BY <1>5, <2>3, <3>1
  <2> QED
    BY <1>3, <2>2, <2>3
<1>7. /\ overlapped' \in [Lines -> SUBSET Lines] /\ ArrivalsApart'
      /\ \A k \in Lines : overlapped[k] \subseteq overlapped'[k]
  BY <1>2, <1>3, <1>4, Overlapping
<1>8. HoldsMutex'
  BY <1>2, <1>3, <1>4, <1>5, BetweenLocks, MutexStays DEF LogInv
<1>9. LogTypeOK'
  BY <1>1, <1>2, <1>5, <1>7 DEF LogTypeOK
<1>10. OwnOrOverlapped'
  <2> SUFFICES ASSUME NEW k \in Lines
               PROVE  /\ pc'[k] \in Converted(k) .. 5 => tm \in {k} \cup overlapped'[k]
                      /\ \A h \in Half :
                           /\ pc'[k] \in Converted(k) + h .. 5 =>
                                text'[h] \in {k} \cup overlapped'[k]
                           /\ shown[k][h] \in {k, Nobody} \cup overlapped'[k]
    BY <1>2, <1>5 DEF OwnOrOverlapped
  <2>1. pc'[k] \in Converted(k) .. 5 => pc[k] \in Converted(k) .. 5
    BY <1>5, <1>6
  <2>2. pc'[k] \in Converted(k) .. 5 => tm \in {k} \cup overlapped'[k]
    BY <1>7, <2>1 DEF LogInv, OwnOrOverlapped
  <2>3. ASSUME NEW h \in Half, pc'[k] \in Converted(k) + h .. 5
        PROVE  text'[h] \in {k} \cup overlapped'[k]
    <3>1. h \in 1 .. 2 /\ pc'[k] \in Converted(k) .. 5
      BY <1>5, <2>3 DEF Half
    <3>2. CASE h = g
      BY <1>1, <1>2, <2>2, <3>1, <3>2 DEF LogTypeOK
    <3>3. CASE h # g
      <4>1. text'[h] = text[h]
        BY <1>1, <1>2, <3>3 DEF LogTypeOK
      <4>2. pc[k] \in Converted(k) + h .. 5
        BY <1>5, <1>6, <2>3, <3>1, <3>3
      <4> QED
        BY <1>7, <4>1, <4>2 DEF LogInv, OwnOrOverlapped
    <3> QED
      BY <3>2, <3>3
  <2> QED
    BY <1>7, <2>2, <2>3 DEF LogInv, OwnOrOverlapped
<1> QED
  BY <1>7, <1>8, <1>9, <1>10 DEF LogInv

\* A line is written with the text that is in the shared buffer, whoever has formatted it.
LEMMA ReadStep ==
  ASSUME LogInv, NEW l \in Lines, Read(l)
  PROVE  LogInv'
<1>1. PICK g \in Half :
        Takes(l, <<"read 1", "read 2">>[g]) /\ shown' = [shown EXCEPT ![l][g] = text[g]]
  BY DEF Read
<1>2. UNCHANGED <<mtx, tm, text, overlapped>> /\ LogTypeOK
  BY DEF Read, LogInv
<1> DEFINE step == <<"read 1", "read 2">>[g]
<1>3. /\ step \in {"read 1", "read 2"} /\ (g = 1 \/ g = 2)
      /\ (g = 1 => step = "read 1") /\ (g = 2 => step = "read 2")
  <2>1. CASE g = 1
    BY <2>1
  <2>2. CASE g = 2
    BY <2>2
  <2> QED
    BY <2>1, <2>2 DEF Half
<1> HIDE DEF step
<1>4. Takes(l, step)
  BY <1>1 DEF step
<1>5. /\ kind' = kind /\ pc' \in [Lines -> 0 .. 7]
      /\ pc[l] \in 0 .. 6 /\ pc'[l] = pc[l] + 1
      /\ \A k \in Lines \ {l} : pc'[k] = pc[k]
      /\ \A k \in Lines : Converted(k) \in 1 .. 2 /\ Converted(k)' = Converted(k)
  BY <1>2, <1>4, OneStep
<1>6. g \in 1 .. 2 /\ pc[l] = 3 + g
  <2>1. (step = "read 1" => pc[l] = 4) /\ (step = "read 2" => pc[l] = 5)
    BY <1>2, <1>4, StepAt
  <2>2. CASE g = 1
    <3>1. pc[l] = 4
      BY <1>3, <2>1, <2>2
    <3> QED
      BY <2>2, <3>1
  <2>3. CASE g = 2
    <3>1. pc[l] = 5
      BY <1>3, <2>1, <2>3
    <3> QED
      BY <2>3, <3>1
  <2> QED
    BY <1>3, <2>2, <2>3
<1>7. text[g] \in {l} \cup overlapped[l]
  <2>1. pc[l] \in Converted(l) + g .. 5
    BY <1>5, <1>6
  <2> QED
    BY <2>1 DEF LogInv, OwnOrOverlapped
<1>8. /\ shown' \in [Lines -> [Half -> Lines \cup {Nobody}]]
      /\ shown'[l][g] = text[g]
      /\ \A k \in Lines : \A h \in Half : k # l \/ h # g => shown'[k][h] = shown[k][h]
  BY <1>1, <1>2 DEF LogTypeOK
<1>9. LogTypeOK'
  BY <1>2, <1>5, <1>8 DEF LogTypeOK
<1>10. HoldsMutex'
  BY <1>2, <1>3, <1>4, <1>5, BetweenLocks, MutexStays DEF LogInv
<1>11. OwnOrOverlapped'
  <2> SUFFICES ASSUME NEW k \in Lines
               PROVE  /\ pc'[k] \in Converted(k) .. 5 => tm \in {k} \cup overlapped[k]
                      /\ \A h \in Half :
                           /\ pc'[k] \in Converted(k) + h .. 5 =>
                                text[h] \in {k} \cup overlapped[k]
                           /\ shown'[k][h] \in {k, Nobody} \cup overlapped[k]
    BY <1>2, <1>5 DEF OwnOrOverlapped
  <2>1. pc'[k] \in Converted(k) .. 5 => pc[k] \in Converted(k) .. 5
    BY <1>5, <1>6
  <2>2. \A h \in Half : pc'[k] \in Converted(k) + h .. 5 => pc[k] \in Converted(k) + h .. 5
    BY <1>5, <1>6 DEF Half
  <2>3. ASSUME NEW h \in Half
        PROVE  shown'[k][h] \in {k, Nobody} \cup overlapped[k]
    <3>1. CASE k = l /\ h = g
      BY <1>7, <1>8, <3>1
    <3>2. CASE k # l \/ h # g
      BY <1>8, <3>2 DEF LogInv, OwnOrOverlapped
    <3> QED
      BY <3>1, <3>2
  <2> QED
    BY <2>1, <2>2, <2>3 DEF LogInv, OwnOrOverlapped
<1>12. ArrivalsApart'
  BY <1>2, <1>5 DEF LogInv, ArrivalsApart
<1> QED
  BY <1>9, <1>10, <1>11, <1>12 DEF LogInv

-------------------------------------------------------------------------------
(***************************************************************************)
(* LogInv holds in every state: while a line is in between, tm and text    *)
(* show its time or that of a line that has overlapped it.                 *)
(***************************************************************************)
THEOREM LogInvariant == Spec => []LogInv
<1>1. Init => LogInv
  <2> SUFFICES ASSUME Init PROVE LogInv
    OBVIOUS
  <2>1. LogTypeOK
    BY DEF Init, LogTypeOK
  <2>2. \A l \in Lines : pc[l] = 0 /\ Converted(l) \in 1 .. 2 /\ overlapped[l] = {}
    <3>1. \A l \in Lines : Converted(l) \in 1 .. 2
      BY ConvertedType
    <3> QED
      BY <3>1 DEF Init
  <2>3. HoldsMutex /\ ArrivalsApart
    BY <2>2 DEF HoldsMutex, ArrivalsApart
  <2>4. OwnOrOverlapped
    <3>1. \A l \in Lines : \A h \in Half : shown[l][h] = Nobody
      BY DEF Init
    <3>2. ASSUME NEW l \in Lines
          PROVE  /\ ~(pc[l] \in Converted(l) .. 5)
                 /\ \A h \in Half : ~(pc[l] \in Converted(l) + h .. 5)
      <4>1. pc[l] = 0 /\ Converted(l) \in 1 .. 2
        BY <2>2
      <4>2. ASSUME NEW h \in Half PROVE ~(pc[l] \in Converted(l) + h .. 5)
        <5>1. h \in 1 .. 2
          BY DEF Half
        <5> QED
          BY <4>1, <5>1
      <4>3. ~(pc[l] \in Converted(l) .. 5)
        BY <4>1
      <4> QED
        BY <4>2, <4>3
    <3> QED
      BY <3>1, <3>2 DEF OwnOrOverlapped
  <2> QED
    BY <2>1, <2>3, <2>4 DEF LogInv
<1>2. LogInv /\ [Next]_vars => LogInv'
  <2> SUFFICES ASSUME LogInv, [Next]_vars
               PROVE  LogInv'
    OBVIOUS
  <2>1. CASE UNCHANGED vars
    BY <2>1 DEF vars, LogInv, LogTypeOK, HoldsMutex, OwnOrOverlapped, ArrivalsApart,
                Converted
  <2>2. CASE \E l \in Lines : Log(l)
    BY <2>2, MutexStep, ConvertStep, FormatStep, ReadStep DEF Log
  <2> QED
    BY <2>1, <2>2 DEF Next, Finished
<1> QED
  BY <1>1, <1>2, PTL DEF Spec

\* A line shows its own time or that of a line made at the same time, and never
\* one arrival the time of another.
THEOREM TimesAreOwnOrOverlapped == Spec => []TimeIsOwnOrOverlapped
<1>1. LogInv => TimeIsOwnOrOverlapped
  BY DEF LogInv, OwnOrOverlapped, ArrivalsApart, TimeIsOwnOrOverlapped
<1> QED
  BY <1>1, LogInvariant, PTL
===============================================================================
