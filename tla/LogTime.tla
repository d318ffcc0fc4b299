-------------------------------- MODULE LogTime --------------------------------
(***************************************************************************)
(* The times in the log.  localtime and gmtime return one struct tm that   *)
(* all threads share, asctime one shared text.  The line for a request's   *)
(* arrival is made under the log's mutex from its conversion to its end    *)
(* (request_cur_asctime); the lines with an expiration time, of do_get and *)
(* cacheResponse, are converted and formatted first, and only the pointer  *)
(* to the shared text is used under the mutex.                             *)
(*                                                                         *)
(* A line stands for its thread and for the time that it should show.  A   *)
(* time and a text have two halves: asctime, and the stream that reads its *)
(* text, go through them one after the other.                              *)
(***************************************************************************)
EXTENDS Integers, Sequences

CONSTANTS Lines, Nobody

ASSUME NobodyAssumption == Nobody \notin Lines

Half == {1, 2}

VARIABLES
  kind,    \* of each line, "arrival" or "expiry"
  pc,      \* how many steps its thread has taken
  mtx,     \* who holds the log's mutex
  tm,      \* the shared struct tm: whose time it is
  text,    \* the shared text: whose time each half of it shows
  shown,   \* whose time each half of each line shows
  overlapped  \* history: who has used tm or text while the line was in between

vars == <<kind, pc, mtx, tm, text, shown, overlapped>>

\* Definitions named "Buggy..." are slips this code could have; a run that
\* replaces the definition below by one of them finds the property violated.
BuggySteps(k) ==  \* an arrival's time is made before the mutex is taken
  <<"convert", "format 1", "format 2", "lock", "read 1", "read 2", "unlock">>

Steps(k) ==
  IF k = "arrival"
  THEN <<"lock", "convert", "format 1", "format 2", "read 1", "read 2", "unlock">>
  ELSE <<"convert", "format 1", "format 2", "lock", "read 1", "read 2", "unlock">>

Init ==
  /\ kind \in [Lines -> {"arrival", "expiry"}]
  /\ pc = [l \in Lines |-> 0]
  /\ mtx = Nobody
  /\ tm = Nobody
  /\ text = [h \in Half |-> Nobody]
  /\ shown = [l \in Lines |-> [h \in Half |-> Nobody]]
  /\ overlapped = [l \in Lines |-> {}]

Written(l) == pc[l] = Len(Steps(kind[l]))

Takes(l, step) ==
  /\ ~Written(l) /\ Steps(kind[l])[pc[l] + 1] = step
  /\ pc' = [pc EXCEPT ![l] = @ + 1]
  /\ UNCHANGED kind

\* The lines that have been converted and not yet read to their end.
InBetween ==
  {l \in Lines : /\ \E i \in 1 .. pc[l] : Steps(kind[l])[i] = "convert"
                 /\ \A i \in 1 .. pc[l] : Steps(kind[l])[i] # "read 2"}

OverlapBy(l) ==
  overlapped' = [k \in Lines |-> overlapped[k] \cup IF k \in InBetween \ {l} THEN {l} ELSE {}]

Lock(l) ==
  /\ mtx = Nobody /\ Takes(l, "lock")
  /\ mtx' = l
  /\ UNCHANGED <<tm, text, shown, overlapped>>

\* localtime or gmtime; the C library keeps two of them apart.
Convert(l) ==
  /\ Takes(l, "convert")
  /\ tm' = l
  /\ OverlapBy(l)
  /\ UNCHANGED <<mtx, text, shown>>

\* asctime
Format(l) ==
  /\ \E h \in Half :
       Takes(l, <<"format 1", "format 2">>[h]) /\ text' = [text EXCEPT ![h] = tm]
  /\ OverlapBy(l)
  /\ UNCHANGED <<mtx, tm, shown>>

\* The copy into a string in request_cur_asctime, or the output of t.
Read(l) ==
  /\ \E h \in Half :
       Takes(l, <<"read 1", "read 2">>[h]) /\ shown' = [shown EXCEPT ![l][h] = text[h]]
  /\ UNCHANGED <<mtx, tm, text, overlapped>>

Unlock(l) ==
  /\ Takes(l, "unlock")
  /\ mtx' = Nobody
  /\ UNCHANGED <<tm, text, shown, overlapped>>

Log(l) == Lock(l) \/ Convert(l) \/ Format(l) \/ Read(l) \/ Unlock(l)

\* All lines are written, and the mutex is free.
Finished == (\A l \in Lines : Written(l)) /\ mtx = Nobody /\ UNCHANGED vars

Next == (\E l \in Lines : Log(l)) \/ Finished

Spec == Init /\ [][Next]_vars

-------------------------------------------------------------------------------
(***************************************************************************)
(* A line shows its own time, or in part that of a line that was made at   *)
(* the same time; and then one of the two is a line with an expiration     *)
(* time: the times of arrival alone never disturb each other.              *)
(***************************************************************************)
TimeIsOwnOrOverlapped ==
  \A l \in Lines, h \in Half : shown[l][h] \notin {l, Nobody} =>
    /\ shown[l][h] \in overlapped[l]
    /\ "expiry" \in {kind[l], kind[shown[l][h]]}
===============================================================================
