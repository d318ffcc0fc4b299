------------------------------- MODULE MCCache --------------------------------
(***************************************************************************)
(* Module Cache on a small instance, with the history that "least recently *)
(* used" is about: which keys were used since each key was last used.      *)
(***************************************************************************)
EXTENDS Cache

VARIABLE since  \* since[k]: keys used after k's last use, Keys when k has none

\* A request line is read with one recv, so there are finitely many.
ASSUME HistoryAssumption == IsFiniteSet(Keys) /\ Cardinality(Keys) > Capacity

mcVars == <<vars, since>>

MCInit == Init /\ since = [k \in Keys |-> Keys]

Used(k) == since' = [x \in Keys |-> IF x = k THEN {} ELSE since[x] \cup {k}]

\* A find that misses is no use; an erased key has no last use any more.
MCFind(k) ==
  /\ Find(k)
  /\ IF Exist(k) THEN Used(k) ELSE UNCHANGED since

MCPut(k) == (\E r \in Responses : Put(k, r)) /\ Used(k)

MCErase(k) == Erase(k) /\ since' = [since EXCEPT ![k] = Keys]

MCNext == \E k \in Keys : MCFind(k) \/ MCPut(k) \/ MCErase(k)

MCSpec == MCInit /\ [][MCNext]_mcVars

(***************************************************************************)
(* A key used less than Capacity distinct other keys ago is still cached:  *)
(* put drops the entry whose last use is the oldest, and a find counts as  *)
(* a use (Cache::find and Cache::put both move the entry to the head).     *)
(***************************************************************************)
RecentlyUsedIsCached ==
  \A k \in Keys : Cardinality(since[k]) < Capacity => Exist(k)
===============================================================================
