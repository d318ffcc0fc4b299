----------------------------- MODULE HttpResponse ------------------------------
(***************************************************************************)
(* Class HttpResponse: what its constructor makes of the headers of a      *)
(* response, and what the handlers ask it.  Header text is abstracted to   *)
(* what the parser looks for in it.  A header set is a record with         *)
(*   directives    the directives the Cache-Control value contains,        *)
(*   maxAge        the number after max-age, Absent without one,           *)
(*   etag          whether there is an Etag header,                        *)
(*   lastModified  the time mktime() makes of Last-Modified, Absent        *)
(*                 without the header, Unreadable when a field of the date *)
(*                 sets fail_tag.                                          *)
(* A Last-Modified value that is no date at all, on which the parser       *)
(* throws or loops for ever, is not among the header sets: LastModified    *)
(* has the loop that reads it.                                             *)
(***************************************************************************)
EXTENDS Integers

CONSTANTS Absent, Unreadable

ASSUME MarkersAssumption == {Absent, Unreadable} \cap Int = {}

Directives == {"no-cache", "no-store", "private"}

HeaderSet ==
  [directives : SUBSET Directives, maxAge : Int \cup {Absent}, etag : BOOLEAN,
   lastModified : Int \cup {Absent, Unreadable}]

-------------------------------------------------------------------------------
\* (int)(0.1 * d) drops the fraction: it rounds towards zero, not down.
Tenth(d) == IF d >= 0 THEN d \div 10 ELSE -((-d) \div 10)

HasHeuristic(h) == h.maxAge = Absent /\ h.lastModified \notin {Absent, Unreadable}

\* The lifetime in seconds; without max-age, a tenth of the document's age.
Lifetime(h, now) ==
  IF h.maxAge # Absent THEN h.maxAge
  ELSE IF HasHeuristic(h) THEN Tenth(now - h.lastModified) ELSE Absent

\* Definitions named "Buggy..." are slips this code could have; a run that
\* replaces the definition below by one of them finds a property violated.
BuggyNoStore(h) ==  \* the last else branch is missing: nothing but no-store counts
  "no-store" \in h.directives

\* A response without a lifetime is treated like a no-store one.
NoStore(h) ==
  "no-store" \in h.directives \/ (h.maxAge = Absent /\ ~HasHeuristic(h))

\* The fields after the constructor.  maxAge and expirationTime stay
\* uninitialised, here Absent, when the headers give no lifetime.
Parse(h, now) ==
  [noCache        |-> "no-cache" \in h.directives,
   noStore        |-> NoStore(h),
   isPrivate      |-> "private" \in h.directives,
   hasValidator   |-> h.etag \/ h.lastModified # Absent,
   maxAge         |-> Lifetime(h, now),
   expirationTime |-> IF Lifetime(h, now) = Absent THEN Absent
                      ELSE now + Lifetime(h, now)]

BuggyAbleToCache(r) == ~r.noStore  \* private is not looked at

AbleToCache(r) == ~r.noStore /\ ~r.isPrivate

BuggyNoExpired(r, staleTime, now) ==  \* fresh in the second it expires
  r.expirationTime + staleTime >= now

NoExpired(r, staleTime, now) == r.expirationTime + staleTime > now

\* The record type of Parse.
ResponseFields ==
  [noCache : BOOLEAN, noStore : BOOLEAN, isPrivate : BOOLEAN,
   hasValidator : BOOLEAN, maxAge : Int \cup {Absent},
   expirationTime : Int \cup {Absent}]
===============================================================================
