----------------------------- MODULE MCGetHandler ------------------------------
(***************************************************************************)
(* Module GetHandler on small instances: which header sets the origin      *)
(* server may answer with is what the runs differ in.                      *)
(***************************************************************************)
EXTENDS GetHandler, TLC

Plain ==  \* Cache-Control: max-age=1
  [directives |-> {}, maxAge |-> 1, etag |-> FALSE, lastModified |-> Absent]

Tagged == [Plain EXCEPT !.etag = TRUE]

NoCachePlain == [Plain EXCEPT !.directives = {"no-cache"}]

PrivatePlain == [Plain EXCEPT !.directives = {"private"}]

Dated ==  \* Last-Modified only, ten seconds ago at the start: lives one second
  [directives |-> {}, maxAge |-> Absent, etag |-> FALSE, lastModified |-> -10]

Undated ==  \* a Last-Modified whose fields are out of range
  [Dated EXCEPT !.lastModified = Unreadable]

Spent == [Plain EXCEPT !.maxAge = 0]

DatedAhead ==  \* Last-Modified in the future: the lifetime is negative
  [Dated EXCEPT !.lastModified = 20]

Races == {Plain, Tagged}

Kinds == {Plain, NoCachePlain, PrivatePlain, Dated, Undated, Spent, DatedAhead}

Symmetric == Permutations(Requests) \cup Permutations(Keys)
===============================================================================
