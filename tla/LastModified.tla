------------------------------ MODULE LastModified -----------------------------
(***************************************************************************)
(* The way of a received response through the constructors of HttpParser   *)
(* and HttpResponse, and there the loop that reads a Last-Modified date    *)
(* word by word.  The loop ends when all that is left is the text "GMT";   *)
(* the last word of a text is never dropped.                               *)
(*                                                                         *)
(* A date is the sequence of the words after its first five characters,    *)
(* each a record of its length and of what it is.                          *)
(***************************************************************************)
EXTENDS HttpParser

CONSTANTS Dates

LastModifiedName == <<"x", "x">>  \* the name that stands for Last-Modified

Word ==
  [length : {0, 2, 3, 4, 8, 9}, is : {"number", "month", "time", "late", "GMT", "other"}]

Gmt == [length |-> 3, is |-> "GMT"]

\* No word: struct tm lm = {0}.
Zero == [length |-> 0, is |-> "other"]

TimeField == {"day", "month", "year", "time"}

ASSUME DatesAssumption == Dates \subseteq Seq(Word) \ {<<>>}

VARIABLES
  date,   \* the value of Last-Modified
  rest,   \* last_modified_date: the words still to be read
  lm,     \* struct tm: for each field the word it is from, or Zero
  noStore,   \* fail_tag, which becomes nostore
  reading    \* "no", "looping", then "done" or "thrown"

dateVars == <<date, rest, lm, noStore, reading>>
vars == <<parser, dateVars>>

Init ==
  /\ ParserInit
  /\ date = <<>> /\ rest = <<>> /\ lm = [field \in TimeField |-> Zero]
  /\ noStore = FALSE
  /\ reading = "no"

Parse == ParseHeaders /\ UNCHANGED dateVars

\* The text of the value is left open by the characters of the model.
ReadHeaders ==
  /\ outcome = "accepted" /\ reading = "no"
  /\ LastModifiedName \in DOMAIN headers
  /\ date' \in Dates
  /\ rest' = date'
  /\ reading' = "looping"
  /\ UNCHANGED <<parser, lm, noStore>>

\* The field a word is for is told by its length alone.
Field(word) ==
  CASE word.length = 2 -> "day" [] word.length = 3 -> "month" [] word.length = 4 -> "year"
    [] word.length = 8 -> "time" [] OTHER -> "none"

\* stoi throws on a word that is not a number.
Throws(word) ==
  \/ Field(word) \in {"day", "year"} /\ word.is # "number"
  \/ Field(word) = "time" /\ word.is \notin {"number", "time", "late"}

BuggyFails(word) == Field(word) = "month" /\ word.is # "month"  \* hours go on after 23

Fails(word) ==
  \/ Field(word) = "month" /\ word.is # "month"
  \/ Field(word) = "time" /\ word.is # "time"

BuggyLeft(words) ==  \* + 1 is missing: the space is left, and an empty word before it
  IF Len(words) = 1 THEN words ELSE <<[length |-> 0, is |-> "other"]>> \o Tail(words)

\* substr(find(" ") + 1, ...): without a space, all of it.
Left(words) == IF Len(words) = 1 THEN words ELSE Tail(words)

ReadWord ==
  /\ reading = "looping" /\ rest # <<Gmt>>
  /\ LET word == rest[1]
     IN  IF Throws(word) THEN reading' = "thrown" /\ UNCHANGED <<date, rest, lm, noStore>>
         ELSE /\ rest' = Left(rest)
              /\ noStore' = (noStore \/ Fails(word))
              /\ lm' = IF Fails(word) \/ Field(word) = "none" THEN lm
                       ELSE [lm EXCEPT ![Field(word)] = word]
              /\ UNCHANGED <<date, reading>>
  /\ UNCHANGED parser

DateEnds ==
  /\ reading = "looping" /\ rest = <<Gmt>>
  /\ reading' = "done"
  /\ UNCHANGED <<parser, date, rest, lm, noStore>>

Next == Parse \/ ReadHeaders \/ ReadWord \/ DateEnds

Spec == Init /\ [][Next]_vars /\ WF_vars(Next)

-------------------------------------------------------------------------------
(***************************************************************************)
(* What a date that the loop gets through makes of the response.  It is    *)
(* no-store if a word of three letters is no month or one of eight no      *)
(* time, wherever in the date and whatever follows it.  Any other date     *)
(* gives a lifetime, also one that is no date of HTTP: each field is from  *)
(* the last word of its length, or zero if there is none, and words of     *)
(* other lengths count for nothing.                                        *)
(***************************************************************************)
LifetimeIsFromDate ==
  reading = "done" =>
    LET words == Front(date)
        at(field) == {i \in DOMAIN words : Field(words[i]) = field}
    IN  /\ noStore <=> \E w \in Range(words) : \/ w.length = 3 /\ w.is # "month"
                                               \/ w.length = 8 /\ w.is # "time"
        /\ ~noStore => \A field \in TimeField :
             lm[field] = IF at(field) = {} THEN Zero ELSE words[Max(at(field))]

\* The loop ends on every date whose last word is GMT.
DateLoopEnds == (reading = "looping" /\ Last(rest) = Gmt) ~> reading \in {"done", "thrown"}
===============================================================================
