------------------------------- MODULE HttpParser ------------------------------
(***************************************************************************)
(* HttpParser::parseHeadersAndBody, the loop that cuts the header section  *)
(* of a request or response into a map.  It moves two size_t positions     *)
(* through the text and never tests what a find returns: npos + 2 is       *)
(* position 1, from where the loop goes on.                                *)
(*                                                                         *)
(* A text is a sequence of the characters the loop looks for and one that  *)
(* stands for all others; its positions are counted from 0, as in C++.     *)
(***************************************************************************)
EXTENDS Integers, SequencesExt

CONSTANTS
  Messages,  \* well-formed messages: a start line, fields and a body
  Others,    \* other texts that may be received
  Width      \* size_t counts modulo 2 ^ Width, 64 in the code

CR == "CR"
LF == "LF"
CRLF == <<CR, LF>>
EndOfLine == {CR, LF}
Character == {CR, LF, ":", "x"}

VARIABLES
  msg,               \* the text
  lastPos, nextPos,  \* the positions of the loop
  headers,           \* the map: a function from names to contents
  outcome            \* "looping", then "accepted", "refused" (false) or "thrown"

parser == <<msg, lastPos, nextPos, headers, outcome>>

npos == 2 ^ Width - 1
Plus(i, j) == (i + j) % 2 ^ Width

-------------------------------------------------------------------------------
(* The texts.  A space after a colon is optional.                          *)

AfterColon(field) == (IF field.space THEN <<"x">> ELSE <<>>) \o field.content

Line(field) == field.name \o <<":">> \o AfterColon(field) \o CRLF

HeaderPart(m) ==
  m.startLine \o CRLF \o FlattenSeq([i \in DOMAIN m.fields |-> Line(m.fields[i])])

Text(m) == HeaderPart(m) \o CRLF \o m.body

Texts == {Text(m) : m \in Messages}

\* What the first recv may return of a message that comes in pieces.
CutTexts == UNION {{SubSeq(t, 1, n) : n \in 1 .. Len(t) - 1} :
                     t \in {HeaderPart(m) \o CRLF : m \in Messages}}

\* A message is well-formed: its lines have no end within them, its names no colon,
\* its start line has two characters or more; and no colon ends a line, where the
\* code would take the CR for the space.
ASSUME MessagesAssumption ==
  \A m \in Messages :
    /\ m.startLine \in Seq({":", "x"}) /\ Len(m.startLine) >= 2
    /\ m.fields \in Seq([name : Seq({"x"}), space : BOOLEAN, content : Seq({":", "x"})])
    /\ \A i \in DOMAIN m.fields : m.fields[i].space \/ m.fields[i].content # <<>>
    /\ m.body \in Seq(Character)

\* Every text is shorter than what size_t can count.
ASSUME TextsAssumption ==
  /\ 2 ^ Width \in Nat
  /\ \A t \in Texts \cup Others : t \in Seq(Character) /\ Len(t) + 3 < 2 ^ Width

-------------------------------------------------------------------------------
(* The operations of std::string on msg.                                   *)

FindFirstOf(chars, pos) ==
  LET found == {i \in pos .. Len(msg) - 1 : msg[i + 1] \in chars}
  IN  IF found = {} THEN npos ELSE Min(found)

\* Only for pos <= Len(msg): substr throws otherwise.
Substr(pos, n) == SubSeq(msg, pos + 1, Min({pos + n, Len(msg)}))

\* Definitions named "Buggy..." are slips this code could have; a run that
\* replaces the definition below by one of them finds a property violated.
BuggyAtEmptyLine == Substr(lastPos, 1) = <<CR>>  \* half of the empty line is enough

AtEmptyLine == Substr(lastPos, 2) = CRLF

FirstHeader == Plus(FindFirstOf(EndOfLine, 0), 2)

ParserInit ==
  /\ msg \in Texts \cup CutTexts \cup Others
  /\ lastPos = FirstHeader
  /\ nextPos = 0
  /\ headers = <<>>
  /\ outcome = "looping"

Ends(result) == outcome' = result /\ UNCHANGED <<msg, lastPos, nextPos, headers>>

BuggyInsert(name, content) ==  \* the last content counts
  [n \in DOMAIN headers \cup {name} |-> IF n = name THEN content ELSE headers[n]]

\* std::map::insert keeps the content a name already has.
Insert(name, content) ==
  [n \in DOMAIN headers \cup {name} |-> IF n \in DOMAIN headers THEN headers[n] ELSE content]

BuggyMovedBack(before, after) == FALSE  \* the test is missing

\* The loop's test against going round for ever.
MovedBack(before, after) == before > after

\* The body, once the loop has ended at the empty line.
Body == SubSeq(msg, lastPos + 1, Len(msg))

\* The pass of the loop over the header that begins at lastPos.
Header ==
  LET colon == FindFirstOf({":"}, lastPos)
      start == Plus(colon, 2)
      eol   == FindFirstOf(EndOfLine, start)
      next  == Plus(eol, 2)
  IN  IF start > Len(msg) THEN Ends("thrown")
      ELSE IF MovedBack(nextPos, next) THEN Ends("refused")
      ELSE /\ headers' = Insert(Substr(lastPos, Plus(colon, -lastPos)),
                                Substr(start, Plus(eol, -start)))
           /\ lastPos' = next
           /\ nextPos' = eol
           /\ UNCHANGED <<msg, outcome>>

ParseHeaders ==
  /\ outcome = "looping"
  /\ IF lastPos > Len(msg) THEN Ends("thrown")
     ELSE IF AtEmptyLine THEN Ends("accepted")
     ELSE Header

-------------------------------------------------------------------------------
\* The headers the map gets: of fields with one name, the first, and of each all
\* but the character after the colon, whether it is a space or not.
Fields(m) ==
  LET names == {m.fields[i].name : i \in DOMAIN m.fields}
      first(name) == Min({i \in DOMAIN m.fields : m.fields[i].name = name})
  IN  [name \in names |-> Tail(AfterColon(m.fields[first(name)]))]

(***************************************************************************)
(* The loop comes to the end of every well-formed message; the map then    *)
(* has exactly its fields, none out of the start line or the body, but     *)
(* without its first character where no space is before it; and the body   *)
(* that the code keeps is the message's behind the two characters of the   *)
(* empty line.                                                             *)
(***************************************************************************)
MessageIsRead ==
  /\ outcome = "accepted"
  /\ \E m \in Messages : msg = Text(m) /\ headers = Fields(m) /\ Body = CRLF \o m.body

MessagesAreRead == msg \in Texts ~> MessageIsRead

(***************************************************************************)
(* A message of which the first recv has returned only a part of the       *)
(* header section is not taken for a whole one with fewer fields.          *)
(***************************************************************************)
CutIsNotAccepted == outcome = "accepted" => msg \notin CutTexts

\* The text has a first line, and from the first header on a colon.
HasColon == FindFirstOf(EndOfLine, 0) > 0 /\ FindFirstOf({":"}, FirstHeader) # npos

(***************************************************************************)
(* The loop ends on any text that has a first line and after it a colon:   *)
(* of the two searches that may find nothing, only the one for a colon can *)
(* make it go round for ever, and only from the first header on.           *)
(***************************************************************************)
LoopEnds == HasColon ~> outcome # "looping"
===============================================================================
