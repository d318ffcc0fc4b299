-------------------------------- MODULE MCTexts --------------------------------
(***************************************************************************)
(* Module LastModified for messages of up to two fields, the beginnings of *)
(* messages, every text of up to four characters or six pieces, and the    *)
(* dates that differ from a good one in one word, with the two obsolete    *)
(* formats.                                                                *)
(***************************************************************************)
EXTENDS LastModified

Strings(chars, n) == UNION {[1 .. k -> chars] : k \in 0 .. n}

X == <<"x">>
FieldsOf ==
  {f \in [name : {X, <<"x", "x">>}, space : BOOLEAN, content : {<<>>, X, <<"x", ":", "x">>}] :
     f.space \/ f.content # <<>>}

SmallMessages ==
  [startLine : {<<"x", "x">>, <<"x", ":", "x">>}, fields : Strings(FieldsOf, 2),
   body : {<<>>, <<":">> \o CRLF}]

Pieces == {X, <<":">>, <<":", "x">>, CRLF}
SmallTexts == Strings(Character, 4) \cup {FlattenSeq(p) : p \in Strings(Pieces, 6)}

W(length, is) == [length |-> length, is |-> is]
Good == <<W(2, "number"), W(3, "month"), W(4, "number"), W(8, "time"), Gmt>>
Words ==
  {W(0, "other"), W(2, "number"), W(2, "other"), W(3, "other"), W(4, "other"), W(8, "late"), Gmt}

OneOff ==
  {Good} \cup {ReplaceAt(Good, i, w) : i \in 1 .. 5, w \in Words}
         \cup {InsertAt(Good, i, w) : i \in 1 .. 6, w \in Words}
         \cup {RemoveAt(Good, i) : i \in 1 .. 5}

\* "ay, 06-Nov-94 08:49:37 GMT" and "ov  6 08:49:37 1994".
Rfc850 == <<W(3, "other"), W(9, "other"), W(8, "time"), Gmt>>
Asctime == <<W(2, "other"), W(0, "other"), W(2, "number"), W(8, "time"), W(4, "number")>>

SmallDates == OneOff \cup {Rfc850, Asctime}
===============================================================================
