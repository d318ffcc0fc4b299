--------------------------------- MODULE MCPost --------------------------------
(***************************************************************************)
(* Module PostHandler for responses of up to twelve bytes, a first recv of *)
(* up to eight, later ones of up to three, and ints of six bits.           *)
(***************************************************************************)
EXTENDS PostHandler

\* A body of any announced length; bodies with zero bytes, the first one or two
\* and further behind; and header sections that are not read.
Kinds ==
  [head : {3}, body : {0, 1, 4, 9}, announced : {0, 1, 4, 9, Absent}, zeros : {{}},
   parse : {"returns"}]
    \cup [head : {3}, body : {4, 9}, announced : {4, 9}, zeros : {{3}, {4, 6}},
          parse : {"returns"}]
    \cup [head : {3}, body : {4}, announced : {4}, zeros : {{}}, parse : {"throws", "spins"}]
===============================================================================
