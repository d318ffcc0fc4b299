-------------------------------- MODULE MCRelay --------------------------------
(***************************************************************************)
(* Module Relay for responses of up to 24 bytes and a recv of up to 12.    *)
(* The header section is ten or eleven bytes long, so that it comes in one *)
(* piece or cut anywhere, also within the name and the digits of Content-  *)
(* Length.                                                                 *)
(***************************************************************************)
EXTENDS Relay

Measured ==  \* the body is longer than what one recv returns
  [status |-> "200", framing |-> "length", line |-> 2, field |-> 3, digits |-> 6,
   last |-> 7, head |-> 11, announced |-> 13, body |-> 13, ends |-> {}]

Empty == [Measured EXCEPT !.last = 6, !.head = 10, !.announced = 0, !.body = 0]

\* One or two bytes more than announced: -1 and -2 for a whole first piece.
Overlong == [Measured EXCEPT !.last = 6, !.head = 10, !.announced = 0, !.body = 1]
Overlonger == [Overlong EXCEPT !.body = 2]

Chunked ==
  [status |-> "200", framing |-> "chunked", line |-> 2, field |-> 6, digits |-> 0,
   last |-> 0, head |-> 10, announced |-> 0, body |-> 12, ends |-> {22}]

\* The last header ends in 0, or a chunk of data does.
ChunkedZeroHead == [Chunked EXCEPT !.ends = {10, 22}]
ChunkedZeroData == [Chunked EXCEPT !.ends = {16, 22}]

Unframed == [Measured EXCEPT !.framing = "none"]

Moved == [Empty EXCEPT !.status = "301"]

AllKinds ==
  {Measured, Empty, Overlong, Overlonger, Chunked, ChunkedZeroHead, ChunkedZeroData,
   Unframed, Moved}

OnlyMeasured == {Measured}
OnlyChunked == {Chunked}
===============================================================================
