-------------------------------- MODULE MCProxy --------------------------------
(***************************************************************************)
(* Module Proxy for three connections, the last of which may find no       *)
(* descriptor left while it waits.  A request that can be served asks for  *)
(* a tunnel, to a server or, when no descriptor is left, to nowhere.       *)
(***************************************************************************)
EXTENDS Proxy

Served ==
  [parse |-> "ok", method |-> "CONNECT", maxStale |-> "none", host |-> "up",
   stays |-> "nowhere"]

MixedKinds ==
  {Served,
   [Served EXCEPT !.parse = "request"], [Served EXCEPT !.parse = "spins"],
   [Served EXCEPT !.method = "GET", !.host = "unknown"],
   [Served EXCEPT !.host = "down"],
   [Served EXCEPT !.stays = "recv"], [Served EXCEPT !.stays = "serving"]}

\* Connections are named in the order in which they come: any other order is
\* this one with other names, as the kinds are the same for all of them.
Order ==
  CHOOSE s \in [1 .. Cardinality(Connections) -> Connections] : IsInjective(s)

InOrder ==
  \A i, j \in DOMAIN Order :
    i < j /\ pc'[Order[j]] # "away" => pc'[Order[i]] # "away"
===============================================================================
