--------------------------- MODULE MCModelGateway ---------------------------
(* Two actors with a token each and two calls: one call can exhaust an      *)
(* actor, one can overrun, and the two can meet in every order.             *)
EXTENDS ModelGateway, TLC

CONSTANTS t1, t2

MCLimit == <<2, 1>>
MCTokenActor == (t1 :> 1) @@ (t2 :> 2)
=============================================================================
