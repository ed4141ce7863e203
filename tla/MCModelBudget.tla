---------------------------- MODULE MCModelBudget ----------------------------
(* Two actors with unequal allocations and three calls; a cost may equal,   *)
(* fall short of or exceed either maximum.                                  *)
EXTENDS ModelBudget

MCLimit == <<3, 2>>
=============================================================================
