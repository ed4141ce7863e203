----------------------------- MODULE MCVerdicts -----------------------------
(***************************************************************************)
(* What a verdict on a candidate is made of, side by side: the compute     *)
(* calls that measure it, the scores that are computed from what they      *)
(* return, and the hidden evaluation of the selected candidate.  They      *)
(* share no state; a behaviour belongs to one of them and leaves the       *)
(* others where they begin.                                                *)
(***************************************************************************)
EXTENDS MCComputeExecution, MCHidden, MCScores

VARIABLE world

worldVars == <<executionVars, input, evalVars, world>>

WorldInit ==
    /\ world \in {"execution", "scores", "evaluation"}
    /\ input \in IF world = "scores" THEN ScoreInputs ELSE {MCFirstInput}
    /\ ExecutionInit /\ EvalInit

WorldNext ==
    \/ world = "execution"  /\ ExecutionNext /\ UNCHANGED <<input, evalVars, world>>
    \/ world = "scores"     /\ ScoresNext    /\ UNCHANGED <<executionVars, evalVars, world>>
    \/ world = "evaluation" /\ EvalNext      /\ UNCHANGED <<executionVars, input, world>>

WorldSpec == WorldInit /\ [][WorldNext]_worldVars /\ ExecutionFairness
=============================================================================
