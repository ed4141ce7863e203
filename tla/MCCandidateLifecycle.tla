------------------------ MODULE MCCandidateLifecycle ------------------------
(* One job with two actors and three candidates, two of them of the actor   *)
(* whose allowance affords one evaluation; and two jobs with one each.      *)
EXTENDS CandidateLifecycle, TLC

CONSTANTS a1, a2, j1, j2

MCOneJob  == <<j1, j1, j1>>
MCOwners  == <<a1, a2, a1>>
MCTwoJobs == <<j1, j2>>
MCOneOwner == <<a1, a1>>
MCSlots   == (a1 :> 1) @@ (a2 :> 1)
MCAmple   == (a1 :> 2)
=============================================================================
