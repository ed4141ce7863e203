-------------------------- MODULE DeliveryContract --------------------------
(***************************************************************************)
(* What the delivery of a campaign promises its agents and its result: a   *)
(* job reaches every session exactly once, a job counts as delivered only  *)
(* when it has reached them all, and a result covers all that was sent.    *)
(***************************************************************************)
CONSTANTS Jobs, Sessions

VARIABLES prompts,   \* how often each job was put to each session
          complete,  \* the jobs that count as delivered
          results    \* the job sets of the campaign results returned

vars == <<prompts, complete, results>>

Init ==
    /\ prompts = [p \in Jobs \X Sessions |-> 0]
    /\ complete = {}
    /\ results = {}

(* A job is put to a session that does not have it yet. *)
Land(p) ==
    /\ prompts[p] = 0
    /\ prompts' = [prompts EXCEPT ![p] = 1]
    /\ UNCHANGED <<complete, results>>

Finish(j) ==
    /\ j \notin complete
    /\ \A s \in Sessions : prompts[<<j, s>>] = 1
    /\ complete' = complete \cup {j}
    /\ UNCHANGED <<prompts, results>>

(* A result is returned when nothing was sent that is not delivered. *)
Return ==
    /\ \A p \in Jobs \X Sessions : prompts[p] # 0 => p[1] \in complete
    /\ results' = results \cup {complete}
    /\ UNCHANGED <<prompts, complete>>

Next ==
    \/ \E p \in Jobs \X Sessions : Land(p)
    \/ \E j \in Jobs : Finish(j)
    \/ Return

Spec == Init /\ [][Next]_vars
=============================================================================
