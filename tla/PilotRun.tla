------------------------------ MODULE PilotRun ------------------------------
(***************************************************************************)
(* One candidate pilot from its directory to its audit: the reference is   *)
(* measured, the agents get their job and submit, the host evaluates what  *)
(* they submitted and tells them, the selected candidate is evaluated on   *)
(* the hidden workload, and the campaign is closed and sealed.  Any step   *)
(* may raise; the run is then unwound: runtime, gateways, remote calls.    *)
(*                                                                         *)
(* The parts are abstracted to what the run depends on: a request is       *)
(* registered, authorized, dispatched and resolved (module                  *)
(* ComputeExecution), a candidate is admitted and evaluated                 *)
(* (CandidateLifecycle), an allowance is reserved before authority is      *)
(* issued (PilotSpend).  Left out: documents and digests that are retained  *)
(* on the way, and task materials.                                          *)
(***************************************************************************)
EXTENDS Naturals, Sequences

CONSTANTS Solo,              \* the actor of a live pilot
          Crew,              \* the actors of a no-spend peer pilot
          HiddenPhases,      \* the hidden requests, in the order they run
          MaxPilotFaults     \* bound on raising steps

ASSUME PilotAssumption == Solo \in Crew /\ MaxPilotFaults \in Nat

VARIABLES live,         \* the mode of the run
          at,           \* the step the run is at
          request,      \* the state of each compute request in its route
          paid,         \* requests whose allowance the spend guard reserved
          sealedRoutes, \* the route inventory is sealed
          admitted,     \* actors with an admitted candidate
          reservation,  \* the evaluation reservation of each actor
          intake,       \* the submission job: "none", "open", "closed"
          released,     \* actors whose result is released
          runtime,      \* "none", "running", "stopped"
          handle,       \* the campaign handle: "none", "active", "closed", "invalid"
          gates,        \* the gateways that are open
          raised,       \* the run holds an error
          audit,        \* what the audit says
          pilotFaults

campaignVars == <<admitted, reservation, intake, released>>
computeVars  == <<request, paid, sealedRoutes>>
hostVars     == <<runtime, handle, gates>>
endVars      == <<raised, audit, pilotFaults>>
pilotVars    == <<live, at, computeVars, campaignVars, hostVars, endVars>>

Team == IF live THEN {Solo} ELSE Crew
Gates == IF live THEN {"model", "candidate"} ELSE {"model", "candidate", "peer"}

PublicRequests == {<<"public", a>> : a \in Crew}
HiddenRequests == {<<"hidden", HiddenPhases[i]>> : i \in 1..Len(HiddenPhases)}
Reference      == <<"reference", Solo>>
PilotRequests  == {Reference} \cup PublicRequests \cup HiddenRequests

(* A call that was made: its id is not recorded yet, it runs, it ended, or   *)
(* it was disowned: asking for its result failed, the error was retained as  *)
(* its outcome, and it may run on.                                           *)
Dispatched == {"spawned", "running", "complete", "failed", "disowned"}

(* The audit: cleanup is the last service whose closing raised, remote the  *)
(* result for each request, uncleaned that start() failed with two errors.  *)
NoAudit == [status |-> "none", cleanup |-> "none", remote |-> {}, uncleaned |-> FALSE]

PilotInit ==
    /\ live \in BOOLEAN
    /\ at = "admission"
    /\ request = [q \in PilotRequests |-> "unplanned"]
    /\ paid = {} /\ sealedRoutes = FALSE
    /\ admitted = {} /\ intake = "none" /\ released = {}
    /\ reservation = [a \in Crew |-> "none"]
    /\ runtime = "none" /\ handle = "none" /\ gates = {}
    /\ raised = FALSE /\ audit = NoAudit /\ pilotFaults = 0
-----------------------------------------------------------------------------
(* The step raises: _execute_solo_pilot() goes to its finally block.        *)
Raise ==
    /\ at' = "stop_runtime"
    /\ raised' = TRUE

StepRaises(step) ==
    /\ at = step
    /\ pilotFaults < MaxPilotFaults
    /\ pilotFaults' = pilotFaults + 1
    /\ Raise
    /\ UNCHANGED <<live, computeVars, campaignVars, hostVars, audit>>

Advances(from, to) == at = from /\ at' = to

(* PilotSpendGuard.begin() and the composition of the evaluation stack.     *)
Admit ==
    /\ Advances("admission", "reference")
    /\ UNCHANGED <<live, computeVars, campaignVars, hostVars, endVars>>

(* register() of a phase's requests; a sealed inventory takes no new route, *)
(* and registering a retained route again changes nothing.                  *)
Registered(S) ==
    /\ sealedRoutes => \A q \in S : request[q] # "unplanned"
    /\ request' = [q \in PilotRequests |->
           IF q \in S /\ request[q] = "unplanned" THEN "registered" ELSE request[q]]

(* authorize(): the spend guard reserves the allowance of a live request,   *)
(* then the route's ledger issues its authority; issuing again is a no-op.  *)
AuthorizeRequest(q, from) ==
    /\ at = from /\ request[q] = "registered"
    /\ request' = [request EXCEPT ![q] = "issued"]
    /\ paid' = IF live THEN paid \cup {q} ELSE paid
    /\ UNCHANGED <<live, at, sealedRoutes, campaignVars, hostVars, endVars>>

(* The allowance is debited and issuing the authority raises.               *)
AuthorizeFails(q, from) ==
    /\ at = from /\ request[q] = "registered"
    /\ pilotFaults < MaxPilotFaults
    /\ pilotFaults' = pilotFaults + 1
    /\ paid' = IF live THEN paid \cup {q} ELSE paid
    /\ Raise
    /\ UNCHANGED <<live, request, sealedRoutes, campaignVars, hostVars, audit>>

(* The evaluator submits an issued request and collects it: terminal        *)
(* evidence is retained, of the end of the call or of an error of asking for *)
(* it, or the call is given up while it is under way, before or after its    *)
(* call id is recorded.                                                     *)
Executes(q, outcome) ==
    /\ request[q] = "issued"
    /\ outcome # "complete" => pilotFaults < MaxPilotFaults
    /\ pilotFaults' = IF outcome = "complete" THEN pilotFaults ELSE pilotFaults + 1
    /\ request' = [request EXCEPT ![q] = outcome]

PlanReference ==
    /\ Advances("reference", "authorize_reference")
    /\ Registered({Reference})
    /\ UNCHANGED <<live, paid, sealedRoutes, campaignVars, hostVars, endVars>>

(* The reference must be eligible before an agent is started.               *)
MeasureReference(outcome, eligible) ==
    /\ at = "authorize_reference"
    /\ Executes(Reference, outcome)
    /\ IF outcome = "complete" /\ eligible THEN at' = "services" /\ UNCHANGED raised ELSE Raise
    /\ UNCHANGED <<live, paid, sealedRoutes, campaignVars, hostVars, audit>>

(* create_candidate_services(), the budget account and its plans.           *)
CreateServices ==
    /\ Advances("services", "gateways")
    /\ intake' = "open"
    /\ UNCHANGED <<live, computeVars, admitted, reservation, released, hostVars, endVars>>

(* The gateways are constructed one by one; peer, model, candidate.         *)
OpenGate(g) ==
    /\ at = "gateways"
    /\ g \in Gates \ gates
    /\ gates' = gates \cup {g}
    /\ UNCHANGED <<live, at, computeVars, campaignVars, runtime, handle, endVars>>

StartCampaign ==
    /\ Advances("gateways", "agent_job")
    /\ gates = Gates
    /\ runtime' = "running" /\ handle' = "active"
    /\ UNCHANGED <<live, computeVars, campaignVars, gates, endVars>>

(* start() stops what it had started; that may fail as well, and there is   *)
(* no handle to stop it by later: the failure is a group of two errors.     *)
StartFails(stopped) ==
    /\ at = "gateways" /\ gates = Gates
    /\ pilotFaults < MaxPilotFaults
    /\ pilotFaults' = pilotFaults + 1
    /\ runtime' = IF stopped THEN "stopped" ELSE "running"
    /\ audit' = [audit EXCEPT !.uncleaned = ~stopped]
    /\ Raise
    /\ UNCHANGED <<live, computeVars, campaignVars, handle, gates>>

(* The "submit" tool: an agent may submit while the runtime runs, and has   *)
(* one slot.                                                                *)
Submit(a) ==
    /\ runtime = "running" /\ "candidate" \in gates
    /\ intake = "open" /\ a \in Team \ admitted
    /\ admitted' = admitted \cup {a}
    /\ reservation' = [reservation EXCEPT ![a] = "reserved"]
    /\ UNCHANGED <<live, at, computeVars, intake, released, hostVars, endVars>>

DeliverJobs ==
    /\ Advances("agent_job", "plan_public")
    /\ UNCHANGED <<live, computeVars, campaignVars, hostVars, endVars>>

(* prepare_public(): exactly one admitted candidate of every actor.         *)
PlanPublic ==
    /\ at = "plan_public"
    /\ IF admitted = Team
       THEN /\ Registered({<<"public", a>> : a \in admitted})
            /\ at' = "authorize_public"
            /\ UNCHANGED raised
       ELSE Raise /\ UNCHANGED request
    /\ UNCHANGED <<live, paid, sealedRoutes, campaignVars, hostVars, audit, pilotFaults>>

(* evaluate_visible() returns in any case: with a complete reservation, a   *)
(* failed one when the evaluator raised, or the reservation as it is when   *)
(* the evaluation is in progress.                                           *)
EvaluatePublic(a, outcome, verdict) ==
    /\ at = "authorize_public"
    /\ \A b \in Team : request[<<"public", b>>] # "registered"
    /\ verdict = "complete" => outcome = "complete"
    /\ verdict = "reserved" => outcome \in {"spawned", "running"}
    /\ Executes(<<"public", a>>, outcome)
    /\ reservation' = [reservation EXCEPT ![a] = verdict]
    /\ UNCHANGED <<live, at, paid, sealedRoutes, admitted, intake, released, hostVars,
                   raised, audit>>

Evaluated == \A a \in Team : request[<<"public", a>>] \in Dispatched

(* Mutant: results are released although an evaluation is under way.        *)
FeedbackOfTheEvaluated ==
    /\ at = "authorize_public" /\ Evaluated
    /\ intake' = "closed" /\ released' = Team /\ at' = "feedback" /\ UNCHANGED raised
    /\ UNCHANGED <<live, computeVars, admitted, reservation, hostVars, audit, pilotFaults>>

(* The handoff closes the submissions and releases every result when all    *)
(* evaluations are complete, and raises otherwise.                          *)
Feedback ==
    /\ at = "authorize_public" /\ Evaluated
    /\ IF \A a \in Team : reservation[a] = "complete"
       THEN intake' = "closed" /\ released' = Team /\ at' = "feedback" /\ UNCHANGED raised
       ELSE Raise /\ UNCHANGED <<intake, released>>
    /\ UNCHANGED <<live, computeVars, admitted, reservation, hostVars, audit, pilotFaults>>

DeliverFeedback ==
    /\ Advances("feedback", "plan_hidden")
    /\ UNCHANGED <<live, computeVars, campaignVars, hostVars, endVars>>

(* prepare_hidden(): close, select, reserve, register, seal the inventory.  *)
PlanHidden ==
    /\ Advances("plan_hidden", "authorize_hidden")
    /\ intake' = "closed"
    /\ Registered(HiddenRequests)
    /\ sealedRoutes' = TRUE
    /\ UNCHANGED <<live, paid, admitted, reservation, released, hostVars, endVars>>

(* collect_hidden(): the phases run in their order; the first that does not *)
(* complete ends the evaluation.                                            *)
EvaluateHidden(i, outcome) ==
    /\ at = "authorize_hidden"
    /\ \A q \in HiddenRequests : request[q] # "registered"
    /\ \A j \in 1..(i - 1) : request[<<"hidden", HiddenPhases[j]>>] = "complete"
    /\ Executes(<<"hidden", HiddenPhases[i]>>, outcome)
    /\ IF outcome # "complete" THEN Raise
       ELSE /\ at' = IF i = Len(HiddenPhases) THEN "reconcile" ELSE at
            /\ UNCHANGED raised
    /\ UNCHANGED <<live, paid, sealedRoutes, campaignVars, hostVars, audit>>
-----------------------------------------------------------------------------
(* controller.close(): the outbox reconciles, the runtime stops, then the   *)
(* budget gate and the compute gate; a gate that fails makes the handle     *)
(* invalid.                                                                 *)
CloseStops ==
    /\ Advances("reconcile", "close_budget")
    /\ runtime' = "stopped"
    /\ UNCHANGED <<live, computeVars, campaignVars, handle, gates, endVars>>

CloseBudget ==
    /\ Advances("close_budget", "close_compute")
    /\ UNCHANGED <<live, computeVars, campaignVars, hostVars, endVars>>

Rejected(step) ==
    /\ at = step
    /\ pilotFaults < MaxPilotFaults
    /\ pilotFaults' = pilotFaults + 1
    /\ handle' = "invalid"
    /\ Raise
    /\ UNCHANGED <<live, computeVars, campaignVars, runtime, gates, audit>>

(* CandidateEvaluationClosure: every request of the sealed inventory is     *)
(* complete and every actor has a complete, released evaluation.            *)
Closes ==
    /\ sealedRoutes
    /\ \A q \in PilotRequests : request[q] \in {"unplanned", "complete"}
    /\ admitted = Team /\ released = Team
    /\ \A a \in Team : reservation[a] = "complete"

CloseCompute ==
    /\ at = "close_compute"
    /\ IF Closes THEN handle' = "closed" /\ at' = "seal" /\ UNCHANGED raised
       ELSE handle' = "invalid" /\ Raise
    /\ UNCHANGED <<live, computeVars, campaignVars, runtime, gates, audit, pilotFaults>>

(* The storage is sealed and the audit says complete.                       *)
SealStorage ==
    /\ Advances("seal", "stop_runtime")
    /\ audit' = [audit EXCEPT !.status = "complete"]
    /\ UNCHANGED <<live, computeVars, campaignVars, hostVars, raised, pilotFaults>>
-----------------------------------------------------------------------------
(* The finally block: the runtime is stopped if the handle is active.  A    *)
(* second stop of a stopped runtime may raise: it takes a snapshot first.   *)
StopRuntime(fails) ==
    /\ Advances("stop_runtime", "peer")
    /\ fails => handle = "active" /\ (runtime = "stopped" \/ pilotFaults < MaxPilotFaults)
    /\ pilotFaults' = IF fails /\ runtime # "stopped" THEN pilotFaults + 1 ELSE pilotFaults
    /\ runtime' = IF handle = "active" /\ ~fails THEN "stopped" ELSE runtime
    /\ audit' = IF fails THEN [audit EXCEPT !.cleanup = "runtime"] ELSE audit
    /\ raised' = (raised \/ fails)
    /\ UNCHANGED <<live, computeVars, campaignVars, handle, gates>>

(* Every gateway that was constructed is closed once, whatever the others    *)
(* do.  A close() that raises may have closed it or not: the model gateway   *)
(* gives up at the first token it cannot revoke, its server still up.        *)
Closings == [peer |-> "candidate", candidate |-> "model", model |-> "unwound"]

CloseGate(g, outcome) ==
    /\ Advances(g, Closings[g])
    /\ outcome # "closed" => g \in gates /\ pilotFaults < MaxPilotFaults
    /\ gates' = IF outcome = "left_open" THEN gates ELSE gates \ {g}
    /\ pilotFaults' = IF outcome # "closed" THEN pilotFaults + 1 ELSE pilotFaults
    /\ audit' = IF outcome # "closed" THEN [audit EXCEPT !.cleanup = g] ELSE audit
    /\ raised' = (raised \/ outcome # "closed")
    /\ UNCHANGED <<live, computeVars, campaignVars, runtime, handle>>

(* Mutant: the run is cleaned up when its try block has raised, not when    *)
(* the unwinding has.                                                       *)
UnwoundByStatus(fails) ==
    /\ at = "unwound" /\ ~fails
    /\ at' = IF audit.status # "complete" /\ live THEN "clean" ELSE "retain"
    /\ UNCHANGED <<live, computeVars, campaignVars, hostVars, endVars>>

(* A live run takes a snapshot of its envelope, which may raise.  An error  *)
(* makes the audit "aborted", whatever it said, and the remote calls of a   *)
(* live run are cleaned up.                                                 *)
Unwound(fails) ==
    /\ at = "unwound"
    /\ fails => live /\ pilotFaults < MaxPilotFaults
    /\ pilotFaults' = IF fails THEN pilotFaults + 1 ELSE pilotFaults
    /\ raised' = (raised \/ fails)
    /\ at' = IF raised' /\ live THEN "clean" ELSE "retain"
    /\ audit' = IF raised' THEN [audit EXCEPT !.status = "aborted"] ELSE audit
    /\ UNCHANGED <<live, computeVars, campaignVars, hostVars>>

(* Mutant: a call whose id was not recorded was not made.                   *)
CleanedByRecord(q) ==
    CASE request[q] \in {"registered", "issued", "spawned"} -> "not_dispatched"
      [] request[q] \in {"complete", "failed", "disowned"} -> "verified"
      [] request[q] = "running" -> "cancellation_requested"

(* cleanup() of one request of the inventory: nothing for a request whose   *)
(* authority was not consumed or that has terminal evidence, that of a       *)
(* disowned call included; a cancellation of a recorded call, and no more    *)
(* than a mention of an unrecorded one.                                     *)
Cleaned(q) ==
    CASE request[q] \in {"registered", "issued"} -> "not_dispatched"
      [] request[q] \in {"complete", "failed", "disowned"} -> "verified"
      [] request[q] = "running" -> "cancellation_requested"
      [] request[q] = "spawned" -> "unresolved_dispatch"

Seen(q) == \E s \in audit.remote : s[1] = q

Clean(q, fails) ==
    /\ at = "clean" /\ request[q] # "unplanned" /\ ~Seen(q)
    /\ fails => pilotFaults < MaxPilotFaults
    /\ pilotFaults' = IF fails THEN pilotFaults + 1 ELSE pilotFaults
    /\ audit' = [audit EXCEPT !.remote = @ \cup {<<q, IF fails THEN "failed" ELSE Cleaned(q)>>}]
    /\ UNCHANGED <<live, at, computeVars, campaignVars, hostVars, raised>>

(* cleanup() itself raises: the audit says that much.                       *)
CleanupRaises ==
    /\ Advances("clean", "retain")
    /\ pilotFaults < MaxPilotFaults
    /\ pilotFaults' = pilotFaults + 1
    /\ audit' = [audit EXCEPT !.remote = {<<q, "failed">> : q \in PilotRequests}]
    /\ UNCHANGED <<live, computeVars, campaignVars, hostVars, raised>>

CleanedUp ==
    /\ Advances("clean", "retain")
    /\ \A q \in PilotRequests : request[q] # "unplanned" => Seen(q)
    /\ UNCHANGED <<live, computeVars, campaignVars, hostVars, endVars>>

RetainAudit ==
    /\ Advances("retain", "retained")
    /\ UNCHANGED <<live, computeVars, campaignVars, hostVars, endVars>>
-----------------------------------------------------------------------------
FallibleSteps == {"admission", "reference", "authorize_reference", "services", "gateways",
                  "agent_job", "plan_public", "authorize_public", "feedback",
                  "plan_hidden", "authorize_hidden", "reconcile", "close_budget",
                  "close_compute", "seal"}

Authorizing(q) ==
    \/ q = Reference /\ (AuthorizeRequest(q, "authorize_reference") \/ AuthorizeFails(q, "authorize_reference"))
    \/ q \in PublicRequests /\ (AuthorizeRequest(q, "authorize_public") \/ AuthorizeFails(q, "authorize_public"))
    \/ q \in HiddenRequests /\ (AuthorizeRequest(q, "authorize_hidden") \/ AuthorizeFails(q, "authorize_hidden"))

PilotNext ==
    \/ \E s \in FallibleSteps : StepRaises(s)
    \/ Admit \/ PlanReference \/ CreateServices \/ StartCampaign
    \/ \E q \in PilotRequests : Authorizing(q)
    \/ \E o \in Dispatched, e \in BOOLEAN : MeasureReference(o, e)
    \/ \E g \in Gates : OpenGate(g)
    \/ \E b \in BOOLEAN : StartFails(b) \/ StopRuntime(b) \/ Unwound(b)
    \/ \E a \in Crew : Submit(a)
    \/ DeliverJobs \/ PlanPublic \/ Feedback \/ DeliverFeedback \/ PlanHidden
    \/ \E a \in Crew, o \in Dispatched, v \in {"complete", "failed", "reserved"} :
          EvaluatePublic(a, o, v)
    \/ \E i \in 1..Len(HiddenPhases), o \in Dispatched : EvaluateHidden(i, o)
    \/ CloseStops \/ CloseBudget \/ CloseCompute \/ SealStorage
    \/ \E s \in {"close_budget", "close_compute"} : Rejected(s)
    \/ \E g \in DOMAIN Closings, o \in {"closed", "raised", "left_open"} : CloseGate(g, o)
    \/ CleanupRaises \/ CleanedUp \/ RetainAudit
    \/ \E q \in PilotRequests, b \in BOOLEAN : Clean(q, b)

PilotSpec == PilotInit /\ [][PilotNext]_pilotVars
-----------------------------------------------------------------------------
(* Whatever raises and whenever agents submit: results are released only    *)
(* when every actor's evaluation is complete and submissions are closed;    *)
(* nothing is spent on the hidden workload before that, nor before the      *)
(* inventory is sealed; and a live call has its allowance.                  *)
PhasesAreEarned ==
    LET Complete(q) == request[q] = "complete"
    IN  /\ released # {} =>
               /\ intake = "closed" /\ admitted = Team
               /\ \A a \in Team : reservation[a] = "complete" /\ Complete(<<"public", a>>)
        /\ \A q \in PublicRequests : request[q] # "unplanned" => Complete(Reference)
        /\ \A q \in HiddenRequests : request[q] # "unplanned" => sealedRoutes /\ released = Team
        /\ live => \A q \in PilotRequests :
                       request[q] \in {"issued"} \cup Dispatched => q \in paid

(* A run whose audit says complete has nothing open: the runtime is         *)
(* stopped, its gateways have closed without an error, the campaign is      *)
(* closed, and every request of its inventory is complete.                  *)
CompleteIsClosed ==
    at = "retained" /\ audit.status = "complete" =>
        /\ runtime = "stopped" /\ gates = {} /\ handle = "closed"
        /\ ~raised /\ audit.cleanup = "none"
        /\ sealedRoutes /\ released = Team
        /\ \A q \in PilotRequests : request[q] \in {"unplanned", "complete"}

(* Whichever step raises, and whatever raises while the run is unwound: a    *)
(* gateway that is open after an abort shows as a failed cleanup, a runtime  *)
(* that still runs shows as one or as a failure of two errors, and a remote  *)
(* call without terminal evidence is told of by its own result.  (Of a call  *)
(* that was disowned the audit says terminal evidence, and it may run on.)   *)
AbortIsTold ==
    at = "retained" /\ audit.status # "complete" =>
        /\ gates # {} => audit.cleanup # "none"
        /\ runtime = "running" => audit.cleanup # "none" \/ audit.uncleaned
        /\ live => \A q \in PilotRequests :
              request[q] \in {"spawned", "running"} =>
                  \E s \in {"cancellation_requested", "unresolved_dispatch", "failed"} :
                      <<q, s>> \in audit.remote
=============================================================================
