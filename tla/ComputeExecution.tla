-------------------------- MODULE ComputeExecution --------------------------
(***************************************************************************)
(* Paid compute: SqliteComputeBackend with its one-use spend authorization *)
(* (SqliteComputeSpendAuthorizationService), the retained routes of a run  *)
(* (SqliteComputeRouteInventory), the evaluators that submit and collect,  *)
(* and the recovery plan made of an aborted run.                           *)
(*                                                                         *)
(* Several callers may work on one request.  The execution rows and the    *)
(* authorizations are two databases; the provider starts and ends calls on *)
(* its own.  A caller's step may raise, and the process may die, anywhere. *)
(*                                                                         *)
(* Left out: digests and evidence documents, whose comparisons detect      *)
(* tampering; the measured seconds; the cancellation of calls on abort,    *)
(* which changes no ledger.                                                *)
(***************************************************************************)
EXTENDS Naturals

CONSTANTS Requests,    \* the compute requests a run can plan
          Callers,     \* evaluators, and threads of them
          NoRequest

ASSUME NoRequestAssumption == NoRequest \notin Requests

VARIABLES registered,  \* route_requests of the inventory
          sealed,      \* its seal_digest is set
          spend,       \* compute_spend_authorizations.status
          exec,        \* compute_executions.status, "none" without a row
          acked,       \* its rows with an external_call_id
          flying,      \* its dispatch commands (processes) that still run
          started,     \* how often the provider was made to run the request
          outcome,     \* what the provider made of it
          bundle,      \* the terminal evidence retained of each request
          at,          \* where each caller is in its evaluation
          doing,       \* the request it evaluates
          closed,      \* the evaluation closure has reconciled
          ended,       \* the run is aborted and its process is gone
          plan         \* the recovery plan of the ended run

rowVars      == <<spend, exec, acked>>
providerVars == <<flying, started, outcome>>
callVars     == <<at, doing>>
runVars      == <<registered, sealed, closed, ended, plan>>
executionVars == <<rowVars, providerVars, bundle, callVars, runVars>>

(* 'registered' is never stored: the same transaction makes it 'dispatching'. *)
ExecutionStatuses == {"none", "dispatching", "dispatched", "complete", "failed", "ambiguous"}
Finished == {"complete", "failed", "ambiguous"}
Ended    == {"complete", "failed", "replaceable"}
Outcomes == {"none", "running"} \cup Ended
Bundles  == {"none", "error"} \cup Ended    \* "error": asking for the result raised
Owning   == {"claimed", "authorized", "sending", "sent", "rejecting", "doubting"}
Places   == {"idle", "submitting", "polling", "collected"} \cup Owning

NoPlan == [made |-> FALSE, missing |-> {}, replaced |-> {}]

ExecutionInit ==
    /\ registered = {}
    /\ sealed = FALSE
    /\ spend = [r \in Requests |-> "none"]
    /\ exec = [r \in Requests |-> "none"]
    /\ acked = {}
    /\ flying = {}
    /\ started = [r \in Requests |-> 0]
    /\ outcome = [r \in Requests |-> "none"]
    /\ bundle = [r \in Requests |-> "none"]
    /\ at = [c \in Callers |-> "idle"]
    /\ doing = [c \in Callers |-> NoRequest]
    /\ closed = FALSE
    /\ ended = FALSE
    /\ plan = NoPlan

-----------------------------------------------------------------------------
(* The host retains a route, seals the inventory, approves a request.       *)
Register(R) ==
    /\ ~ ended
    /\ ~ sealed
    /\ R # {} /\ R \cap registered = {}
    /\ registered' = registered \cup R
    /\ UNCHANGED <<rowVars, providerVars, bundle, callVars, sealed, closed, ended, plan>>

Seal ==
    /\ ~ ended
    /\ sealed' = TRUE
    /\ UNCHANGED <<rowVars, providerVars, bundle, callVars, registered, closed, ended, plan>>

IssueSpend(r) ==
    /\ ~ ended
    /\ r \in registered
    /\ spend[r] = "none"
    /\ spend' = [spend EXCEPT ![r] = "issued"]
    /\ UNCHANGED <<exec, acked, providerVars, bundle, callVars, runVars>>

-----------------------------------------------------------------------------
(* hidden_evaluate() and its kin: submit until dispatched, then collect.    *)
Call(c, r) ==
    /\ ~ ended
    /\ r \in registered
    /\ at[c] = "idle"
    /\ at' = [at EXCEPT ![c] = "submitting"]
    /\ doing' = [doing EXCEPT ![c] = r]
    /\ UNCHANGED <<rowVars, providerVars, bundle, runVars>>

Goes(c, from, to) ==
    /\ at[c] = from
    /\ at' = [at EXCEPT ![c] = to]
    /\ doing' = IF to = "idle" THEN [doing EXCEPT ![c] = NoRequest] ELSE doing
    /\ UNCHANGED runVars

(* Mutant: a claim that was lost is made again. *)
ClaimAgain(c) ==
    /\ Goes(c, "submitting", "claimed")
    /\ exec[doing[c]] \in {"none", "dispatching"}
    /\ exec' = [exec EXCEPT ![doing[c]] = "dispatching"]
    /\ UNCHANGED <<spend, acked, providerVars, bundle>>

(* submit(): who creates the row dispatches, once. *)
Claim(c) ==
    /\ Goes(c, "submitting", "claimed")
    /\ exec[doing[c]] = "none"
    /\ exec' = [exec EXCEPT ![doing[c]] = "dispatching"]
    /\ UNCHANGED <<spend, acked, providerVars, bundle>>

(* ... everybody else gets the row's status: a dispatch in progress is      *)
(* waited for, a dispatched call is collected, a terminal one ends.         *)
Join(c) ==
    /\ \/ Goes(c, "submitting", "polling") /\ exec[doing[c]] = "dispatched"
       \/ Goes(c, "submitting", "idle") /\ exec[doing[c]] \in Finished
    /\ UNCHANGED <<rowVars, providerVars, bundle>>

(* The transport fails before it takes the authorization. *)
PrepareFails(c) ==
    /\ Goes(c, "claimed", "doubting")
    /\ UNCHANGED <<rowVars, providerVars, bundle>>

(* Mutant: the status of the authorization is not compared. *)
ConsumeUnissued(c) ==
    /\ Goes(c, "claimed", "authorized")
    /\ spend' = [spend EXCEPT ![doing[c]] = IF @ = "issued" THEN "consumed" ELSE @]
    /\ UNCHANGED <<exec, acked, providerVars, bundle>>

Consume(c) ==
    /\ Goes(c, "claimed", "authorized")
    /\ spend[doing[c]] = "issued"
    /\ spend' = [spend EXCEPT ![doing[c]] = "consumed"]
    /\ UNCHANGED <<exec, acked, providerVars, bundle>>

(* No unused authorization: a definitive rejection. *)
ConsumeRefused(c) ==
    /\ Goes(c, "claimed", "rejecting")
    /\ spend[doing[c]] # "issued"
    /\ UNCHANGED <<rowVars, providerVars, bundle>>

(* The dispatch command is a process of its own: it outlives its caller. *)
Launch(c) ==
    /\ Goes(c, "authorized", "sending")
    /\ flying' = flying \cup {doing[c]}
    /\ UNCHANGED <<rowVars, started, outcome, bundle>>

ProviderStarts(r) ==
    /\ r \in flying
    /\ flying' = flying \ {r}
    /\ started' = [started EXCEPT ![r] = @ + 1]
    /\ outcome' = [outcome EXCEPT ![r] = "running"]
    /\ UNCHANGED <<rowVars, bundle, callVars, runVars>>

CommandReturns(c) ==
    /\ Goes(c, "sending", "sent")
    /\ doing[c] \notin flying
    /\ UNCHANGED <<rowVars, providerVars, bundle>>

(* The command cannot be run, fails, is killed at its time limit or leaves  *)
(* no call record, before or after the provider has taken the call.         *)
CommandFails(c) ==
    /\ \E from \in {"authorized", "sending", "sent"} : Goes(c, from, "doubting")
    /\ flying' = flying \ {doing[c]}
    /\ UNCHANGED <<rowVars, started, outcome, bundle>>

RecordDispatch(c) ==
    /\ Goes(c, "sent", "polling")
    /\ exec[doing[c]] = "dispatching"
    /\ exec' = [exec EXCEPT ![doing[c]] = "dispatched"]
    /\ acked' = acked \cup {doing[c]}
    /\ UNCHANGED <<spend, providerVars, bundle>>

(* A rejection is a failure without a call, all other doubt is ambiguous. *)
RecordUnsent(c, from, status) ==
    /\ Goes(c, from, "idle")
    /\ exec' = [exec EXCEPT ![doing[c]] = IF @ = "dispatching" THEN status ELSE @]
    /\ UNCHANGED <<spend, acked, providerVars, bundle>>

RecordRejected(c)  == RecordUnsent(c, "rejecting", "failed")
RecordAmbiguous(c) == RecordUnsent(c, "doubting", "ambiguous")

(* collect(): a terminal row is returned as it is ... *)
CollectStored(c) ==
    /\ Goes(c, "polling", "idle")
    /\ exec[doing[c]] \in Finished
    /\ UNCHANGED <<rowVars, providerVars, bundle>>

(* ... otherwise retained evidence is used, or the provider is asked and    *)
(* what it answers retained first.  An error of asking, other than of the   *)
(* time limit or the connection, is retained as a failure, although the     *)
(* call may still run or have completed.                                    *)
Poll(c) ==
    /\ Goes(c, "polling", "collected")
    /\ exec[doing[c]] = "dispatched"
    /\ \E found \in {"error"} \cup ({outcome[doing[c]]} \cap Ended) :
           bundle' = [bundle EXCEPT ![doing[c]] = IF @ = "none" THEN found ELSE @]
    /\ UNCHANGED <<rowVars, providerVars>>

PollRaises(c) ==
    /\ Goes(c, "polling", "idle")
    /\ UNCHANGED <<rowVars, providerVars, bundle>>

Verdict(o) == IF o = "complete" THEN "complete" ELSE "failed"

RecordOutcome(c) ==
    /\ Goes(c, "collected", "idle")
    /\ exec' = [exec EXCEPT ![doing[c]] =
                   IF @ = "dispatched" THEN Verdict(bundle[doing[c]]) ELSE @]
    /\ UNCHANGED <<spend, acked, providerVars, bundle>>

(* Mutant: the deadline is only looked at between two polls. *)
GiveUpPolling(c) ==
    /\ Goes(c, "polling", "idle")
    /\ exec[doing[c]] = "dispatched"
    /\ UNCHANGED <<rowVars, providerVars, bundle>>

(* The caller's deadline passes: EvaluationInProgress. *)
GiveUp(c) ==
    /\ \E from \in {"submitting", "polling"} : Goes(c, from, "idle")
    /\ exec[doing[c]] \in {"dispatching", "dispatched"}
    /\ UNCHANGED <<rowVars, providerVars, bundle>>

(* A transaction fails, and the call raises. *)
TransactionFails(c) ==
    /\ \E from \in {"submitting", "sent", "rejecting", "doubting", "collected"} :
           Goes(c, from, "idle")
    /\ UNCHANGED <<rowVars, providerVars, bundle>>

-----------------------------------------------------------------------------
(* The provider ends a call; it may reject its environment (driver_version  *)
(* differs), which recovery may replace.                                    *)
ProviderEnds(r, o) ==
    /\ outcome[r] = "running"
    /\ outcome' = [outcome EXCEPT ![r] = o]
    /\ UNCHANGED <<rowVars, flying, started, bundle, callVars, runVars>>

(* The process dies, and may be started again; or the run is aborted. *)
CallersGone ==
    /\ at' = [c \in Callers |-> "idle"]
    /\ doing' = [c \in Callers |-> NoRequest]
    /\ UNCHANGED <<rowVars, providerVars, bundle>>

ProcessDies ==
    /\ CallersGone
    /\ UNCHANGED runVars

Abort ==
    /\ ~ ended /\ ~ closed
    /\ CallersGone
    /\ ended' = TRUE
    /\ UNCHANGED <<registered, sealed, closed, plan>>

-----------------------------------------------------------------------------
(* CandidateEvaluationClosure.reconcile() over all sealed routes: the rows   *)
(* are the planned requests, and all of them completed.                      *)
(* Mutant: only the rows there are. *)
ReconcilesRows == \A r \in registered : exec[r] \in {"none", "complete"}

Reconciles == \A r \in registered : exec[r] = "complete"

Close ==
    /\ ~ ended
    /\ sealed /\ registered # {}
    /\ Reconciles
    /\ closed' = TRUE
    /\ UNCHANGED <<rowVars, providerVars, bundle, callVars, registered, sealed, ended, plan>>

(* plan_evaluation_recovery(): work that is missing may be executed anew, a *)
(* rejected environment replaced, verified results are reused; anything     *)
(* uncertain refuses the plan.                                              *)
(* Mutant: a claim without a recorded call counts as missing. *)
MissingOrLost(r) == exec[r] \in {"none", "dispatching"}

Missing(r)     == exec[r] = "none" /\ spend[r] # "consumed"
Retained(r, o) == exec[r] = "dispatched" /\ bundle[r] = o
Reusable(r)    == exec[r] = "complete" \/ Retained(r, "complete")
Paid(r)        == spend[r] = "consumed" /\ (Reusable(r) \/ Retained(r, "replaceable"))

Plan ==
    /\ ended /\ sealed
    /\ \A r \in registered : Missing(r) \/ Paid(r)
    /\ plan' = [made |-> TRUE,
                missing |-> {r \in registered : Missing(r)},
                replaced |-> {r \in registered : Retained(r, "replaceable")}]
    /\ UNCHANGED <<rowVars, providerVars, bundle, callVars, registered, sealed, closed, ended>>

-----------------------------------------------------------------------------
Proceed(c) ==
    \/ Claim(c)
    \/ Join(c)
    \/ Consume(c)
    \/ ConsumeRefused(c)
    \/ Launch(c)
    \/ CommandReturns(c)
    \/ CommandFails(c)
    \/ RecordDispatch(c)
    \/ RecordRejected(c)
    \/ RecordAmbiguous(c)
    \/ CollectStored(c)
    \/ Poll(c)
    \/ RecordOutcome(c)
    \/ GiveUp(c)

Fail(c) ==
    \/ PrepareFails(c)
    \/ PollRaises(c)
    \/ TransactionFails(c)

Caller(c) == Proceed(c) \/ Fail(c)

Host ==
    \/ \E R \in SUBSET Requests : Register(R)
    \/ Seal
    \/ \E r \in Requests : IssueSpend(r)
    \/ Close
    \/ ProcessDies
    \/ Abort
    \/ Plan

ExecutionNext ==
    \/ Host
    \/ \E c \in Callers, r \in Requests : Call(c, r)
    \/ \E c \in Callers : Caller(c)
    \/ \E r \in Requests : ProviderStarts(r)
    \/ \E r \in Requests, o \in Ended : ProviderEnds(r, o)

ExecutionSpec == ExecutionInit /\ [][ExecutionNext]_executionVars

-----------------------------------------------------------------------------
(* Every variable has its type; the row of a dispatched or collected        *)
(* request names its call, and one caller at most owns a claim.             *)
ExecutionTypeOK ==
    /\ registered \subseteq Requests
    /\ sealed \in BOOLEAN
    /\ spend \in [Requests -> {"none", "issued", "consumed"}]
    /\ exec \in [Requests -> ExecutionStatuses]
    /\ acked \subseteq Requests
    /\ flying \subseteq Requests
    /\ started \in [Requests -> Nat]
    /\ outcome \in [Requests -> Outcomes]
    /\ bundle \in [Requests -> Bundles]
    /\ \A r \in Requests : bundle[r] # "none" => r \in acked
    /\ at \in [Callers -> Places]
    /\ doing \in [Callers -> Requests \cup {NoRequest}]
    /\ \A c \in Callers : at[c] = "idle" <=> doing[c] = NoRequest
    /\ \A c, d \in Callers :
           at[c] \in Owning /\ at[d] \in Owning /\ doing[c] = doing[d] => c = d
    /\ \A r \in Requests : exec[r] \in {"dispatched", "complete"} => r \in acked
    /\ closed \in BOOLEAN
    /\ ended \in BOOLEAN
    /\ plan \in [made : BOOLEAN, missing : SUBSET Requests, replaced : SUBSET Requests]

(* Whoever retries, and wherever the process dies, the provider runs a      *)
(* request at most once, and only against an approval that is used up.      *)
SpendBacksCalls ==
    \A r \in Requests :
        /\ started[r] <= 1
        /\ started[r] = 1 => spend[r] = "consumed" /\ r \in registered

(* The ledger never says what did not happen: a failure without a call is   *)
(* a request the provider never ran, and a completed row is a call that     *)
(* completed.  A failure with a call is the provider's own, unless asking   *)
(* for the result raised: that failure leaves open what became of the call. *)
VerdictsAreTrue ==
    \A r \in Requests :
        /\ exec[r] = "none" => started[r] = 0
        /\ exec[r] = "failed" /\ r \notin acked => started[r] = 0
        /\ r \in acked => started[r] = 1
        /\ exec[r] = "complete" => outcome[r] = "complete"
        /\ exec[r] = "failed" /\ r \in acked
               => bundle[r] = "error" \/ outcome[r] \in {"failed", "replaceable"}

(* A terminal row never changes, nor does retained evidence or a used       *)
(* authorization: an uncertain dispatch is not tried again.                 *)
OutcomesAreFinal ==
    [][\A r \in Requests :
           /\ exec[r] \in Finished => exec'[r] = exec[r]
           /\ bundle[r] # "none" => bundle'[r] = bundle[r]
           /\ spend[r] = "consumed" => spend'[r] = "consumed"
           /\ r \in acked => r \in acked']_executionVars

(* A run closes only over requests that were each approved, run once and    *)
(* completed; none is in flight or forgotten.                               *)
ClosedIsComplete ==
    closed => \A r \in Requests :
                  IF r \in registered
                  THEN started[r] = 1 /\ outcome[r] = "complete" /\ spend[r] = "consumed"
                  ELSE started[r] = 0

(* What a recovery plan has executed anew was never run, what it replaces   *)
(* was rejected by the provider, and what it reuses has completed.          *)
PlanRepaysNothing ==
    plan.made => \A r \in registered :
        /\ r \in plan.missing => started[r] = 0
        /\ r \in plan.replaced => outcome[r] = "replaceable"
        /\ r \notin plan.missing \cup plan.replaced => outcome[r] = "complete"

(* A caller goes on: its steps, the time limit of its dispatch command and  *)
(* its own deadline are not put off for ever.  That a step fails is never   *)
(* assumed, nor that the provider takes or ends a call.                     *)
ExecutionFairness == \A c \in Callers : WF_executionVars(Proceed(c))

ExecutionFairSpec == ExecutionSpec /\ ExecutionFairness

(* Every evaluation returns, also when it waits for a dispatch whose owner  *)
(* has failed or died.                                                      *)
CallsReturn == \A c \in Callers : at[c] # "idle" ~> at[c] = "idle"
=============================================================================
