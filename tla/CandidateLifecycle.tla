------------------------- MODULE CandidateLifecycle -------------------------
(***************************************************************************)
(* SqliteSubmissionRegistry over SqliteComputeBroker and an evaluator: the *)
(* admission, visible evaluation, closure, selection and hidden evaluation *)
(* of candidate artifacts.  Registry and broker are two databases without  *)
(* a common transaction; every operation that writes both is a sequence of *)
(* steps between which another call runs, a step fails or the process dies.*)
(*                                                                         *)
(* A candidate is one (actor, job, idempotency key); candidates are        *)
(* numbered in the order of their artifact digests, and 0 is the reference *)
(* artifact of every job.  At most one call works on a candidate at a time *)
(* (the session gateway serialises an actor's calls, the host evaluates    *)
(* when the tools do not); calls for different candidates, and close(),    *)
(* interleave freely.  A visible evaluation reserves one fixed slot.       *)
(*                                                                         *)
(* Left out: artifacts and digests, whose comparisons only detect tampered *)
(* databases, compute.cancel(), which has no caller, and the release of    *)
(* visible results to the agents.                                          *)
(***************************************************************************)
EXTENDS Integers, FiniteSets

CONSTANTS Jobs,
          Actors,
          NumCandidates,
          JobOf,            \* the job each candidate is submitted for
          Owner,            \* the actor that submits it
          CandidateLimit,   \* policy.per_actor_candidate_limit
          VisibleSlots,     \* the visible evaluations an actor's plan affords
          HiddenSlots,      \* the hidden evaluations the plan affords
          Results,          \* criterion units, 0 for an ineligible result
          MaxFaults,        \* bound on failed broker and registry transactions
          MaxCrashes        \* bound on process deaths

Candidates == 1..NumCandidates
Reference  == 0
Artifacts  == Candidates \cup {Reference}
None       == -1

ASSUME RosterAssumption ==
    /\ NumCandidates \in Nat
    /\ JobOf \in [Candidates -> Jobs]
    /\ Owner \in [Candidates -> Actors]
ASSUME LimitAssumption ==
    /\ CandidateLimit \in Nat \ {0}
    /\ VisibleSlots \in [Actors -> Nat]
    /\ HiddenSlots \in Nat
    /\ MaxFaults \in Nat
    /\ MaxCrashes \in Nat
ASSUME ResultAssumption == Results \subseteq Nat

VARIABLES measured,       \* what the evaluator measures for each artifact
          admission,      \* candidates.admission_status, "none" without a row
          receipt,        \* the candidates with a visible_evaluation_receipt
          failed,         \* the candidates with an evaluation_failure
          closed,         \* the closed submission jobs
          selection,      \* the persisted selection of each job
          hidden,         \* the artifact of each job's hidden receipt
          visible,        \* status of each candidate's visible reservation
          hiddenCompute,  \* status of each job's hidden reservation
          at,             \* where the running call for a candidate is
          hat,            \* where the running hidden evaluation of a job is
          faults,
          crashes

registryVars == <<admission, receipt, failed, closed, selection, hidden>>
brokerVars   == <<visible, hiddenCompute>>
boundVars    == <<faults, crashes>>
vars == <<measured, registryVars, brokerVars, at, hat, boundVars>>

ComputeStatuses == {"none", "reserved", "complete", "failed"}
CallPlaces   == {"idle", "reserving", "admitting", "evaluating", "completing",
                 "recording", "failing", "recording_failure"}
HiddenPlaces == {"idle", "evaluating", "completing", "recording", "failing"}

Rows(j)        == {c \in Candidates : JobOf[c] = j /\ admission[c] # "none"}
RowsOf(a, j)   == {c \in Rows(j) : Owner[c] = a}
Committed(a)   == {c \in Candidates : Owner[c] = a /\ visible[c] # "none"}
HiddenCommitted == {j \in Jobs : hiddenCompute[j] # "none"}

Init ==
    /\ measured \in [Artifacts -> Results]
    /\ admission = [c \in Candidates |-> "none"]
    /\ receipt = {}
    /\ failed = {}
    /\ closed = {}
    /\ selection = [j \in Jobs |-> None]
    /\ hidden = [j \in Jobs |-> None]
    /\ visible = [c \in Candidates |-> "none"]
    /\ hiddenCompute = [j \in Jobs |-> "none"]
    /\ at = [c \in Candidates |-> "idle"]
    /\ hat = [j \in Jobs |-> "idle"]
    /\ faults = 0
    /\ crashes = 0

-----------------------------------------------------------------------------
(* The call for candidate c moves on; what else changes is the caller's. *)
Goes(c, from, to) ==
    /\ at[c] = from
    /\ at' = [at EXCEPT ![c] = to]
    /\ UNCHANGED <<measured, closed, selection, hidden, hiddenCompute, hat, crashes>>

(* submit(): a provisional row first; a retry takes the row up again.       *)
Submit(c) ==
    /\ JobOf[c] \notin closed
    /\ \/ admission[c] = "provisional"
       \/ /\ admission[c] = "none"
          /\ Cardinality(RowsOf(Owner[c], JobOf[c])) < CandidateLimit
    /\ Goes(c, "idle", "reserving")
    /\ admission' = [admission EXCEPT ![c] = "provisional"]
    /\ UNCHANGED <<receipt, failed, visible, faults>>

(* The broker returns the reservation of the key, or makes it if the        *)
(* actor's allowance still has room.                                        *)
ReserveVisible(c) ==
    /\ Goes(c, "reserving", "admitting")
    /\ \/ visible[c] # "none"
       \/ Cardinality(Committed(Owner[c])) < VisibleSlots[Owner[c]]
    /\ visible' = [visible EXCEPT ![c] = IF @ = "none" THEN "reserved" ELSE @]
    /\ UNCHANGED <<admission, receipt, failed, faults>>

(* Mutant: the refusal of the broker is not noticed. *)
ReserveRefusedIgnored(c) ==
    /\ Goes(c, "reserving", "admitting")
    /\ visible[c] = "none"
    /\ Cardinality(Committed(Owner[c])) >= VisibleSlots[Owner[c]]
    /\ UNCHANGED <<admission, receipt, failed, visible, faults>>

ReserveRefused(c) ==
    /\ Goes(c, "reserving", "idle")
    /\ visible[c] = "none"
    /\ Cardinality(Committed(Owner[c])) >= VisibleSlots[Owner[c]]
    /\ UNCHANGED <<admission, receipt, failed, visible, faults>>

Admit(c) ==
    /\ Goes(c, "admitting", "idle")
    /\ admission' = [admission EXCEPT ![c] = "admitted"]
    /\ UNCHANGED <<receipt, failed, visible, faults>>

-----------------------------------------------------------------------------
(* evaluate_visible(). *)
Evaluate(c) ==
    /\ admission[c] = "admitted"
    /\ c \notin receipt \cup failed
    /\ Goes(c, "idle", "evaluating")
    /\ UNCHANGED <<admission, receipt, failed, visible, faults>>

EvaluationInProgress(c) ==
    /\ Goes(c, "evaluating", "idle")
    /\ UNCHANGED <<admission, receipt, failed, visible, faults>>

EvaluationSucceeds(c) ==
    /\ Goes(c, "evaluating", "completing")
    /\ UNCHANGED <<admission, receipt, failed, visible, faults>>

(* The evaluator, the artifact read or the reservation lookup raises. *)
EvaluationFails(c) ==
    /\ Goes(c, "evaluating", "failing")
    /\ UNCHANGED <<admission, receipt, failed, visible, faults>>

(* compute.fail(); its own failure is suppressed. *)
FailCompute(c) ==
    /\ Goes(c, "failing", "recording_failure")
    /\ visible' = [visible EXCEPT ![c] = IF @ = "reserved" THEN "failed" ELSE @]
    /\ UNCHANGED <<admission, receipt, failed, faults>>

FailComputeSuppressed(c) ==
    /\ faults < MaxFaults
    /\ Goes(c, "failing", "recording_failure")
    /\ faults' = faults + 1
    /\ UNCHANGED <<admission, receipt, failed, visible>>

RecordFailure(c) ==
    /\ Goes(c, "recording_failure", "idle")
    /\ failed' = IF c \in receipt THEN failed ELSE failed \cup {c}
    /\ UNCHANGED <<admission, receipt, visible, faults>>

(* compute.complete() is idempotent, and raises on a failed reservation. *)
CompleteCompute(c) ==
    /\ visible[c] \in {"reserved", "complete"}
    /\ Goes(c, "completing", "recording")
    /\ visible' = [visible EXCEPT ![c] = "complete"]
    /\ UNCHANGED <<admission, receipt, failed, faults>>

CompleteRefused(c) ==
    /\ visible[c] = "failed"
    /\ Goes(c, "completing", "idle")
    /\ UNCHANGED <<admission, receipt, failed, visible, faults>>

RecordReceipt(c) ==
    /\ Goes(c, "recording", "idle")
    /\ receipt' = IF c \in failed THEN receipt ELSE receipt \cup {c}
    /\ UNCHANGED <<admission, failed, visible, faults>>

(* A transaction of the registry or of the broker fails: the call raises. *)
TransactionFails(c) ==
    /\ faults < MaxFaults
    /\ \E from \in CallPlaces \ {"idle", "evaluating", "failing"} : Goes(c, from, "idle")
    /\ faults' = faults + 1
    /\ UNCHANGED <<admission, receipt, failed, visible>>

-----------------------------------------------------------------------------
(* _validate_compute_bindings(): the visible reservations of the CAMPAIGN   *)
(* are those of the job's candidates, which are all admitted and whose      *)
(* evaluations are terminal in both databases.                              *)
Settled(c) ==
    /\ admission[c] = "admitted"
    /\ \/ c \in receipt /\ visible[c] = "complete"
       \/ c \in failed \ receipt /\ visible[c] = "failed"

BindingsHold(j) ==
    /\ \A c \in Rows(j) : Settled(c)
    /\ {c \in Candidates : visible[c] # "none"} = Rows(j)

Close(j) ==
    /\ j \notin closed
    /\ BindingsHold(j)
    /\ closed' = closed \cup {j}
    /\ UNCHANGED <<measured, admission, receipt, failed, selection, hidden, brokerVars,
                   at, hat, boundVars>>

(* _derive_selection(): best criterion first, then digest order; the        *)
(* reference wins ties when it is eligible.                                 *)
Eligible(j) == {c \in Rows(j) : c \in receipt \ failed /\ measured[c] > 0}

Precedes(c, d) ==
    measured[c] > measured[d] \/ (measured[c] = measured[d] /\ c <= d)

Best(S) == CHOOSE c \in S : \A d \in S : Precedes(c, d)

(* Mutant: a tie goes to the candidate. *)
DerivedTies(j) ==
    IF Eligible(j) = {} \/ measured[Reference] > measured[Best(Eligible(j))]
    THEN Reference
    ELSE Best(Eligible(j))

Derived(j) ==
    IF Eligible(j) = {} \/ (measured[Reference] > 0
                            /\ measured[Reference] >= measured[Best(Eligible(j))])
    THEN Reference
    ELSE Best(Eligible(j))

(* select() closes once more and stores, or compares with, the selection. *)
Select(j) ==
    /\ j \in closed
    /\ BindingsHold(j)
    /\ selection[j] = None
    /\ selection' = [selection EXCEPT ![j] = Derived(j)]
    /\ UNCHANGED <<measured, admission, receipt, failed, closed, hidden, brokerVars,
                   at, hat, boundVars>>

-----------------------------------------------------------------------------
(* evaluate_hidden(): the selection is recomputed, the hidden compute       *)
(* reserved, the selected artifact evaluated and its receipt stored.        *)
HiddenGoes(j, from, to) ==
    /\ hat[j] = from
    /\ hat' = [hat EXCEPT ![j] = to]
    /\ UNCHANGED <<measured, admission, receipt, failed, closed, selection, visible,
                   at, crashes>>

Authoritative(j) == selection[j] # None /\ BindingsHold(j) /\ Derived(j) = selection[j]

EvaluateHidden(j) ==
    /\ Authoritative(j)
    /\ hidden[j] = None
    /\ \/ hiddenCompute[j] # "none"
       \/ Cardinality(HiddenCommitted) < HiddenSlots
    /\ HiddenGoes(j, "idle", "evaluating")
    /\ hiddenCompute' = [hiddenCompute EXCEPT ![j] = IF @ = "none" THEN "reserved" ELSE @]
    /\ UNCHANGED <<hidden, faults>>

HiddenInProgress(j) ==
    /\ HiddenGoes(j, "evaluating", "idle")
    /\ UNCHANGED <<hidden, hiddenCompute, faults>>

HiddenSucceeds(j) ==
    /\ HiddenGoes(j, "evaluating", "completing")
    /\ UNCHANGED <<hidden, hiddenCompute, faults>>

(* compute.fail(), whose failure is raised here. *)
HiddenFails(j) ==
    /\ HiddenGoes(j, "evaluating", "idle")
    /\ hiddenCompute' = [hiddenCompute EXCEPT ![j] = IF @ = "reserved" THEN "failed" ELSE @]
    /\ UNCHANGED <<hidden, faults>>

HiddenCompletes(j) ==
    /\ hiddenCompute[j] \in {"reserved", "complete"}
    /\ HiddenGoes(j, "completing", "recording")
    /\ hiddenCompute' = [hiddenCompute EXCEPT ![j] = "complete"]
    /\ UNCHANGED <<hidden, faults>>

HiddenRefused(j) ==
    /\ hiddenCompute[j] = "failed"
    /\ HiddenGoes(j, "completing", "idle")
    /\ UNCHANGED <<hidden, hiddenCompute, faults>>

RecordHidden(j) ==
    /\ HiddenGoes(j, "recording", "idle")
    /\ hidden' = [hidden EXCEPT ![j] = selection[j]]
    /\ UNCHANGED <<hiddenCompute, faults>>

HiddenTransactionFails(j) ==
    /\ faults < MaxFaults
    /\ \E from \in {"completing", "recording"} : HiddenGoes(j, from, "idle")
    /\ faults' = faults + 1
    /\ UNCHANGED <<hidden, hiddenCompute>>

-----------------------------------------------------------------------------
(* The process dies: the calls are gone, both databases stay. *)
Crash ==
    /\ crashes < MaxCrashes
    /\ crashes' = crashes + 1
    /\ at' = [c \in Candidates |-> "idle"]
    /\ hat' = [j \in Jobs |-> "idle"]
    /\ UNCHANGED <<measured, registryVars, brokerVars, faults>>

Admission(c) ==
    \/ Submit(c)
    \/ ReserveVisible(c)
    \/ ReserveRefused(c)
    \/ Admit(c)

Evaluation(c) ==
    \/ Evaluate(c)
    \/ EvaluationInProgress(c)
    \/ EvaluationSucceeds(c)
    \/ EvaluationFails(c)
    \/ FailCompute(c)
    \/ FailComputeSuppressed(c)
    \/ RecordFailure(c)
    \/ CompleteCompute(c)
    \/ CompleteRefused(c)
    \/ RecordReceipt(c)

HiddenEvaluation(j) ==
    \/ EvaluateHidden(j)
    \/ HiddenInProgress(j)
    \/ HiddenSucceeds(j)
    \/ HiddenFails(j)
    \/ HiddenCompletes(j)
    \/ HiddenRefused(j)
    \/ RecordHidden(j)
    \/ HiddenTransactionFails(j)

Next ==
    \/ \E c \in Candidates : Admission(c)
    \/ \E c \in Candidates : Evaluation(c)
    \/ \E c \in Candidates : TransactionFails(c)
    \/ \E j \in Jobs : Close(j)
    \/ \E j \in Jobs : Select(j)
    \/ \E j \in Jobs : HiddenEvaluation(j)
    \/ Crash

Spec == Init /\ [][Next]_vars

-----------------------------------------------------------------------------
(* Every variable has its type, and a call is at a place its candidate's    *)
(* admission allows.                                                        *)
CandidateTypeOK ==
    /\ measured \in [Artifacts -> Results]
    /\ admission \in [Candidates -> {"none", "provisional", "admitted"}]
    /\ receipt \subseteq Candidates
    /\ failed \subseteq Candidates
    /\ closed \subseteq Jobs
    /\ selection \in [Jobs -> Artifacts \cup {None}]
    /\ hidden \in [Jobs -> Artifacts \cup {None}]
    /\ visible \in [Candidates -> ComputeStatuses]
    /\ hiddenCompute \in [Jobs -> ComputeStatuses]
    /\ at \in [Candidates -> CallPlaces]
    /\ \A c \in Candidates : CASE at[c] = "idle" -> TRUE
                             [] at[c] \in {"reserving", "admitting"} -> admission[c] = "provisional"
                             [] OTHER -> admission[c] = "admitted"
    /\ hat \in [Jobs -> HiddenPlaces]
    /\ faults \in 0..MaxFaults
    /\ crashes \in 0..MaxCrashes

(* Whatever step fails and wherever the process dies, the two databases     *)
(* stay bound: no reservation without a candidate row, no admission without *)
(* a reservation, no reservation used twice, no receipt without completed   *)
(* compute, and no candidate with both verdicts.                            *)
VerdictsAreBacked ==
    \A c \in Candidates :
        /\ visible[c] # "none" => admission[c] # "none"
        /\ admission[c] = "admitted" => visible[c] # "none"
        /\ c \in receipt => visible[c] = "complete" /\ c \notin failed
        /\ visible[c] \in {"complete", "failed"} => admission[c] = "admitted"

(* As long as no transaction failed and no process died, a failed           *)
(* evaluation has failed in both databases, so that its job can be closed.  *)
FailuresAgree ==
    faults + crashes = 0 => \A c \in failed : visible[c] = "failed"

(* A closed job is settled for good: no retry, late evaluation or restart   *)
(* changes a verdict, an admission or a reservation that the selection is   *)
(* recomputed from.                                                         *)
ClosedIsFinal ==
    [][\A c \in Candidates : JobOf[c] \in closed
           => /\ admission'[c] = admission[c]
              /\ visible'[c] = visible[c]
              /\ (c \in receipt') = (c \in receipt)
              /\ (c \in failed') = (c \in failed)]_vars

(* A persisted selection names the best result of the closed job: no        *)
(* receipt of it beats the selected artifact, a candidate is selected only  *)
(* if it is eligible and beats the reference, and recomputing the selection *)
(* later yields the same.                                                   *)
SelectionIsBest ==
    \A j \in Jobs : selection[j] # None =>
        /\ j \in closed
        /\ selection[j] = Derived(j)
        /\ \A c \in Rows(j) : c \in receipt => measured[c] <= measured[selection[j]]
        /\ selection[j] # Reference => /\ selection[j] \in receipt \ failed
                                       /\ measured[selection[j]] > measured[Reference]

(* A hidden receipt is the selected artifact's, and its compute is paid. *)
HiddenIsOfSelection ==
    \A j \in Jobs : hidden[j] # None =>
        /\ j \in closed
        /\ hidden[j] = selection[j]
        /\ hiddenCompute[j] = "complete"

(* docs/MODULE_CONTRACTS.md, Submission registry: closure is refused        *)
(* "unless every visible reservation corresponds to exactly one admitted    *)
(* candidate and has a matching terminal evaluation state": when every      *)
(* candidate with a row or a reservation is in that state, a job closes.    *)
SettledJobsClose ==
    (\A c \in Candidates : (admission[c] = "none" /\ visible[c] = "none") \/ Settled(c))
        => \A j \in Jobs : BindingsHold(j)
=============================================================================
