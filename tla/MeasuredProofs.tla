--------------------------- MODULE MeasuredProofs ---------------------------
(***************************************************************************)
(* How a candidate is judged and what is measured of it, proved for every  *)
(* roster and allowance, every number of commands, repetitions, attempts   *)
(* and calls, and any number of faults.                                    *)
(*                                                                         *)
(* Candidates.  Registry and broker agree on every candidate wherever its  *)
(* evaluation is, one place per call, until the job is closed; the         *)
(* selection is then derived from rows no step changes.                    *)
(*                                                                         *)
(* Remote evidence.  Evidence is written once, the files first, then their *)
(* manifest, then the normalised document, then the local bundle, so what  *)
(* a command has found stays as it found it whoever else works on the same *)
(* attempt; and an attempt is only ever begun when those before it are     *)
(* committed and invalid.                                                  *)
(***************************************************************************)
EXTENDS CandidateLifecycle, RemoteEvidence, RosterTotalsProofs

-----------------------------------------------------------------------------
(* Candidates.                                                             *)

CandidateTypes ==
    /\ measured \in [Artifacts -> Results]
    /\ admission \in [Candidates -> {"none", "provisional", "admitted"}]
    /\ receipt \subseteq Candidates
    /\ failed \subseteq Candidates
    /\ closed \subseteq Jobs
    /\ selection \in [Jobs -> Artifacts \cup {None}]
    /\ hidden \in [Jobs -> Artifacts \cup {None}]
    /\ visible \in [Candidates -> ComputeStatuses]
    /\ hiddenCompute \in [Jobs -> ComputeStatuses]
    /\ at \in [Candidates -> CallPlaces]
    /\ hat \in [Jobs -> HiddenPlaces]
    /\ faults \in 0..MaxFaults
    /\ crashes \in 0..MaxCrashes

(* Where the call for a candidate is determines what both databases say.   *)
PlaceAgrees(c) ==
    /\ at[c] \in {"reserving", "admitting"} => admission[c] = "provisional"
    /\ at[c] = "admitting" => visible[c] # "none"
    /\ at[c] \in CallPlaces \ {"idle", "reserving", "admitting"}
           => admission[c] = "admitted" /\ c \notin receipt \cup failed
    /\ at[c] = "recording" => visible[c] = "complete"

(* The two rows of a candidate agree.                                      *)
RowsAgree(c) ==
    /\ visible[c] # "none" => admission[c] # "none"
    /\ admission[c] = "admitted" => visible[c] # "none"
    /\ c \in receipt => visible[c] = "complete" /\ c \notin failed
    /\ c \in failed => admission[c] = "admitted"
    /\ visible[c] \in {"complete", "failed"} => admission[c] = "admitted"

(* Without a failed transaction or a crash the broker is never ahead of a  *)
(* candidate without a verdict, except on the way to it.                   *)
UndisturbedAgrees(c) ==
    faults + crashes = 0 =>
        /\ c \in failed => visible[c] = "failed"
        /\ at[c] = "recording_failure" => visible[c] = "failed"
        /\ c \notin receipt \cup failed /\ at[c] \notin {"recording", "recording_failure"}
               => visible[c] \in {"none", "reserved"}

(* A closed job has settled candidates only.                               *)
ClosedIsSettled(c) == JobOf[c] \in closed => admission[c] = "none" \/ Settled(c)

Bound(c) == PlaceAgrees(c) /\ RowsAgree(c) /\ UndisturbedAgrees(c) /\ ClosedIsSettled(c)

(* A hidden evaluation runs, and ends, for a selection that is there.      *)
HiddenAgrees(j) ==
    /\ selection[j] # None => j \in closed
    /\ hat[j] # "idle" => selection[j] # None /\ hidden[j] = None
    /\ hat[j] = "recording" => hiddenCompute[j] = "complete"
    /\ hidden[j] # None => /\ selection[j] # None
                           /\ hidden[j] = selection[j]
                           /\ hiddenCompute[j] = "complete"

CandidatesBound == \A c \in Candidates : Bound(c)
HiddenBound     == \A j \in Jobs : HiddenAgrees(j)

CandidateInv == CandidateTypes /\ CandidatesBound /\ HiddenBound
-----------------------------------------------------------------------------
(* Both databases are empty at the start.                                  *)
THEOREM InitCandidate == Init => CandidateInv
<1>. SUFFICES ASSUME Init PROVE CandidateInv
  OBVIOUS
<1>1. CandidateTypes
  BY LimitAssumption DEF Init, CandidateTypes, ComputeStatuses, CallPlaces, HiddenPlaces
<1>2. CandidatesBound
  BY DEF Init, CandidatesBound, Bound, PlaceAgrees, RowsAgree, UndisturbedAgrees,
     ClosedIsSettled
<1>3. HiddenBound
  BY DEF Init, HiddenBound, HiddenAgrees
<1>. QED
  BY <1>1, <1>2, <1>3 DEF CandidateInv

(* What a step of the call for candidate c leaves alone.                   *)
OnlyOf(c) ==
    /\ UNCHANGED <<measured, closed, selection, hidden, hiddenCompute, hat, crashes>>
    /\ \A d \in Candidates : d # c =>
           /\ at'[d] = at[d]
           /\ admission'[d] = admission[d]
           /\ visible'[d] = visible[d]
           /\ (d \in receipt') = (d \in receipt)
           /\ (d \in failed') = (d \in failed)
    /\ faults' >= faults

(* Then everything but candidate c itself stays bound.                     *)
LEMMA OthersStayBound ==
    ASSUME CandidateInv, NEW c \in Candidates, OnlyOf(c), CandidateTypes', Bound(c)'
    PROVE  CandidateInv'
<1>1. HiddenBound'
  BY DEF CandidateInv, HiddenBound, HiddenAgrees, OnlyOf
<1>2. ASSUME NEW d \in Candidates, d # c PROVE Bound(d)'
  <2>1. Bound(d)
    BY DEF CandidateInv, CandidatesBound
  <2>2. faults' + crashes' = 0 => faults + crashes = 0
    <3>1. /\ faults \in Nat /\ crashes \in Nat /\ faults' \in Nat
          /\ crashes' \in Nat /\ crashes' = crashes /\ faults' >= faults
      BY LimitAssumption DEF OnlyOf, CandidateInv, CandidateTypes
    <3>2. \A m, n, k \in Nat : k >= m /\ k + n = 0 => m + n = 0
      OBVIOUS
    <3>. QED
      BY <3>1, <3>2
  <2>. QED
    BY <1>2, <2>1, <2>2 DEF OnlyOf, Bound, PlaceAgrees, RowsAgree, UndisturbedAgrees,
       ClosedIsSettled, Settled
<1>. QED
  BY <1>1, <1>2 DEF CandidateInv, CandidatesBound

(* submit().                                                               *)
LEMMA AdmissionStep ==
    ASSUME CandidateInv, NEW c \in Candidates, Admission(c)
    PROVE  OnlyOf(c) /\ CandidateTypes' /\ Bound(c)'
<1>1. CandidateTypes /\ Bound(c)
  BY DEF CandidateInv, CandidatesBound
<1>2. OnlyOf(c)
  BY <1>1, LimitAssumption DEF OnlyOf, CandidateTypes, Admission, Submit, ReserveVisible,
     ReserveRefused, Admit, Goes
<1>3. CandidateTypes'
  BY <1>1 DEF CandidateTypes, Admission, Submit, ReserveVisible, ReserveRefused, Admit, Goes,
     CallPlaces, ComputeStatuses
<1>4. ASSUME Submit(c) PROVE Bound(c)'
  BY <1>1, <1>4 DEF CandidateTypes, Submit, Goes, Bound, PlaceAgrees, RowsAgree,
     UndisturbedAgrees, ClosedIsSettled
<1>5. ASSUME ReserveVisible(c) PROVE Bound(c)'
  BY <1>1, <1>5 DEF CandidateTypes, ReserveVisible, Goes, Bound, PlaceAgrees, RowsAgree,
     UndisturbedAgrees, ClosedIsSettled, Settled
<1>6. ASSUME ReserveRefused(c) PROVE Bound(c)'
  BY <1>1, <1>6 DEF CandidateTypes, ReserveRefused, Goes, Bound, PlaceAgrees, RowsAgree,
     UndisturbedAgrees, ClosedIsSettled, Settled
<1>7. ASSUME Admit(c) PROVE Bound(c)'
  BY <1>1, <1>7 DEF CandidateTypes, Admit, Goes, Bound, PlaceAgrees, RowsAgree,
     UndisturbedAgrees, ClosedIsSettled, Settled
<1>. QED
  BY <1>2, <1>3, <1>4, <1>5, <1>6, <1>7 DEF Admission

(* evaluate_visible().                                                     *)
LEMMA EvaluationStep ==
    ASSUME CandidateInv, NEW c \in Candidates, Evaluation(c)
    PROVE  OnlyOf(c) /\ CandidateTypes' /\ Bound(c)'
<1>1. CandidateTypes /\ Bound(c)
  BY DEF CandidateInv, CandidatesBound
<1>. USE DEF Goes
<1>2. OnlyOf(c)
  BY <1>1, LimitAssumption DEF OnlyOf, CandidateTypes, Evaluation, Evaluate,
     EvaluationInProgress, EvaluationSucceeds, EvaluationFails, FailCompute,
     FailComputeSuppressed, RecordFailure, CompleteCompute, CompleteRefused, RecordReceipt
<1>3. CandidateTypes'
  BY <1>1, LimitAssumption DEF CandidateTypes, Evaluation, Evaluate, EvaluationInProgress,
     EvaluationSucceeds, EvaluationFails, FailCompute, FailComputeSuppressed, RecordFailure,
     CompleteCompute, CompleteRefused, RecordReceipt, CallPlaces, ComputeStatuses
<1>. USE DEF CandidateTypes, Bound, PlaceAgrees, RowsAgree, UndisturbedAgrees,
             ClosedIsSettled, Settled, CallPlaces
<1>4. ASSUME Evaluate(c) PROVE Bound(c)'
  BY <1>1, <1>4 DEF Evaluate
<1>5. ASSUME EvaluationInProgress(c) \/ EvaluationSucceeds(c) \/ EvaluationFails(c) PROVE Bound(c)'
  BY <1>1, <1>5 DEF EvaluationInProgress, EvaluationSucceeds, EvaluationFails
<1>6. ASSUME FailCompute(c) PROVE Bound(c)'
  BY <1>1, <1>6 DEF FailCompute, ComputeStatuses
<1>7. ASSUME FailComputeSuppressed(c) PROVE Bound(c)'
  BY <1>1, <1>7, LimitAssumption DEF FailComputeSuppressed
<1>8. ASSUME RecordFailure(c) PROVE Bound(c)'
  BY <1>1, <1>8 DEF RecordFailure
<1>9. ASSUME CompleteCompute(c) PROVE Bound(c)'
  BY <1>1, <1>9 DEF CompleteCompute
<1>10. ASSUME CompleteRefused(c) PROVE Bound(c)'
  BY <1>1, <1>10 DEF CompleteRefused
<1>11. ASSUME RecordReceipt(c) PROVE Bound(c)'
  BY <1>1, <1>11 DEF RecordReceipt
<1>. QED
  BY <1>2, <1>3, <1>4, <1>5, <1>6, <1>7, <1>8, <1>9, <1>10, <1>11 DEF Evaluation

(* A transaction that fails leaves both rows as they are.                  *)
LEMMA FaultStep ==
    ASSUME CandidateInv, NEW c \in Candidates, TransactionFails(c)
    PROVE  OnlyOf(c) /\ CandidateTypes' /\ Bound(c)'
<1>1. CandidateTypes /\ Bound(c)
  BY DEF CandidateInv, CandidatesBound
<1>2. /\ at' = [at EXCEPT ![c] = "idle"] /\ faults' = faults + 1 /\ faults < MaxFaults
      /\ UNCHANGED <<measured, admission, receipt, failed, closed, selection, hidden,
                     visible, hiddenCompute, hat, crashes>>
  BY DEF TransactionFails, Goes
<1>3. OnlyOf(c)
  BY <1>1, <1>2, LimitAssumption DEF OnlyOf, CandidateTypes
<1>4. CandidateTypes'
  BY <1>1, <1>2, LimitAssumption DEF CandidateTypes, CallPlaces
<1>5. Bound(c)'
  BY <1>1, <1>2, LimitAssumption DEF CandidateTypes, Bound, PlaceAgrees, RowsAgree,
     UndisturbedAgrees, ClosedIsSettled, Settled, CallPlaces
<1>. QED
  BY <1>3, <1>4, <1>5

(* close() requires of every candidate of the job what ClosedIsSettled says. *)
LEMMA CloseStep ==
    ASSUME CandidateInv, NEW j \in Jobs, Close(j)
    PROVE  CandidateInv'
<1>1. CandidateTypes /\ HiddenBound /\ \A c \in Candidates : Bound(c)
  BY DEF CandidateInv, CandidatesBound
<1>2. CandidateTypes' /\ HiddenBound'
  BY <1>1 DEF Close, CandidateTypes, HiddenBound, HiddenAgrees, brokerVars, boundVars
<1>3. ASSUME NEW c \in Candidates PROVE Bound(c)'
  <2>1. c \in Rows(j) => Settled(c)
    BY DEF Close, BindingsHold
  <2>2. ClosedIsSettled(c)'
    BY <1>1, <2>1 DEF Close, ClosedIsSettled, Rows, Settled, Bound, brokerVars
  <2>. QED
    BY <1>1, <2>2 DEF Close, Bound, PlaceAgrees, RowsAgree, UndisturbedAgrees, brokerVars,
       boundVars
<1>. QED
  BY <1>2, <1>3 DEF CandidateInv, CandidatesBound

(* select().                                                               *)
LEMMA SelectStep ==
    ASSUME CandidateInv, NEW j \in Jobs, Select(j), Derived(j) \in Artifacts
    PROVE  CandidateInv'
<1>1. CandidatesBound'
  BY DEF CandidateInv, CandidatesBound, Bound, PlaceAgrees, RowsAgree, UndisturbedAgrees,
     ClosedIsSettled, Settled, Select, brokerVars, boundVars
<1>2. CandidateTypes'
  BY DEF CandidateInv, CandidateTypes, Select, brokerVars, boundVars
<1>3. HiddenBound'
  BY DEF CandidateInv, CandidateTypes, HiddenBound, HiddenAgrees, Select, brokerVars,
     Artifacts, Candidates, Reference, None
<1>. QED
  BY <1>1, <1>2, <1>3 DEF CandidateInv

(* evaluate_hidden().                                                      *)
LEMMA HiddenStep ==
    ASSUME CandidateInv, NEW j \in Jobs, HiddenEvaluation(j)
    PROVE  CandidateInv'
<1>1. CandidateTypes /\ HiddenBound /\ \A c \in Candidates : Bound(c)
  BY DEF CandidateInv, CandidatesBound
<1>. USE DEF HiddenGoes
<1>2. /\ UNCHANGED <<measured, admission, receipt, failed, closed, selection, visible, at,
                     crashes>>
      /\ hidden' \in {hidden, [hidden EXCEPT ![j] = selection[j]]}
      /\ \E s \in ComputeStatuses : hiddenCompute' = [hiddenCompute EXCEPT ![j] = s]
      /\ \E p \in HiddenPlaces : hat' = [hat EXCEPT ![j] = p]
      /\ faults' = faults \/ (faults < MaxFaults /\ faults' = faults + 1)
  BY <1>1 DEF CandidateTypes, HiddenEvaluation, EvaluateHidden, HiddenInProgress,
     HiddenSucceeds, HiddenFails, HiddenCompletes, HiddenRefused, RecordHidden,
     HiddenTransactionFails, ComputeStatuses, HiddenPlaces
<1>3. CandidateTypes'
  BY <1>1, <1>2, LimitAssumption DEF CandidateTypes
<1>4. CandidatesBound'
  <2>1. faults' + crashes' = 0 => faults + crashes = 0
    BY <1>1, <1>2, LimitAssumption DEF CandidateTypes
  <2>. QED
    BY <1>1, <1>2, <2>1 DEF CandidatesBound, Bound, PlaceAgrees, RowsAgree,
       UndisturbedAgrees, ClosedIsSettled, Settled
<1>5. HiddenAgrees(j)'
  BY <1>1 DEF CandidateTypes, HiddenBound, HiddenAgrees, HiddenEvaluation, EvaluateHidden,
     Authoritative, HiddenInProgress, HiddenSucceeds, HiddenFails, HiddenCompletes,
     HiddenRefused, RecordHidden, HiddenTransactionFails
<1>6. HiddenBound'
  BY <1>1, <1>2, <1>5 DEF CandidateTypes, HiddenBound, HiddenAgrees
<1>. QED
  BY <1>3, <1>4, <1>6 DEF CandidateInv

(* So does the death of the process.                                       *)
LEMMA CrashStep ==
    ASSUME CandidateInv, Crash
    PROVE  CandidateInv'
<1>1. CandidateTypes' /\ HiddenBound'
  BY LimitAssumption DEF CandidateInv, CandidateTypes, HiddenBound, HiddenAgrees, Crash,
     registryVars, brokerVars, CallPlaces, HiddenPlaces
<1>2. faults' + crashes' # 0
  <2>1. faults \in Nat /\ crashes \in Nat /\ faults' = faults /\ crashes' = crashes + 1
    BY LimitAssumption DEF CandidateInv, CandidateTypes, Crash
  <2>. QED
    BY <2>1
<1>3. CandidatesBound'
  BY <1>2 DEF CandidateInv, CandidatesBound, Bound, PlaceAgrees, RowsAgree,
     UndisturbedAgrees, ClosedIsSettled, Settled, Crash, registryVars, brokerVars
<1>. QED
  BY <1>1, <1>3 DEF CandidateInv

(* A finite set of candidates has a best one: otherwise let k be the least *)
(* number up to which it has candidates but no best of them.               *)
LEMMA BestExists ==
    ASSUME CandidateTypes, NEW S, S \subseteq Candidates, S # {}
    PROVE  Best(S) \in S /\ \A d \in S : Precedes(Best(S), d)
<1>. DEFINE IsBest(b, k) == b \in S /\ b <= k /\ \A d \in S : d <= k => Precedes(b, d)
            Bad == {k \in Nat : (\E c \in S : c <= k) /\ ~ \E b \in S : IsBest(b, k)}
<1>1. \A c \in S : c \in Nat /\ c >= 1 /\ c <= NumCandidates /\ measured[c] \in Nat
  <2>1. \A c \in S : c \in Nat /\ c >= 1 /\ c <= NumCandidates
    BY RosterAssumption DEF Candidates
  <2>2. \A c \in S : measured[c] \in Results
    BY DEF Artifacts, CandidateTypes
  <2>. QED
    BY <2>1, <2>2, ResultAssumption
<1>2. ASSUME NEW k \in Bad, \A m \in Bad : k <= m
      PROVE  FALSE
  <2>1. k \in Nat /\ k # 0 /\ k - 1 \in Nat /\ k - 1 \notin Bad
    BY <1>1, <1>2
  <2>2. CASE k \notin S
    <3>1. \A c \in S : c <= k <=> c <= k - 1
      BY <1>1, <2>1, <2>2
    <3>2. \E c \in S : c <= k - 1
      BY <1>2, <3>1
    <3>3. PICK b \in S : IsBest(b, k - 1)
      BY <2>1, <3>2
    <3>. QED
      BY <1>2, <3>1, <3>3
  <2>3. CASE k \in S /\ ~ \E c \in S : c <= k - 1
    <3>1. \A c \in S : c <= k => c = k
      BY <1>1, <2>1, <2>3
    <3>2. Precedes(k, k)
      BY <2>1 DEF Precedes
    <3>. QED
      BY <1>2, <2>1, <2>3, <3>1, <3>2
  <2>4. CASE k \in S /\ \E c \in S : c <= k - 1
    <3>1. PICK b \in S : IsBest(b, k - 1)
      BY <2>1, <2>4
    <3>2. \A c \in S : c <= k <=> c <= k - 1 \/ c = k
      BY <1>1, <2>1
    <3>3. CASE measured[k] > measured[b]
      <4>1. \A d \in S : d <= k - 1 => Precedes(k, d)
        BY <1>1, <2>1, <2>4, <3>1, <3>3 DEF Precedes
      <4>2. IsBest(k, k)
        BY <2>1, <2>4, <3>2, <4>1 DEF Precedes
      <4>. QED
        BY <1>2, <2>4, <4>2
    <3>4. CASE ~ (measured[k] > measured[b])
      <4>1. Precedes(b, k)
        BY <1>1, <2>1, <2>4, <3>1, <3>4 DEF Precedes
      <4>2. IsBest(b, k)
        BY <1>1, <2>1, <3>1, <3>2, <4>1
      <4>. QED
        BY <1>2, <4>2
    <3>. QED
      BY <3>3, <3>4
  <2>. QED
    BY <2>2, <2>3, <2>4
<1>3. NumCandidates \notin Bad
  <2>1. Bad \subseteq Nat
    OBVIOUS
  <2>2. Bad = {}
    <3>1. SUFFICES ASSUME Bad # {} PROVE FALSE
      OBVIOUS
    <3>2. PICK m \in Bad : \A k \in Bad : m <= k
      <4>. HIDE DEF Bad
      <4>. QED
        BY <2>1, <3>1, LeastNatural
    <3>. QED
      BY <1>2, <3>2
  <2>. QED
    BY <2>2
<1>4. \E b \in S : \A d \in S : Precedes(b, d)
  BY <1>1, <1>3, RosterAssumption
<1>. QED
  BY <1>4 DEF Best

(* What _derive_selection() returns is the reference, or an eligible       *)
(* candidate that beats it and every other.                                *)
LEMMA DerivedIsBest ==
    ASSUME CandidateTypes, NEW j \in Jobs
    PROVE  /\ Derived(j) \in Artifacts
           /\ Derived(j) # Reference => /\ Derived(j) \in Eligible(j)
                                        /\ measured[Derived(j)] > measured[Reference]
           /\ \A c \in Eligible(j) : measured[c] <= measured[Derived(j)]
<1>1. /\ Eligible(j) \subseteq Candidates /\ Candidates \subseteq Artifacts
      /\ Reference \in Artifacts /\ \A x \in Artifacts : measured[x] \in Nat
  BY ResultAssumption DEF Eligible, Rows, Artifacts, CandidateTypes
<1>2. CASE Eligible(j) = {}
  BY <1>1, <1>2 DEF Derived
<1>3. CASE Eligible(j) # {}
  <2>. DEFINE b == Best(Eligible(j))
  <2>1. b \in Eligible(j) /\ \A d \in Eligible(j) : Precedes(b, d)
    BY <1>1, <1>3, BestExists
  <2>2. \A d \in Eligible(j) : measured[d] <= measured[b]
    BY <1>1, <2>1 DEF Precedes
  <2>3. measured[b] > 0
    BY <2>1 DEF Eligible
  <2>4. \/ Derived(j) = Reference /\ measured[Reference] >= measured[b]
        \/ Derived(j) = b /\ ~ (measured[Reference] > 0 /\ measured[Reference] >= measured[b])
    BY <1>3 DEF Derived
  <2>. HIDE DEF b
  <2>5. CASE Derived(j) = Reference /\ measured[Reference] >= measured[b]
    BY <1>1, <2>1, <2>2, <2>5
  <2>6. CASE Derived(j) = b /\ ~ (measured[Reference] > 0 /\ measured[Reference] >= measured[b])
    <3>1. measured[b] \in Nat /\ measured[Reference] \in Nat
      BY <1>1, <2>1
    <3>2. measured[b] > measured[Reference]
      BY <2>3, <2>6, <3>1
    <3>. QED
      BY <1>1, <2>1, <2>2, <2>6, <3>2
  <2>. QED
    BY <2>4, <2>5, <2>6
<1>. QED
  BY <1>2, <1>3

(* Every step of registry and broker keeps the invariant.                  *)
THEOREM NextCandidate == CandidateInv /\ [Next]_vars => CandidateInv'
<1>. SUFFICES ASSUME CandidateInv, [Next]_vars PROVE CandidateInv'
  OBVIOUS
<1>1. CASE \E c \in Candidates : Admission(c) \/ Evaluation(c) \/ TransactionFails(c)
  BY <1>1, AdmissionStep, EvaluationStep, FaultStep, OthersStayBound
<1>2. CASE \E j \in Jobs : Select(j)
  BY <1>2, SelectStep, DerivedIsBest DEF CandidateInv
<1>3. CASE UNCHANGED vars
  BY <1>3 DEF vars, registryVars, brokerVars, boundVars, CandidateInv, CandidateTypes,
     CandidatesBound, Bound, PlaceAgrees, RowsAgree, UndisturbedAgrees, ClosedIsSettled,
     Settled, HiddenBound, HiddenAgrees
<1>. QED
  BY <1>1, <1>2, <1>3, CloseStep, HiddenStep, CrashStep DEF Next

(* The inductive invariant of the candidates.                              *)
THEOREM CandidateInvariant == Spec => []CandidateInv
BY InitCandidate, NextCandidate, PTL DEF Spec

-----------------------------------------------------------------------------
(* The registry's and the broker's rows have their types, and a call is    *)
(* where its candidate's admission allows.                                 *)
THEOREM CandidateTypesHold == Spec => []CandidateTypeOK
<1>1. CandidateInv => CandidateTypeOK
  <2>. SUFFICES ASSUME CandidateInv PROVE CandidateTypeOK
    OBVIOUS
  <2>1. ASSUME NEW c \in Candidates
        PROVE  CASE at[c] = "idle" -> TRUE
               [] at[c] \in {"reserving", "admitting"} -> admission[c] = "provisional"
               [] OTHER -> admission[c] = "admitted"
    BY DEF CandidateInv, CandidateTypes, CandidatesBound, Bound, PlaceAgrees
  <2>. QED
    BY <2>1 DEF CandidateInv, CandidateTypes, CandidateTypeOK
<1>. QED
  BY <1>1, CandidateInvariant, PTL

(* Whatever fails and wherever the process dies, the two databases stay    *)
(* bound (submit() and evaluate_visible() in sqlite_submissions.py).       *)
THEOREM VerdictsStayBacked == Spec => []VerdictsAreBacked
<1>1. CandidateInv => VerdictsAreBacked
  BY DEF CandidateInv, CandidatesBound, Bound, RowsAgree, VerdictsAreBacked
<1>. QED
  BY <1>1, CandidateInvariant, PTL

(* Without faults and crashes a failure is recorded in both databases.     *)
THEOREM FailuresStayAgreed == Spec => []FailuresAgree
<1>1. CandidateInv => FailuresAgree
  <2>. SUFFICES ASSUME CandidateInv, faults + crashes = 0, NEW c \in failed
                PROVE  visible[c] = "failed"
    BY DEF FailuresAgree
  <2>1. UndisturbedAgrees(c)
    BY DEF CandidateInv, CandidateTypes, CandidatesBound, Bound
  <2>. QED
    BY <2>1 DEF UndisturbedAgrees
<1>. QED
  BY <1>1, CandidateInvariant, PTL

(* A hidden receipt is the selected artifact's, and its compute is paid.   *)
THEOREM HiddenFollowsSelection == Spec => []HiddenIsOfSelection
<1>1. CandidateInv => HiddenIsOfSelection
  BY DEF CandidateInv, HiddenBound, HiddenAgrees, HiddenIsOfSelection
<1>. QED
  BY <1>1, CandidateInvariant, PTL

(* One step of anything leaves the candidates of a closed job alone.       *)
FinalStep ==
    \A c \in Candidates : JobOf[c] \in closed
        => /\ admission'[c] = admission[c]
           /\ visible'[c] = visible[c]
           /\ (c \in receipt') = (c \in receipt)
           /\ (c \in failed') = (c \in failed)

(* No step changes a candidate of a closed job.                            *)
LEMMA ClosedStaysFinal == CandidateInv /\ [Next]_vars => FinalStep
<1>. SUFFICES ASSUME CandidateInv, [Next]_vars, NEW c \in Candidates, JobOf[c] \in closed
              PROVE  /\ admission'[c] = admission[c]
                     /\ visible'[c] = visible[c]
                     /\ (c \in receipt') = (c \in receipt)
                     /\ (c \in failed') = (c \in failed)
  BY DEF FinalStep
<1>1. /\ admission[c] = "none" \/ Settled(c)
      /\ at[c] \in CallPlaces
      /\ at[c] = "idle"
  BY DEF CandidateInv, CandidateTypes, CandidatesBound, Bound, ClosedIsSettled, PlaceAgrees,
     Settled
<1>2. ASSUME NEW d \in Candidates, Admission(d) \/ Evaluation(d) \/ TransactionFails(d)
      PROVE  OnlyOf(d) /\ d # c
  <2>1. OnlyOf(d)
    BY <1>2, AdmissionStep, EvaluationStep, FaultStep
  <2>2. d # c
    BY <1>1, <1>2 DEF Admission, Evaluation, TransactionFails, Goes, Submit, ReserveVisible,
       ReserveRefused, Admit, Evaluate, EvaluationInProgress, EvaluationSucceeds,
       EvaluationFails, FailCompute, FailComputeSuppressed, RecordFailure, CompleteCompute,
       CompleteRefused, RecordReceipt, Settled
  <2>. QED
    BY <2>1, <2>2
<1>3. CASE \E d \in Candidates : Admission(d) \/ Evaluation(d) \/ TransactionFails(d)
  BY <1>2, <1>3 DEF OnlyOf
<1>4. CASE ~ \E d \in Candidates : Admission(d) \/ Evaluation(d) \/ TransactionFails(d)
  BY <1>4 DEF Next, vars, registryVars, brokerVars, Close, Select, HiddenEvaluation,
     HiddenGoes, EvaluateHidden, HiddenInProgress, HiddenSucceeds, HiddenFails,
     HiddenCompletes, HiddenRefused, RecordHidden, HiddenTransactionFails, Crash
<1>. QED
  BY <1>3, <1>4

(* No retry, late evaluation or restart changes what the selection of a    *)
(* closed job is recomputed from (close() and submit()).                   *)
THEOREM ClosedJobsAreFinal == Spec => ClosedIsFinal
<1>1. CandidateInv /\ [Next]_vars => FinalStep
  BY ClosedStaysFinal
<1>2. FinalStep => [\A c \in Candidates : JobOf[c] \in closed
                        => /\ admission'[c] = admission[c]
                           /\ visible'[c] = visible[c]
                           /\ (c \in receipt') = (c \in receipt)
                           /\ (c \in failed') = (c \in failed)]_vars
  BY DEF FinalStep
<1>. QED
  BY <1>1, <1>2, CandidateInvariant, PTL DEF Spec, ClosedIsFinal

-----------------------------------------------------------------------------
(* A persisted selection stays what select() would compute again.          *)
SelectionIsDerived ==
    \A j \in Jobs : selection[j] # None => j \in closed /\ selection[j] = Derived(j)

(* In a closed job nothing that _derive_selection() reads changes.         *)
LEMMA DerivedIsStable ==
    ASSUME CandidateInv, [Next]_vars, NEW j \in Jobs, j \in closed
    PROVE  Derived(j)' = Derived(j)
<1>1. measured' = measured
  BY DEF Next, vars, Admission, Evaluation, HiddenEvaluation, Goes, Submit, ReserveVisible,
     ReserveRefused, Admit, Evaluate, EvaluationInProgress, EvaluationSucceeds,
     EvaluationFails, FailCompute, FailComputeSuppressed, RecordFailure, CompleteCompute,
     CompleteRefused, RecordReceipt, TransactionFails, Close, Select, HiddenGoes,
     EvaluateHidden, HiddenInProgress, HiddenSucceeds, HiddenFails, HiddenCompletes,
     HiddenRefused, RecordHidden, HiddenTransactionFails, Crash
<1>2. Eligible(j)' = Eligible(j)
  <2>1. FinalStep
    BY ClosedStaysFinal
  <2>. QED
    BY <1>1, <2>1 DEF FinalStep, Eligible, Rows
<1>3. Best(Eligible(j))' = Best(Eligible(j))
  BY <1>1, <1>2 DEF Best, Precedes
<1>. QED
  BY <1>1, <1>2, <1>3 DEF Derived

(* A stored selection stays the best of its job.                           *)
LEMMA NextSelection ==
    CandidateInv /\ SelectionIsDerived /\ [Next]_vars => SelectionIsDerived'
<1>. SUFFICES ASSUME CandidateInv, SelectionIsDerived, [Next]_vars,
                     NEW j \in Jobs, selection'[j] # None
              PROVE  j \in closed' /\ selection'[j] = Derived(j)'
  BY DEF SelectionIsDerived
<1>1. closed \subseteq closed'
  BY DEF Next, vars, Admission, Evaluation, HiddenEvaluation, Goes, Submit, ReserveVisible,
     ReserveRefused, Admit, Evaluate, EvaluationInProgress, EvaluationSucceeds,
     EvaluationFails, FailCompute, FailComputeSuppressed, RecordFailure, CompleteCompute,
     CompleteRefused, RecordReceipt, TransactionFails, Close, Select, HiddenGoes,
     EvaluateHidden, HiddenInProgress, HiddenSucceeds, HiddenFails, HiddenCompletes,
     HiddenRefused, RecordHidden, HiddenTransactionFails, Crash, registryVars
<1>2. selection'[j] = selection[j] \/ (j \in closed /\ selection'[j] = Derived(j))
  BY DEF CandidateInv, CandidateTypes, Next, vars, Admission, Evaluation, HiddenEvaluation,
     Goes, Submit, ReserveVisible, ReserveRefused, Admit, Evaluate, EvaluationInProgress,
     EvaluationSucceeds, EvaluationFails, FailCompute, FailComputeSuppressed, RecordFailure,
     CompleteCompute, CompleteRefused, RecordReceipt, TransactionFails, Close, Select,
     HiddenGoes, EvaluateHidden, HiddenInProgress, HiddenSucceeds, HiddenFails,
     HiddenCompletes, HiddenRefused, RecordHidden, HiddenTransactionFails, Crash,
     registryVars
<1>3. j \in closed /\ selection'[j] = Derived(j)
  BY <1>2 DEF SelectionIsDerived
<1>. QED
  BY <1>1, <1>3, DerivedIsStable

(* The persisted selection is the best eligible result of a closed job, the*)
(* reference where it is not beaten, and stays what a later recomputation  *)
(* yields (_derive_selection() and _authoritative_selection()).            *)
THEOREM SelectionStaysBest == Spec => []SelectionIsBest
<1>1. Init => SelectionIsDerived
  BY DEF Init, SelectionIsDerived
<1>2. Spec => []SelectionIsDerived
  BY <1>1, NextSelection, CandidateInvariant, PTL DEF Spec
<1>3. CandidateInv /\ SelectionIsDerived => SelectionIsBest
  <2>. SUFFICES ASSUME CandidateInv, SelectionIsDerived, NEW j \in Jobs, selection[j] # None
                PROVE  /\ j \in closed
                       /\ selection[j] = Derived(j)
                       /\ \A c \in Rows(j) : c \in receipt => measured[c] <= measured[selection[j]]
                       /\ selection[j] # Reference => /\ selection[j] \in receipt \ failed
                                                      /\ measured[selection[j]] > measured[Reference]
    BY DEF SelectionIsBest
  <2>1. j \in closed /\ selection[j] = Derived(j) /\ CandidateTypes
    BY DEF SelectionIsDerived, CandidateInv
  <2>2. /\ Derived(j) \in Artifacts
        /\ Derived(j) # Reference => /\ Derived(j) \in Eligible(j)
                                     /\ measured[Derived(j)] > measured[Reference]
        /\ \A c \in Eligible(j) : measured[c] <= measured[Derived(j)]
    BY <2>1, DerivedIsBest
  <2>3. ASSUME NEW c \in Rows(j), c \in receipt
        PROVE  measured[c] <= measured[selection[j]]
    <3>1. c \in Candidates /\ c \notin failed
      BY <2>3 DEF CandidateInv, CandidatesBound, Bound, RowsAgree, Rows
    <3>2. measured[c] \in Nat /\ measured[selection[j]] \in Nat
      BY <2>1, <2>2, <3>1, ResultAssumption DEF CandidateTypes, Artifacts
    <3>3. measured[c] > 0 => c \in Eligible(j)
      BY <2>3, <3>1 DEF Eligible
    <3>. QED
      BY <2>1, <2>2, <3>2, <3>3
  <2>. QED
    BY <2>1, <2>2, <2>3 DEF Eligible
<1>. QED
  BY <1>2, <1>3, CandidateInvariant, PTL

-----------------------------------------------------------------------------
(* Remote evidence.                                                        *)
Documents == [failure : BOOLEAN, wrong : BOOLEAN, scored : BOOLEAN, eligible : BOOLEAN,
              valid : BOOLEAN]

(* The states of a command that knows its call, and of one that collects   *)
(* the evidence of a call.                                                 *)
Knowing    == {"record", "wait", "fail"}
Collecting == {"stage", "check", "upload", "manifest", "load", "publish", "commit"}
Started    == {"read", "spawn"} \cup Knowing \cup Collecting
CallStates == {"unused", "running", "bundled", "staged", "returned", "failed", "expired"}
CallOrNone == Calls \cup {NoCall}

CommandRecords == [at : {"idle"} \cup Started, slot : Slots \cup {NoSlot},
                   mode : {"dispatch", "run", "collect"}, call : CallOrNone,
                   pointer : CallOrNone, missing : SUBSET Files]

VolumeRecords == [files : [Files -> CallOrNone], manifest : CallOrNone,
                  normalized : [from : CallOrNone, named : CallOrNone, observed : 0 .. 2]]

RemoteTypes ==
  /\ lane \in Lanes
  /\ dispatched \in [Slots -> CallOrNone]
  /\ calls \in [Calls -> [slot : Slots \cup {NoSlot}, at : CallStates, trial : Trials]]
  /\ staging \in [Slots -> [bundle : CallOrNone, manifest : CallOrNone]]
  /\ volume \in [Slots -> VolumeRecords]
  /\ bundles \in [Slots -> [doc : Documents, from : CallOrNone, named : CallOrNone,
                            committed : BOOLEAN]]
  /\ command \in [Commands -> CommandRecords]

(* A call was spawned for the slot; its trial is over.                     *)
OfSlot(c, s)   == c \in Calls /\ calls[c].slot = s /\ calls[c].at # "unused"
Measured(c, s) == OfSlot(c, s) /\ calls[c].at # "running"

(* The calls, the records of them, and what they have staged.              *)
CallsStand ==
  /\ \A c \in Calls : IF calls[c].at = "unused" THEN calls[c].slot = NoSlot
                                              ELSE calls[c].slot \in Slots
  /\ \A s \in Slots :
       /\ dispatched[s] # NoCall => OfSlot(dispatched[s], s)
       /\ staging[s].bundle # NoCall => Measured(staging[s].bundle, s)
       /\ staging[s].manifest # NoCall => Measured(staging[s].manifest, s)

Holds(s, c) == \A f \in Files : volume[s].files[f] = c

(* The evidence volume: the files come first, the manifest next, and the   *)
(* normalised document last.                                               *)
VolumeStands ==
  \A s \in Slots :
    /\ volume[s].manifest # NoCall =>
         Holds(s, volume[s].manifest) /\ Measured(volume[s].manifest, s)
    /\ volume[s].normalized # NoDocument =>
         volume[s].normalized.from = volume[s].manifest /\ volume[s].manifest # NoCall

(* An attempt waits for the ones before it, and for the repetitions before.*)
Admitted(s) ==
  /\ \A a \in 1 .. (s[2] - 1) : IsCommitted(<<s[1], a>>) /\ ~ValidAttempt(<<s[1], a>>)
  /\ PriorsAdmitted(s)

AttemptsStand ==
  /\ \A s \in Slots : IsCommitted(s) => Admitted(s)
  /\ \A c \in Calls : calls[c].at # "unused" => Admitted(calls[c].slot)

BundlesStand ==
  \A s \in Slots : IsCommitted(s) =>
    \/ bundles[s].doc = FailureDocument
    \/ /\ Measured(bundles[s].from, s)
       /\ bundles[s].doc = Document(lane, calls[bundles[s].from].trial)
       /\ volume[s].manifest = bundles[s].from
       /\ volume[s].normalized # NoDocument
       /\ volume[s].normalized.named = bundles[s].named

(* What a command has found stays as it found it.                          *)
CommandStands(me) ==
  /\ me.at = "idle" <=> me = Quit
  /\ me.at \in Started => me.slot \in Slots /\ Admitted(me.slot)
  /\ me.at \in Knowing \cup Collecting => OfSlot(me.call, me.slot)
  /\ me.at \in Collecting => Measured(me.pointer, me.slot)
  /\ me.at = "upload" =>
       \A f \in Files \ me.missing : volume[me.slot].files[f] = me.pointer
  /\ me.at \in {"manifest", "load", "publish", "commit"} => Holds(me.slot, me.pointer)
  /\ me.at \in {"load", "publish", "commit"} => volume[me.slot].manifest = me.pointer
  /\ me.at = "commit" => /\ volume[me.slot].normalized # NoDocument
                         /\ volume[me.slot].normalized.named = me.call

RemoteInv ==
  /\ RemoteTypes /\ CallsStand /\ VolumeStands /\ AttemptsStand /\ BundlesStand
  /\ \A p \in Commands : CommandStands(command[p])

-----------------------------------------------------------------------------
(* The document of a lane, and what the evaluation is told of it.          *)
LEMMA DocumentsAreTyped ==
    /\ FailureDocument \in Documents /\ FailureDocument.failure
    /\ \A l \in Lanes, t \in Trials :
          Document(l, t) \in Documents /\ ~Document(l, t).failure
<1>1. FailureDocument \in Documents /\ FailureDocument.failure
  BY DEF FailureDocument, Documents
<1>2. ASSUME NEW l \in Lanes, NEW t \in Trials
      PROVE  Document(l, t) \in Documents /\ ~Document(l, t).failure
  <2>1. t.good \in BOOLEAN /\ t.canary \in BOOLEAN
    BY DEF Trials
  <2>2. BenchmarkReceipt(t).ok \in BOOLEAN /\ QualityReceipt(t).ok \in BOOLEAN
    BY <2>1 DEF BenchmarkReceipt, QualityReceipt, Untroubled
  <2>3. PerformanceDocument(t) \in Documents /\ ~PerformanceDocument(t).failure
    BY <2>1, <2>2 DEF PerformanceDocument, Documents
  <2>4. QualityDocument(t) \in Documents /\ ~QualityDocument(t).failure
    BY <2>1, <2>2 DEF QualityDocument, Documents
  <2>5. CorrectnessDocument(t) \in Documents /\ ~CorrectnessDocument(t).failure
    BY <2>1, <2>2 DEF CorrectnessDocument, ScoreCorrectnessResponses, Documents
  <2>. QED
    BY <2>3, <2>4, <2>5 DEF Document, Lanes
<1>. QED
  BY <1>1, <1>2

(* A document that counts as eligible was measured completely.             *)
LEMMA EligibleDocuments ==
    ASSUME NEW l \in Lanes, NEW t \in Trials
    PROVE  /\ Told(l, FailureDocument) # Complete(TRUE)
           /\ Told(l, Document(l, t)) = Complete(TRUE) =>
                t.failed = {} /\ t.garbled = {} /\ t.host = "pinned" /\ t.good
<1>1. Failed # Complete(TRUE) /\ Raised # Complete(TRUE)
  BY DEF Failed, Complete, Raised
<1>2. Told(l, FailureDocument) = Failed
  BY DEF Told, Lanes, FailureDocument, HiddenPerformance, PerformanceStatus, QualityOutcome,
         CorrectnessOutcome
<1>3. \A e \in BOOLEAN : Complete(e) = Complete(TRUE) => e = TRUE
  BY DEF Complete
<1>4. t.failed \subseteq Cases /\ t.garbled \subseteq Cases /\ t.good \in BOOLEAN /\ Cases \subseteq Nat
  BY CasesAssumption DEF Trials
<1>5. RunBenchmarkPoints(t) \ t.garbled = Cases => t.failed = {} /\ t.garbled = {}
  <2>. SUFFICES ASSUME RunBenchmarkPoints(t) \ t.garbled = Cases PROVE t.failed = {} /\ t.garbled = {}
    OBVIOUS
  <2>1. t.garbled = {}
    BY <1>4
  <2>2. \A c \in t.failed : c \in Cases /\ ~(c < c)
    <3>1. \A c \in t.failed : c \in Cases /\ c \in Nat
      BY <1>4
    <3>2. \A c \in Nat : ~(c < c)
      OBVIOUS
    <3>. QED
      BY <3>1, <3>2
  <2>3. \A c \in Cases : \A d \in t.failed : c < d
    BY DEF RunBenchmarkPoints
  <2>. QED
    BY <2>1, <2>2, <2>3
<1>6. RunQualityRequests(t) = Cases => t.failed = {}
  BY <1>4 DEF RunQualityRequests
<1>7. CASE l = "performance"
  <2>. DEFINE d == PerformanceDocument(t)
  <2>1. /\ d.wrong = (RunBenchmarkPoints(t) \ t.garbled # RunBenchmarkPoints(t) \/ t.host # "pinned")
        /\ d.scored = (RunBenchmarkPoints(t) \ t.garbled = Cases)
        /\ d.eligible = (d.scored /\ t.good) /\ d.failure = FALSE
    BY DEF PerformanceDocument, BenchmarkReceipt
  <2>. HIDE DEF d
  <2>2. Told(l, Document(l, t)) = HiddenPerformance(d)
    BY <1>7 DEF Told, Document, d
  <2>3. HiddenPerformance(d) \in {Raised, Failed, Complete(d.eligible)}
        /\ (HiddenPerformance(d) = Complete(TRUE) => d.scored /\ ~d.wrong)
    BY <1>1 DEF HiddenPerformance, PerformanceStatus
  <2>4. Told(l, Document(l, t)) = Complete(TRUE) => d.scored /\ ~d.wrong /\ d.eligible
    BY <1>1, <1>3, <1>4, <2>1, <2>2, <2>3
  <2>. QED
    BY <1>1, <1>2, <1>5, <2>1, <2>4
<1>8. CASE l \in {"quality", "correctness"}
  <2>1. /\ QualityReceipt(t).ok => QualityReceipt(t).raw = RunQualityRequests(t)
        /\ QualityReceipt(t).host = t.host
    BY DEF QualityReceipt
  <2>2. CASE l = "quality"
    <3>. DEFINE d == QualityDocument(t)
    <3>1. /\ d.wrong = (\/ QualityReceipt(t).host # "pinned" \/ QualityReceipt(t).raw # Cases
                        \/ QualityReceipt(t).raw \ t.garbled # QualityReceipt(t).raw)
          /\ d.scored = (QualityReceipt(t).raw \ t.garbled = Cases)
          /\ d.eligible = (d.scored /\ t.good)
          /\ d.valid = (QualityReceipt(t).ok /\ ~d.wrong /\ d.scored)
      BY DEF QualityDocument
    <3>. HIDE DEF d
    <3>2. Told(l, Document(l, t)) = QualityOutcome(d)
      BY <2>2 DEF Told, Document, d
    <3>3. QualityOutcome(d) = Complete(TRUE) => d.valid /\ d.eligible
      BY <1>1, <1>3, <1>4, <3>1 DEF QualityOutcome
    <3>4. d.valid /\ d.eligible => /\ RunQualityRequests(t) = Cases /\ t.garbled = {}
                                   /\ t.host = "pinned" /\ t.good
      BY <1>4, <2>1, <3>1
    <3>. QED
      BY <1>1, <1>2, <1>6, <3>2, <3>3, <3>4
  <2>3. CASE l = "correctness"
    <3>. DEFINE d == CorrectnessDocument(t)
    <3>1. /\ d.wrong = (QualityReceipt(t).host # "pinned" \/ QualityReceipt(t).raw # Cases)
          /\ d.scored = (QualityReceipt(t).raw = Cases)
          /\ d.eligible = (QualityReceipt(t).raw = Cases /\ t.good /\ t.garbled = {})
          /\ d.valid = (QualityReceipt(t).ok /\ ~d.wrong /\ d.scored)
      BY DEF CorrectnessDocument, ScoreCorrectnessResponses
    <3>. HIDE DEF d
    <3>2. Told(l, Document(l, t)) = CorrectnessOutcome(d)
      BY <2>3 DEF Told, Document, d
    <3>3. CorrectnessOutcome(d) = Complete(TRUE) => d.valid /\ d.eligible
      BY <1>1, <1>3, <1>4, <3>1 DEF CorrectnessOutcome
    <3>4. d.valid /\ d.eligible => /\ RunQualityRequests(t) = Cases /\ t.garbled = {}
                                   /\ t.host = "pinned" /\ t.good
      BY <2>1, <3>1
    <3>. QED
      BY <1>1, <1>2, <1>6, <3>2, <3>3, <3>4
  <2>. QED
    BY <1>8, <2>2, <2>3
<1>. QED
  BY <1>7, <1>8 DEF Lanes

-----------------------------------------------------------------------------
(* Nothing is recorded, staged or committed at first.                      *)
LEMMA RemoteInitInv == RemoteInit => RemoteInv
<1>. SUFFICES ASSUME RemoteInit PROVE RemoteInv
  OBVIOUS
<1>. USE DEF RemoteInit
<1>1. /\ NoTrial \in Trials /\ Quit \in CommandRecords
      /\ NoBundle \in [doc : Documents, from : CallOrNone, named : CallOrNone, committed : BOOLEAN]
      /\ NoDocument \in [from : CallOrNone, named : CallOrNone, observed : 0 .. 2]
      /\ Quit.at = "idle" /\ NoBundle.committed = FALSE
  BY DocumentsAreTyped DEF NoTrial, Trials, Quit, CommandRecords, CallOrNone, NoBundle, NoDocument
<1>2. RemoteTypes
  BY <1>1, RemoteAssumption DEF RemoteTypes, CallStates, CallOrNone, VolumeRecords
<1>3. CallsStand /\ VolumeStands
  BY DEF CallsStand, VolumeStands
<1>4. AttemptsStand /\ BundlesStand
  BY <1>1 DEF AttemptsStand, BundlesStand, IsCommitted
<1>5. \A p \in Commands : CommandStands(command[p])
  BY <1>1 DEF CommandStands, Started, Knowing, Collecting
<1>. QED
  BY <1>2, <1>3, <1>4, <1>5 DEF RemoteInv

-----------------------------------------------------------------------------
(* What no step takes back: a call keeps its slot and, once it has measured, *)
(* its trial; evidence is written once.                                    *)
Grows ==
  /\ lane' = lane
  /\ \A c \in Calls : calls[c].at # "unused" =>
       /\ calls'[c].at # "unused" /\ calls'[c].slot = calls[c].slot
       /\ calls[c].at # "running" => calls'[c].at # "running" /\ calls'[c].trial = calls[c].trial
  /\ \A s \in Slots :
       /\ IsCommitted(s) => bundles'[s] = bundles[s]
       /\ volume[s].manifest # NoCall => volume'[s].manifest = volume[s].manifest
       /\ volume[s].normalized # NoDocument => volume'[s].normalized = volume[s].normalized
       /\ \A f \in Files : volume[s].files[f] # NoCall => volume'[s].files[f] = volume[s].files[f]

(* The attempts and the repetitions before a slot are slots.               *)
LEMMA SlotsAreNested ==
    \A s \in Slots : /\ s[1] \in Nat /\ s[2] \in Nat /\ s = <<s[1], s[2]>>
                     /\ \A a \in 1 .. (s[2] - 1) : <<s[1], a>> \in Slots
                     /\ \A r \in 1 .. (s[1] - 1) : \A a \in 1 .. MaxAttempts : <<r, a>> \in Slots
<1>1. PICK m \in Nat, n \in Nat : m = MaxRepetitions /\ n = MaxAttempts
  BY RemoteAssumption
<1>2. ASSUME NEW r \in 1 .. m, NEW a \in 1 .. n
      PROVE  \A b \in 1 .. (a - 1) : b \in 1 .. n
  OBVIOUS
<1>3. ASSUME NEW r \in 1 .. m
      PROVE  \A q \in 1 .. (r - 1) : q \in 1 .. m
  OBVIOUS
<1>. QED
  BY <1>1, <1>2, <1>3 DEF Slots

(* What is kept of a call, an attempt and the files of a slot.             *)
LEMMA GrowsKeeps ==
    ASSUME Grows
    PROVE  /\ \A c, s : (OfSlot(c, s) => OfSlot(c, s)') /\ (Measured(c, s) => Measured(c, s)')
           /\ \A s \in Slots :
                 /\ IsCommitted(s) => IsCommitted(s)' /\ ValidAttempt(s)' = ValidAttempt(s)
                 /\ Admitted(s) => Admitted(s)'
           /\ \A s \in Slots, c \in Calls : Holds(s, c) => Holds(s, c)'
<1>1. \A c, s : (OfSlot(c, s) => OfSlot(c, s)') /\ (Measured(c, s) => Measured(c, s)')
  BY DEF Grows, OfSlot, Measured
<1>2. ASSUME NEW s \in Slots, IsCommitted(s)
      PROVE  IsCommitted(s)' /\ ValidAttempt(s)' = ValidAttempt(s)
  BY <1>2 DEF Grows, IsCommitted, ValidAttempt
<1>3. ASSUME NEW s \in Slots, Admitted(s) PROVE Admitted(s)'
  <2>1. \A a \in 1 .. (s[2] - 1) : IsCommitted(<<s[1], a>>)' /\ ~ValidAttempt(<<s[1], a>>)'
    BY <1>2, <1>3, SlotsAreNested DEF Admitted
  <2>2. PriorsAdmitted(s)'
    <3>1. lane' = lane
      BY DEF Grows
    <3>2. ASSUME lane # "correctness", NEW r \in 1 .. (s[1] - 1)
          PROVE  \E a \in 1 .. MaxAttempts : ValidAttempt(<<r, a>>)'
      <4>1. PICK a \in 1 .. MaxAttempts : ValidAttempt(<<r, a>>)
        BY <1>3, <3>2 DEF Admitted, PriorsAdmitted
      <4>2. <<r, a>> \in Slots /\ IsCommitted(<<r, a>>)
        BY <4>1, SlotsAreNested DEF ValidAttempt
      <4>. QED
        BY <1>2, <4>1, <4>2
    <3>. QED
      BY <3>1, <3>2 DEF PriorsAdmitted
  <2>. QED
    BY <2>1, <2>2 DEF Admitted
<1>4. ASSUME NEW s \in Slots, NEW c \in Calls, Holds(s, c) PROVE Holds(s, c)'
  <2>1. c # NoCall
    BY RemoteAssumption DEF Calls, NoCall
  <2>. QED
    BY <1>4, <2>1 DEF Grows, Holds
<1>. QED
  BY <1>1, <1>2, <1>3, <1>4

(* A command that stands goes on standing.                                 *)
LEMMA CommandStandsStill ==
    ASSUME RemoteTypes, Grows, NEW me \in CommandRecords, CommandStands(me)
    PROVE  CommandStands(me)'
<1>1. me.at \in Started => me.slot \in Slots
  BY DEF CommandStands
<1>2. me.at \in Collecting => me.pointer \in Calls /\ me.pointer # NoCall
  BY RemoteAssumption DEF CommandStands, Measured, OfSlot, Calls, NoCall
<1>3. me.at \in Collecting => me.at \in Started
  BY DEF Started
<1>4. /\ me.at \in Started => Admitted(me.slot)'
      /\ me.at \in Knowing \cup Collecting => OfSlot(me.call, me.slot)'
      /\ me.at \in Collecting => Measured(me.pointer, me.slot)'
      /\ me.at \in {"manifest", "load", "publish", "commit"} => Holds(me.slot, me.pointer)'
  BY <1>1, <1>2, <1>3, GrowsKeeps DEF CommandStands, Collecting
<1>5. /\ me.at = "upload" =>
           \A f \in Files \ me.missing : volume'[me.slot].files[f] = me.pointer
      /\ me.at \in {"load", "publish", "commit"} => volume'[me.slot].manifest = me.pointer
      /\ me.at = "commit" => /\ volume'[me.slot].normalized # NoDocument
                             /\ volume'[me.slot].normalized.named = me.call
  BY <1>1, <1>2, <1>3 DEF CommandStands, Collecting, Grows
<1>. QED
  BY <1>1, <1>4, <1>5 DEF CommandStands

(* The invariant of a step that moves one command and leaves the rest.     *)
LEMMA CommandMoves ==
    ASSUME RemoteInv, UNCHANGED <<lane, dispatched, calls, staging, volume, bundles>>,
           NEW p \in Commands, NEW me \in CommandRecords,
           command' = [command EXCEPT ![p] = me], CommandStands(me)
    PROVE  RemoteInv' /\ Grows
<1>. USE DEF RemoteInv
<1>1. Grows
  BY DEF Grows
<1>2. RemoteTypes'
  BY DEF RemoteTypes
<1>3. CallsStand' /\ VolumeStands'
  BY DEF CallsStand, VolumeStands, OfSlot, Measured, Holds
<1>4. AttemptsStand'
  BY DEF AttemptsStand, Admitted, PriorsAdmitted, ValidAttempt, IsCommitted
<1>5. BundlesStand'
  BY DEF BundlesStand, Measured, OfSlot, IsCommitted
<1>6. ASSUME NEW q \in Commands PROVE CommandStands(command[q])'
  <2>1. \A x \in CommandRecords : CommandStands(x) => CommandStands(x)'
    BY <1>1, CommandStandsStill
  <2>2. command'[q] \in CommandRecords /\ CommandStands(command'[q])
    BY DEF RemoteTypes
  <2>. QED
    BY <2>1, <2>2
<1>. QED
  BY <1>1, <1>2, <1>3, <1>4, <1>5, <1>6

(* All commands do, if the one that moved does.                            *)
LEMMA CommandsStandStill ==
    ASSUME RemoteInv, Grows, RemoteTypes',
           \/ command' = command
           \/ \E p \in Commands : \E me \in CommandRecords :
                 command' = [command EXCEPT ![p] = me] /\ CommandStands(me)'
    PROVE  \A q \in Commands : CommandStands(command[q])'
<1>. SUFFICES ASSUME NEW q \in Commands PROVE CommandStands(command[q])'
  OBVIOUS
<1>1. \A x \in CommandRecords : CommandStands(x) => CommandStands(x)'
  BY CommandStandsStill DEF RemoteInv
<1>2. command[q] \in CommandRecords /\ CommandStands(command[q])
  BY DEF RemoteInv, RemoteTypes
<1>3. CASE command'[q] = command[q]
  BY <1>1, <1>2, <1>3
<1>4. CASE command'[q] # command[q]
  <2>1. PICK me \in CommandRecords : command'[q] = me /\ CommandStands(me)'
    BY <1>4 DEF RemoteInv, RemoteTypes
  <2>2. \A x \in CommandRecords : x = command'[q] /\ CommandStands(x)' => CommandStands(command[q])'
    OBVIOUS
  <2>. QED
    BY <2>1, <2>2
<1>. QED
  BY <1>3, <1>4

(* Each part of the invariant, where a step leaves its state alone.        *)
LEMMA CallsKept ==
    ASSUME RemoteInv, Grows, UNCHANGED <<dispatched, calls, staging>> PROVE CallsStand'
  BY DEF RemoteInv, CallsStand, OfSlot, Measured

(* The evidence volume.                                                    *)
LEMMA VolumeKept ==
    ASSUME RemoteInv, Grows, volume' = volume PROVE VolumeStands'
<1>. SUFFICES ASSUME NEW s \in Slots, volume[s].manifest # NoCall
              PROVE  Holds(s, volume[s].manifest)' /\ Measured(volume[s].manifest, s)'
  BY DEF RemoteInv, VolumeStands
<1>1. PICK c : c = volume[s].manifest /\ Holds(s, c) /\ Measured(c, s)
  BY DEF RemoteInv, VolumeStands
<1>2. Measured(c, s)'
  BY <1>1, GrowsKeeps
<1>. QED
  BY <1>1, <1>2 DEF Holds, Measured, OfSlot

(* The attempts, where no call is new.                                     *)
LEMMA AttemptsKept ==
    ASSUME RemoteInv, Grows, bundles' = bundles,
           \A c \in Calls : calls'[c].at # "unused" => calls[c].at # "unused"
    PROVE  AttemptsStand'
<1>1. \A s \in Slots : Admitted(s) => Admitted(s)'
  BY GrowsKeeps
<1>2. \A s \in Slots : IsCommitted(s)' => Admitted(s)'
  BY <1>1 DEF RemoteInv, AttemptsStand, IsCommitted
<1>3. ASSUME NEW c \in Calls, calls'[c].at # "unused" PROVE Admitted(calls[c].slot)'
  <2>1. PICK s \in Slots : s = calls[c].slot /\ s = calls'[c].slot /\ Admitted(s)
    BY <1>3 DEF RemoteInv, AttemptsStand, CallsStand, Grows
  <2>2. Admitted(s)'
    BY <1>1, <2>1
  <2>. QED
    BY <2>1, <2>2 DEF Admitted, PriorsAdmitted, IsCommitted, ValidAttempt
<1>. QED
  BY <1>2, <1>3 DEF AttemptsStand

(* A committed bundle.                                                     *)
LEMMA BundleStandsStill ==
    ASSUME RemoteInv, Grows, NEW s \in Slots, IsCommitted(s)
    PROVE  /\ bundles'[s] = bundles[s]
           /\ \/ bundles'[s].doc = FailureDocument
              \/ /\ Measured(bundles[s].from, s)'
                 /\ bundles'[s].doc = Document(lane', calls'[bundles[s].from].trial)
                 /\ volume'[s].manifest = bundles[s].from
                 /\ volume'[s].normalized # NoDocument
                 /\ volume'[s].normalized.named = bundles[s].named
<1>1. bundles'[s] = bundles[s]
  BY DEF Grows
<1>2. CASE bundles[s].doc # FailureDocument
  <2>1. PICK c : /\ c = bundles[s].from /\ Measured(c, s)
                 /\ bundles[s].doc = Document(lane, calls[c].trial)
                 /\ volume[s].manifest = c /\ volume[s].normalized # NoDocument
                 /\ volume[s].normalized.named = bundles[s].named
    BY <1>2 DEF RemoteInv, BundlesStand
  <2>2. c \in Calls /\ c # NoCall /\ calls'[c].trial = calls[c].trial /\ lane' = lane
    BY <2>1, RemoteAssumption DEF Measured, OfSlot, Grows, Calls, NoCall
  <2>3. volume'[s].manifest = c /\ volume'[s].normalized = volume[s].normalized
    BY <2>1, <2>2 DEF Grows
  <2>4. Measured(c, s)'
    BY <2>1, GrowsKeeps
  <2>5. Measured(bundles[s].from, s)'
    BY <1>1, <2>1, <2>4 DEF Measured, OfSlot
  <2>. QED
    BY <1>1, <2>1, <2>2, <2>3, <2>5
<1>. QED
  BY <1>1, <1>2

(* The local store.                                                        *)
LEMMA BundlesKept ==
    ASSUME RemoteInv, Grows, bundles' = bundles PROVE BundlesStand'
<1>. SUFFICES ASSUME NEW s \in Slots, IsCommitted(s)', bundles'[s].doc # FailureDocument
              PROVE  /\ Measured(bundles[s].from, s)'
                     /\ bundles'[s].doc = Document(lane', calls'[bundles'[s].from].trial)
                     /\ volume'[s].manifest = bundles'[s].from
                     /\ volume'[s].normalized # NoDocument
                     /\ volume'[s].normalized.named = bundles'[s].named
  BY DEF BundlesStand
<1>1. IsCommitted(s)
  BY DEF IsCommitted
<1>. QED
  BY <1>1, BundleStandsStill

(* The steps that move a command only.                                     *)
LEMMA ReadingSteps ==
    ASSUME RemoteInv, NEW p \in Commands,
           \/ \E slot \in Slots, mode \in Modes : Begin(p, slot, mode)
           \/ ReadDispatch(p) \/ StagedPointer(p) \/ CallResult(p) \/ Pending(p)
           \/ GetRaises(p) \/ CollectStaged(p) \/ CheckFiles(p) \/ LoadDurable(p) \/ CommandDies(p)
    PROVE  RemoteInv' /\ Grows
<1>. DEFINE me == command[p]
<1>1. me \in CommandRecords /\ CommandStands(me)
  BY DEF RemoteInv, RemoteTypes
<1>2. Quit \in CommandRecords /\ CommandStands(Quit)
  <2>1. Quit \in CommandRecords /\ Quit.at = "idle"
    BY DEF Quit, CommandRecords, CallOrNone
  <2>. QED
    BY <2>1 DEF CommandStands, Started, Knowing, Collecting
<1>3. command \in [Commands -> CommandRecords]
  BY DEF RemoteInv, RemoteTypes
<1>4. CASE Ends(p) /\ UNCHANGED <<lane, dispatched, calls, staging, volume, bundles>>
  BY <1>2, <1>4, CommandMoves DEF Ends
<1>5. ASSUME NEW slot \in Slots, NEW mode \in Modes, Begin(p, slot, mode) PROVE RemoteInv' /\ Grows
  <2>. DEFINE you == [me EXCEPT !.at = "read", !.slot = slot, !.mode = mode]
  <2>1. command' = [command EXCEPT ![p] = you] /\ UNCHANGED <<lane, dispatched, calls, staging, volume, bundles>>
    BY <1>3, <1>5 DEF Begin
  <2>2. you \in CommandRecords /\ you.at = "read" /\ you.slot = slot
    BY <1>1, RemoteAssumption DEF CommandRecords, Started
  <2>3. Admitted(slot)
    <3>1. RetryAdmitted(slot) /\ PriorsAdmitted(slot)
      BY <1>5 DEF Begin
    <3>2. ASSUME NEW a \in 1 .. (slot[2] - 1)
          PROVE  IsCommitted(<<slot[1], a>>) /\ ~ValidAttempt(<<slot[1], a>>)
      <4>1. PICK r \in Nat, n \in Nat : r = slot[1] /\ n = slot[2]
        BY SlotsAreNested
      <4>2. n > 1 /\ n - 1 \in 1 .. (n - 1) /\ a \in 1 .. (n - 1)
        BY <4>1
      <4>3. IsCommitted(<<r, n - 1>>) /\ ~ValidAttempt(<<r, n - 1>>) /\ <<r, n - 1>> \in Slots
        BY <3>1, <4>1, <4>2, SlotsAreNested DEF RetryAdmitted
      <4>4. CASE a = n - 1
        BY <4>1, <4>3, <4>4
      <4>5. CASE a # n - 1
        <5>1. PICK b \in Nat : b = n - 1
          BY <4>2
        <5>2. a \in 1 .. (b - 1)
          BY <4>2, <4>5, <5>1
        <5>3. Admitted(<<r, b>>) /\ <<r, b>>[1] = r /\ <<r, b>>[2] = b
          BY <4>3, <5>1 DEF RemoteInv, AttemptsStand
        <5>. QED
          BY <4>1, <5>2, <5>3 DEF Admitted
      <4>. QED
        BY <4>4, <4>5
    <3>. QED
      BY <3>1, <3>2 DEF Admitted
  <2>4. CommandStands(you)
    <3>1. you # Quit
      BY <2>2 DEF Quit
    <3>. HIDE DEF you
    <3>. QED
      BY <2>2, <2>3, <3>1 DEF CommandStands, Knowing, Collecting
  <2>. QED
    BY <2>1, <2>2, <2>4, CommandMoves
<1>6. ASSUME NEW you \in CommandRecords, you.at \in Started, CommandStands(you),
             command' = [command EXCEPT ![p] = you],
             UNCHANGED <<lane, dispatched, calls, staging, volume, bundles>>
      PROVE  RemoteInv' /\ Grows
  BY <1>6, CommandMoves
<1>7. ASSUME NEW x \in Started, Moves(p, x), CommandStands([me EXCEPT !.at = x]),
             UNCHANGED <<lane, dispatched, calls, staging, volume, bundles>>
      PROVE  RemoteInv' /\ Grows
  <2>. DEFINE you == [me EXCEPT !.at = x]
  <2>1. you \in CommandRecords /\ you.at = x
    BY <1>1 DEF CommandRecords
  <2>2. command' = [command EXCEPT ![p] = you]
    BY <1>3, <1>7 DEF Moves
  <2>. HIDE DEF you
  <2>. QED
    BY <1>6, <1>7, <2>1, <2>2 DEF you
<1>8. CASE ReadDispatch(p)
  <2>1. me.at = "read" /\ me.slot \in Slots /\ Admitted(me.slot)
    BY <1>1, <1>8 DEF ReadDispatch, CommandStands, Started
  <2>2. CASE dispatched[me.slot] # NoCall /\ me.mode # "dispatch"
    <3>. DEFINE you == [me EXCEPT !.at = "wait", !.call = dispatched[me.slot]]
    <3>1. you \in CommandRecords /\ you.at = "wait" /\ you.slot = me.slot
          /\ you.call = dispatched[me.slot]
      BY <1>1, <2>1 DEF CommandRecords, RemoteInv, RemoteTypes, Started, Knowing
    <3>2. command' = [command EXCEPT ![p] = you]
      BY <1>3, <1>8, <2>2 DEF ReadDispatch
    <3>3. OfSlot(dispatched[me.slot], me.slot)
      BY <2>1, <2>2 DEF RemoteInv, CallsStand
    <3>. HIDE DEF you
    <3>4. CommandStands(you)
      <4>1. you # Quit
        BY <3>1 DEF Quit
      <4>. QED
        BY <2>1, <3>1, <3>3, <4>1 DEF CommandStands, Started, Knowing, Collecting
    <3>. QED
      BY <1>6, <1>8, <3>1, <3>2, <3>4 DEF ReadDispatch, Started, Knowing
  <2>3. CASE dispatched[me.slot] = NoCall /\ me.mode # "collect"
    <3>. DEFINE you == [me EXCEPT !.at = "spawn"]
    <3>1. you.at = "spawn" /\ you.slot = me.slot
      BY <1>1 DEF CommandRecords
    <3>2. Moves(p, "spawn")
      BY <1>8, <2>3 DEF ReadDispatch
    <3>3. CommandStands(you)
      <4>1. you # Quit
        BY <3>1 DEF Quit
      <4>. HIDE DEF you
      <4>. QED
        BY <2>1, <3>1, <4>1 DEF CommandStands, Started, Knowing, Collecting
    <3>. QED
      BY <1>7, <1>8, <3>2, <3>3 DEF ReadDispatch, Started
  <2>4. CASE Ends(p)
    BY <1>4, <1>8, <2>4 DEF ReadDispatch
  <2>. QED
    BY <1>8, <2>2, <2>3, <2>4 DEF ReadDispatch
<1>9. ASSUME NEW c \in Calls, Measured(c, me.slot), me.at = "wait", Answered(p, c),
             UNCHANGED <<lane, dispatched, calls, staging, volume, bundles>>
      PROVE  RemoteInv' /\ Grows
  <2>. DEFINE you == [me EXCEPT !.at = "stage", !.pointer = c]
  <2>1. you \in CommandRecords /\ you.at = "stage" /\ you.slot = me.slot /\ you.pointer = c
        /\ you.call = me.call
    BY <1>1 DEF CommandRecords, Started, Collecting, CallOrNone
  <2>2. command' = [command EXCEPT ![p] = you]
    BY <1>3, <1>9 DEF Answered
  <2>. HIDE DEF you
  <2>3. CommandStands(you)
    <3>1. you # Quit
      BY <2>1 DEF Quit
    <3>. QED
      BY <1>1, <1>9, <2>1, <3>1 DEF CommandStands, Started, Knowing, Collecting
  <2>. QED
    BY <1>6, <1>9, <2>1, <2>2, <2>3 DEF Started, Collecting
<1>10. CASE StagedPointer(p)
  <2>1. PICK c : c = staging[me.slot].manifest /\ c # NoCall
    BY <1>10 DEF StagedPointer
  <2>2. me.at = "wait" /\ me.slot \in Slots
    BY <1>1, <1>10 DEF StagedPointer, CommandStands, Started, Knowing
  <2>3. Measured(c, me.slot)
    BY <2>1, <2>2 DEF RemoteInv, CallsStand
  <2>4. c \in Calls
    BY <2>3 DEF Measured, OfSlot
  <2>5. Answered(p, c)
    BY <1>10, <2>1 DEF StagedPointer
  <2>. QED
    BY <1>9, <1>10, <2>2, <2>3, <2>4, <2>5 DEF StagedPointer
<1>11. ASSUME me.at = "wait", Moves(p, "fail"),
              UNCHANGED <<lane, dispatched, calls, staging, volume, bundles>>
       PROVE  RemoteInv' /\ Grows
  <2>. DEFINE you == [me EXCEPT !.at = "fail"]
  <2>1. you.at = "fail" /\ you.slot = me.slot /\ you.call = me.call
    BY <1>1 DEF CommandRecords
  <2>2. CommandStands(you)
    <3>1. you # Quit
      BY <2>1 DEF Quit
    <3>. HIDE DEF you
    <3>. QED
      BY <1>1, <1>11, <2>1, <3>1 DEF CommandStands, Started, Knowing, Collecting
  <2>. QED
    BY <1>7, <1>11, <2>2 DEF Started, Knowing
<1>12. CASE CallResult(p)
  <2>1. me.at = "wait" /\ me.slot \in Slots /\ OfSlot(me.call, me.slot)
    BY <1>1, <1>12 DEF CallResult, CommandStands, Started, Knowing
  <2>2. CASE calls[me.call].at = "returned" /\ Answered(p, me.call)
    <3>1. PICK c : c = me.call /\ c \in Calls /\ Measured(c, me.slot)
      BY <2>1, <2>2 DEF Measured, OfSlot
    <3>. QED
      BY <1>9, <1>12, <2>1, <2>2, <3>1 DEF CallResult
  <2>3. CASE Moves(p, "fail")
    BY <1>11, <1>12, <2>1, <2>3 DEF CallResult
  <2>. QED
    BY <1>12, <2>2, <2>3 DEF CallResult
<1>13. CASE Pending(p)
  BY <1>4, <1>13 DEF Pending
<1>14. CASE GetRaises(p)
  BY <1>4, <1>11, <1>14 DEF GetRaises
<1>15. CASE CollectStaged(p)
  <2>1. CASE Moves(p, "check")
    <3>. DEFINE you == [me EXCEPT !.at = "check"]
    <3>1. you.at = "check" /\ you.slot = me.slot /\ you.call = me.call /\ you.pointer = me.pointer
      BY <1>1 DEF CommandRecords
    <3>2. CommandStands(you)
      <4>1. you # Quit
        BY <3>1 DEF Quit
      <4>2. me.at = "stage"
        BY <1>15 DEF CollectStaged
      <4>. HIDE DEF you
      <4>. QED
        BY <1>1, <3>1, <4>1, <4>2 DEF CommandStands, Started, Knowing, Collecting
    <3>. QED
      BY <1>7, <1>15, <2>1, <3>2 DEF CollectStaged, Started, Collecting
  <2>. QED
    BY <1>4, <1>15, <2>1 DEF CollectStaged
<1>16. CASE CheckFiles(p)
  <2>. DEFINE absent == {f \in Files : volume[me.slot].files[f] = NoCall}
              next == IF absent = {} THEN "manifest" ELSE "upload"
              you == [me EXCEPT !.missing = absent, !.at = next]
  <2>1. CASE Ends(p)
    BY <1>4, <1>16, <2>1 DEF CheckFiles
  <2>2. CASE ~Ends(p)
    <3>1. /\ \A f \in Files \ absent : volume[me.slot].files[f] = me.pointer
          /\ command' = [command EXCEPT ![p] = you]
      BY <1>3, <1>16, <2>2 DEF CheckFiles
    <3>2. you \in CommandRecords /\ you.at = next /\ you.slot = me.slot /\ you.call = me.call
          /\ you.pointer = me.pointer /\ you.missing = absent
      BY <1>1 DEF CommandRecords, Started, Collecting
    <3>3. me.at = "check" /\ next \in {"manifest", "upload"} /\ next \in Started
      BY <1>16 DEF CheckFiles, Started, Collecting
    <3>4. next = "manifest" => Holds(me.slot, me.pointer)
      BY <3>1 DEF Holds
    <3>5. you # Quit
      BY <3>2, <3>3 DEF Quit
    <3>. HIDE DEF you, next, absent
    <3>6. CommandStands(you)
      BY <1>1, <3>1, <3>2, <3>3, <3>4, <3>5 DEF CommandStands, Started, Knowing, Collecting
    <3>. QED
      BY <1>6, <1>16, <3>1, <3>2, <3>3, <3>6 DEF CheckFiles
  <2>. QED
    BY <2>1, <2>2
<1>17. CASE LoadDurable(p)
  <2>1. CASE Moves(p, "publish")
    <3>. DEFINE you == [me EXCEPT !.at = "publish"]
    <3>1. you.at = "publish" /\ you.slot = me.slot /\ you.call = me.call /\ you.pointer = me.pointer
      BY <1>1 DEF CommandRecords
    <3>2. CommandStands(you)
      <4>1. you # Quit
        BY <3>1 DEF Quit
      <4>2. me.at = "load"
        BY <1>17 DEF LoadDurable
      <4>. HIDE DEF you
      <4>. QED
        BY <1>1, <3>1, <4>1, <4>2 DEF CommandStands, Started, Knowing, Collecting
    <3>. QED
      BY <1>7, <1>17, <2>1, <3>2 DEF LoadDurable, Started, Collecting
  <2>. QED
    BY <1>4, <1>17, <2>1 DEF LoadDurable
<1>18. CASE CommandDies(p)
  BY <1>4, <1>18 DEF CommandDies
<1>. QED
  BY <1>5, <1>8, <1>10, <1>12, <1>13, <1>14, <1>15, <1>16, <1>17, <1>18

(* A command that does not run.                                            *)
LEMMA QuitStands == Quit \in CommandRecords /\ CommandStands(Quit)'
<1>1. Quit \in CommandRecords /\ Quit.at = "idle"
  BY DEF Quit, CommandRecords, CallOrNone
<1>. QED
  BY <1>1 DEF CommandStands, Started, Knowing, Collecting

(* A step that ends its command.                                           *)
LEMMA EndingStands ==
    ASSUME RemoteInv, Grows, RemoteTypes', NEW p \in Commands, Ends(p)
    PROVE  \A q \in Commands : CommandStands(command[q])'
  BY QuitStands, CommandsStandStill DEF Ends

(* A new call, in the state Spawn leaves it in.                            *)
LEMMA SpawnStep ==
    ASSUME RemoteInv, NEW p \in Commands, Spawn(p) PROVE RemoteInv' /\ Grows
<1>. DEFINE me == command[p]
<1>1. /\ me \in CommandRecords /\ CommandStands(me) /\ me.at = "spawn"
      /\ command \in [Commands -> CommandRecords]
      /\ calls \in [Calls -> [slot : Slots \cup {NoSlot}, at : CallStates, trial : Trials]]
  BY DEF RemoteInv, RemoteTypes, Spawn
<1>2. PICK s \in Slots : s = me.slot /\ Admitted(s)
  BY <1>1 DEF CommandStands, Started
<1>3. PICK c \in Calls : /\ calls[c].at = "unused"
                         /\ calls' = [calls EXCEPT ![c].slot = s, ![c].at = "running"]
                         /\ command' = [command EXCEPT ![p].at = "record", ![p].call = c]
  BY <1>2 DEF Spawn
<1>4. /\ \A d \in Calls : d # c => calls'[d] = calls[d]
      /\ calls'[c].slot = s /\ calls'[c].at = "running" /\ calls'[c].trial = calls[c].trial
  BY <1>1, <1>3
<1>5. Grows
  BY <1>3, <1>4 DEF Grows, Spawn
<1>6. PICK you \in CommandRecords :
         /\ you.at = "record" /\ you.slot = s /\ you.call = c
         /\ command' = [command EXCEPT ![p] = you]
  <2>. DEFINE w == [me EXCEPT !.at = "record", !.call = c]
  <2>1. /\ w \in CommandRecords /\ w.at = "record" /\ w.slot = s /\ w.call = c
        /\ command' = [command EXCEPT ![p] = w]
    BY <1>1, <1>2, <1>3 DEF CommandRecords, Started, Knowing, CallOrNone
  <2>. QED
    BY <2>1
<1>7. RemoteTypes'
  <2>1. calls' \in [Calls -> [slot : Slots \cup {NoSlot}, at : CallStates, trial : Trials]]
    BY <1>1, <1>3 DEF CallStates
  <2>2. command' \in [Commands -> CommandRecords]
    BY <1>1, <1>6
  <2>. QED
    BY <2>1, <2>2 DEF RemoteInv, RemoteTypes, Spawn
<1>8. OfSlot(c, s)'
  BY <1>4 DEF OfSlot
<1>9. CallsStand'
  <2>1. \A d, t : (OfSlot(d, t) => OfSlot(d, t)') /\ (Measured(d, t) => Measured(d, t)')
    BY <1>5, GrowsKeeps
  <2>2. \A d \in Calls : IF calls'[d].at = "unused" THEN calls'[d].slot = NoSlot ELSE calls'[d].slot \in Slots
    BY <1>4 DEF RemoteInv, CallsStand
  <2>3. ASSUME NEW t \in Slots
        PROVE  /\ dispatched[t] # NoCall => OfSlot(dispatched[t], t)'
               /\ staging[t].bundle # NoCall => Measured(staging[t].bundle, t)'
               /\ staging[t].manifest # NoCall => Measured(staging[t].manifest, t)'
    <3>1. PICK x, y, z : x = dispatched[t] /\ y = staging[t].bundle /\ z = staging[t].manifest
      OBVIOUS
    <3>2. /\ x # NoCall => OfSlot(x, t)'
          /\ y # NoCall => Measured(y, t)'
          /\ z # NoCall => Measured(z, t)'
      BY <2>1, <3>1 DEF RemoteInv, CallsStand
    <3>. QED
      BY <3>1, <3>2 DEF OfSlot, Measured, Spawn
  <2>. QED
    BY <2>2, <2>3 DEF CallsStand, Spawn, OfSlot, Measured
<1>10. AttemptsStand'
  <2>1. \A t \in Slots : Admitted(t) => Admitted(t)'
    BY <1>5, GrowsKeeps
  <2>2. \A t \in Slots : IsCommitted(t)' => Admitted(t)'
    BY <2>1 DEF RemoteInv, AttemptsStand, IsCommitted, Spawn
  <2>3. \A d \in Calls : calls'[d].at # "unused" => calls'[d].slot \in Slots /\ Admitted(calls'[d].slot)
    BY <1>2, <1>4 DEF RemoteInv, AttemptsStand, CallsStand
  <2>4. \A d \in Calls : calls'[d].at # "unused" => Admitted(calls[d].slot)'
    <3>. SUFFICES ASSUME NEW d \in Calls, calls'[d].at # "unused" PROVE Admitted(calls[d].slot)'
      OBVIOUS
    <3>1. PICK t \in Slots : t = calls'[d].slot /\ Admitted(t)
      BY <2>3
    <3>2. Admitted(t)'
      BY <2>1, <3>1
    <3>. QED
      BY <3>1, <3>2 DEF Admitted, PriorsAdmitted, IsCommitted, ValidAttempt
  <2>. QED
    BY <2>2, <2>4 DEF AttemptsStand
<1>11. CommandStands(you)'
  <2>1. Admitted(s)'
    BY <1>2, <1>5, GrowsKeeps
  <2>2. you # Quit
    BY <1>6 DEF Quit
  <2>3. Admitted(you.slot)' /\ OfSlot(you.call, you.slot)'
    BY <1>6, <1>8, <2>1
  <2>. QED
    BY <1>6, <2>2, <2>3 DEF CommandStands, Started, Knowing, Collecting
<1>12. VolumeStands' /\ BundlesStand'
  BY <1>5, VolumeKept, BundlesKept DEF Spawn
<1>13. \A q \in Commands : CommandStands(command[q])'
  BY <1>5, <1>6, <1>7, <1>11, CommandsStandStill
<1>. QED
  BY <1>5, <1>7, <1>9, <1>10, <1>12, <1>13 DEF RemoteInv

(* The record of a call the provider has.                                  *)
LEMMA WriteDispatchStep ==
    ASSUME RemoteInv, NEW p \in Commands, WriteDispatch(p) PROVE RemoteInv' /\ Grows
<1>1. PICK me \in CommandRecords :
         /\ me = command[p] /\ CommandStands(me) /\ me.at = "record"
         /\ command \in [Commands -> CommandRecords]
  BY DEF RemoteInv, RemoteTypes, WriteDispatch
<1>2. PICK s \in Slots, c \in Calls : s = me.slot /\ c = me.call /\ OfSlot(c, s) /\ Admitted(s)
  BY <1>1 DEF CommandStands, Started, Knowing, OfSlot
<1>3. Grows
  BY DEF Grows, WriteDispatch
<1>4. dispatched' = [dispatched EXCEPT ![s] = c]
  BY <1>1, <1>2 DEF WriteDispatch
<1>5. PICK you \in CommandRecords :
         /\ you.at = "wait" /\ you.slot = s /\ you.call = c
         /\ Moves(p, "wait") => command' = [command EXCEPT ![p] = you]
  <2>. DEFINE w == [me EXCEPT !.at = "wait"]
  <2>1. w \in CommandRecords /\ w.at = "wait" /\ w.slot = s /\ w.call = c
    BY <1>1, <1>2 DEF CommandRecords, Started, Knowing
  <2>2. Moves(p, "wait") => command' = [command EXCEPT ![p] = w]
    BY <1>1 DEF Moves
  <2>. QED
    BY <2>1, <2>2
<1>7. RemoteTypes'
  <2>1. command' \in [Commands -> CommandRecords]
    BY <1>1, <1>5, QuitStands DEF WriteDispatch, Ends
  <2>2. dispatched' \in [Slots -> CallOrNone]
    BY <1>2, <1>4 DEF RemoteInv, RemoteTypes, CallOrNone
  <2>. QED
    BY <2>1, <2>2 DEF RemoteInv, RemoteTypes, WriteDispatch
<1>8. CallsStand'
  BY <1>2, <1>4 DEF RemoteInv, RemoteTypes, CallsStand, WriteDispatch, OfSlot, Measured
<1>9. VolumeStands' /\ BundlesStand' /\ AttemptsStand'
  BY <1>3, VolumeKept, BundlesKept, AttemptsKept DEF WriteDispatch
<1>10. CommandStands(you)'
  <2>1. Admitted(s)' /\ OfSlot(c, s)'
    BY <1>2, <1>3, GrowsKeeps
  <2>2. you # Quit
    BY <1>5 DEF Quit
  <2>3. Admitted(you.slot)' /\ OfSlot(you.call, you.slot)'
    BY <1>5, <2>1
  <2>. QED
    BY <1>2, <1>5, <2>2, <2>3 DEF CommandStands, Started, Knowing, Collecting
<1>11. \A q \in Commands : CommandStands(command[q])'
  <2>1. Ends(p) \/ command' = [command EXCEPT ![p] = you]
    BY <1>5 DEF WriteDispatch
  <2>. QED
    BY <1>3, <1>7, <1>10, <2>1, EndingStands, CommandsStandStill
<1>. QED
  BY <1>3, <1>7, <1>8, <1>9, <1>11 DEF RemoteInv

(* What is committed: a failure, or the evidence that was read back.       *)
LEMMA SaveKeeps ==
    ASSUME RemoteInv, NEW p \in Commands, NEW s \in Slots, s = command[p].slot, Admitted(s),
           NEW b \in [doc : Documents, from : CallOrNone, named : CallOrNone, committed : {TRUE}],
           \/ b.doc = FailureDocument
           \/ /\ Measured(b.from, s) /\ b.doc = Document(lane, calls[b.from].trial)
              /\ volume[s].manifest = b.from /\ volume[s].normalized # NoDocument
              /\ volume[s].normalized.named = b.named,
           Save(p, b), UNCHANGED <<lane, dispatched, calls, staging, volume>>
    PROVE  RemoteInv' /\ Grows
<1>1. /\ bundles' = IF IsCommitted(s) THEN bundles ELSE [bundles EXCEPT ![s] = b]
      /\ Ends(p)
  BY DEF Save
<1>2. bundles \in [Slots -> [doc : Documents, from : CallOrNone, named : CallOrNone, committed : BOOLEAN]]
  BY DEF RemoteInv, RemoteTypes
<1>3. \A t \in Slots : \/ bundles'[t] = bundles[t]
                       \/ t = s /\ bundles'[t] = b /\ ~IsCommitted(t)
  BY <1>1, <1>2
<1>4. Grows
  BY <1>3 DEF Grows
<1>5. RemoteTypes'
  <2>1. bundles' \in [Slots -> [doc : Documents, from : CallOrNone, named : CallOrNone, committed : BOOLEAN]]
    BY <1>1, <1>2
  <2>2. command' \in [Commands -> CommandRecords]
    BY <1>1, QuitStands DEF Ends, RemoteInv, RemoteTypes
  <2>. QED
    BY <2>1, <2>2 DEF RemoteInv, RemoteTypes
<1>6. CallsStand' /\ VolumeStands'
  BY <1>4, CallsKept, VolumeKept
<1>7. AttemptsStand'
  <2>1. \A t \in Slots : Admitted(t) => Admitted(t)'
    BY <1>4, GrowsKeeps
  <2>2. \A t \in Slots : IsCommitted(t)' => Admitted(t)
    BY <1>3 DEF RemoteInv, AttemptsStand, IsCommitted
  <2>3. ASSUME NEW d \in Calls, calls'[d].at # "unused" PROVE Admitted(calls[d].slot)'
    <3>1. PICK t \in Slots : t = calls[d].slot /\ Admitted(t) /\ calls' = calls
      BY <2>3 DEF RemoteInv, AttemptsStand, CallsStand
    <3>2. Admitted(t)'
      BY <2>1, <3>1
    <3>. QED
      BY <3>1, <3>2
  <2>. QED
    BY <2>1, <2>2, <2>3 DEF AttemptsStand
<1>8. BundlesStand'
  <2>. SUFFICES ASSUME NEW t \in Slots, IsCommitted(t)', bundles'[t].doc # FailureDocument
                PROVE  /\ Measured(bundles[t].from, t)'
                       /\ bundles'[t].doc = Document(lane', calls'[bundles'[t].from].trial)
                       /\ volume'[t].manifest = bundles'[t].from
                       /\ volume'[t].normalized # NoDocument
                       /\ volume'[t].normalized.named = bundles'[t].named
    BY DEF BundlesStand
  <2>1. CASE IsCommitted(t)
    BY <1>4, <2>1, BundleStandsStill
  <2>2. CASE ~IsCommitted(t)
    <3>1. t = s /\ bundles'[t] = b
      BY <1>3, <2>2 DEF IsCommitted
    <3>2. Measured(bundles[t].from, t)'
      BY <3>1 DEF Measured, OfSlot
    <3>. QED
      BY <3>1, <3>2
  <2>. QED
    BY <2>1, <2>2
<1>9. \A q \in Commands : CommandStands(command[q])'
  BY <1>1, <1>4, <1>5, EndingStands
<1>. QED
  BY <1>4, <1>5, <1>6, <1>7, <1>8, <1>9 DEF RemoteInv

(* A command commits the failure of its call, or the evidence.             *)
LEMMA SaveSteps ==
    ASSUME RemoteInv, NEW p \in Commands, SaveFailure(p) \/ CommitBundle(p)
    PROVE  RemoteInv' /\ Grows
<1>1. PICK me \in CommandRecords :
         /\ me = command[p] /\ CommandStands(me) /\ me.at \in {"fail", "commit"}
         /\ me.at = "fail" <=> SaveFailure(p)
  BY DEF RemoteInv, RemoteTypes, SaveFailure, CommitBundle
<1>2. PICK s \in Slots, c \in Calls : s = me.slot /\ c = me.call /\ OfSlot(c, s) /\ Admitted(s)
  BY <1>1 DEF CommandStands, Started, Knowing, Collecting, OfSlot
<1>3. CASE SaveFailure(p)
  <2>. DEFINE b == [doc |-> FailureDocument, from |-> NoCall, named |-> me.call, committed |-> TRUE]
  <2>1. b \in [doc : Documents, from : CallOrNone, named : CallOrNone, committed : {TRUE}]
    BY <1>2, DocumentsAreTyped DEF CallOrNone
  <2>2. Save(p, b) /\ b.doc = FailureDocument
    BY <1>1, <1>3 DEF SaveFailure
  <2>. HIDE DEF b
  <2>. QED
    BY <1>1, <1>2, <1>3, <2>1, <2>2, SaveKeeps DEF SaveFailure
<1>4. CASE CommitBundle(p)
  <2>1. PICK f \in Calls : f = me.pointer /\ Measured(f, s)
    BY <1>1, <1>2, <1>4 DEF CommandStands, Collecting, Measured, OfSlot, CommitBundle
  <2>2. PICK d : d = Document(lane, calls[f].trial) /\ d \in Documents
    BY DocumentsAreTyped DEF RemoteInv, RemoteTypes
  <2>3. /\ volume[s].manifest = f
        /\ volume[s].normalized # NoDocument /\ volume[s].normalized.named = c
    BY <1>1, <1>2, <1>4, <2>1 DEF CommandStands, CommitBundle
  <2>. DEFINE b == [doc |-> d, from |-> f, named |-> c, committed |-> TRUE]
  <2>4. b \in [doc : Documents, from : CallOrNone, named : CallOrNone, committed : {TRUE}]
    BY <2>2 DEF CallOrNone
  <2>5. Save(p, b)
    BY <1>1, <1>2, <1>4, <2>1, <2>2 DEF CommitBundle
  <2>6. /\ Measured(b.from, s) /\ b.doc = Document(lane, calls[b.from].trial)
        /\ volume[s].manifest = b.from /\ volume[s].normalized # NoDocument
        /\ volume[s].normalized.named = b.named
    BY <2>1, <2>2, <2>3
  <2>. HIDE DEF b
  <2>. QED
    BY <1>1, <1>2, <1>4, <2>4, <2>5, <2>6, SaveKeeps DEF CommitBundle
<1>. QED
  BY <1>3, <1>4

-----------------------------------------------------------------------------
(* The durable volume.                                                     *)
LEMMA VolumeStandsStill ==
    ASSUME RemoteInv, Grows,
           \A s \in Slots : /\ volume'[s].manifest = volume[s].manifest
                            /\ volume'[s].normalized = volume[s].normalized
    PROVE  VolumeStands'
<1>. SUFFICES ASSUME NEW s \in Slots, volume[s].manifest # NoCall
              PROVE  Holds(s, volume[s].manifest)' /\ Measured(volume[s].manifest, s)'
  BY DEF RemoteInv, VolumeStands
<1>1. PICK c : c = volume[s].manifest /\ Holds(s, c) /\ Measured(c, s) /\ c = volume'[s].manifest
  BY DEF RemoteInv, VolumeStands
<1>2. Measured(c, s)' /\ Holds(s, c)'
  BY <1>1, GrowsKeeps DEF Measured, OfSlot
<1>. QED
  BY <1>1, <1>2 DEF Holds, Measured, OfSlot

(* Files are stored where there were none.                                 *)
LEMMA UploadKeeps ==
    ASSUME RemoteInv, NEW p \in Commands, NEW s \in Slots, s = command[p].slot,
           NEW c \in Calls, c = command[p].pointer, NEW some \in SUBSET Files,
           \A f \in some : volume[s].files[f] = NoCall,
           Uploaded(p, some), UNCHANGED <<lane, dispatched, calls, staging, bundles>>
    PROVE  /\ Grows /\ VolumeStands' /\ CallsStand' /\ AttemptsStand' /\ BundlesStand'
           /\ volume' \in [Slots -> VolumeRecords]
           /\ \A f \in Files : volume'[s].files[f] = IF f \in some THEN c ELSE volume[s].files[f]
<1>1. volume \in [Slots -> VolumeRecords]
  BY DEF RemoteInv, RemoteTypes
<1>2. volume' = [volume EXCEPT ![s].files = [f \in Files |-> IF f \in some THEN c ELSE volume[s].files[f]]]
  BY <1>1 DEF Uploaded
<1>3. volume' \in [Slots -> VolumeRecords]
  <2>1. PICK g : g = [f \in Files |-> IF f \in some THEN c ELSE volume[s].files[f]]
    OBVIOUS
  <2>2. g \in [Files -> CallOrNone]
    BY <1>1, <2>1 DEF VolumeRecords, CallOrNone
  <2>3. volume' = [volume EXCEPT ![s].files = g]
    BY <1>2, <2>1
  <2>. QED
    BY <1>1, <2>2, <2>3 DEF VolumeRecords
<1>4. \A f \in Files : volume'[s].files[f] = IF f \in some THEN c ELSE volume[s].files[f]
  BY <1>1, <1>2 DEF VolumeRecords
<1>5. \A t \in Slots : /\ volume'[t].manifest = volume[t].manifest
                       /\ volume'[t].normalized = volume[t].normalized
                       /\ t # s => volume'[t] = volume[t]
  BY <1>1, <1>2 DEF VolumeRecords
<1>6. Grows
  BY <1>4, <1>5 DEF Grows
<1>7. VolumeStands' /\ CallsStand' /\ AttemptsStand' /\ BundlesStand'
  BY <1>5, <1>6, VolumeStandsStill, CallsKept, AttemptsKept, BundlesKept
<1>. QED
  BY <1>3, <1>4, <1>6, <1>7

(* An upload, whole or broken off.                                         *)
LEMMA UploadSteps ==
    ASSUME RemoteInv, NEW p \in Commands, UploadFiles(p) \/ UploadBreaks(p)
    PROVE  RemoteInv' /\ Grows
<1>1. PICK me \in CommandRecords :
         /\ me = command[p] /\ CommandStands(me) /\ me.at = "upload"
         /\ command \in [Commands -> CommandRecords]
  BY DEF RemoteInv, RemoteTypes, UploadFiles, UploadBreaks
<1>2. PICK s \in Slots, c \in Calls :
         s = me.slot /\ c = me.pointer /\ OfSlot(me.call, s) /\ Measured(c, s) /\ Admitted(s)
  BY <1>1 DEF CommandStands, Started, Collecting, Measured, OfSlot
<1>3. me.missing \in SUBSET Files
  BY DEF CommandRecords
<1>4. UNCHANGED <<lane, dispatched, calls, staging, bundles>>
  BY DEF UploadFiles, UploadBreaks
<1>5. ASSUME NEW some \in SUBSET me.missing, Uploaded(p, some), Ends(p),
             \A f \in me.missing : volume[s].files[f] = NoCall
      PROVE  RemoteInv' /\ Grows
  <2>1. /\ Grows /\ VolumeStands' /\ CallsStand' /\ AttemptsStand' /\ BundlesStand'
        /\ volume' \in [Slots -> VolumeRecords]
    BY <1>1, <1>2, <1>3, <1>4, <1>5, UploadKeeps
  <2>2. RemoteTypes'
    BY <1>1, <1>4, <1>5, <2>1, QuitStands DEF RemoteInv, RemoteTypes, Ends
  <2>. QED
    BY <1>5, <2>1, <2>2, EndingStands DEF RemoteInv
<1>6. CASE /\ \A f \in me.missing : volume[s].files[f] = NoCall
           /\ Uploaded(p, me.missing) /\ Moves(p, "manifest")
  <2>1. /\ Grows /\ VolumeStands' /\ CallsStand' /\ AttemptsStand' /\ BundlesStand'
        /\ volume' \in [Slots -> VolumeRecords]
        /\ \A f \in Files : volume'[s].files[f] = IF f \in me.missing THEN c ELSE volume[s].files[f]
    BY <1>1, <1>2, <1>3, <1>4, <1>6, UploadKeeps
  <2>2. PICK you \in CommandRecords :
           /\ you.at = "manifest" /\ you.slot = s /\ you.call = me.call /\ you.pointer = c
           /\ command' = [command EXCEPT ![p] = you]
    <3>. DEFINE w == [me EXCEPT !.at = "manifest"]
    <3>1. /\ w \in CommandRecords /\ w.at = "manifest" /\ w.slot = s /\ w.call = me.call
          /\ w.pointer = c
      BY <1>1, <1>2 DEF CommandRecords, Started, Collecting
    <3>2. command' = [command EXCEPT ![p] = w]
      BY <1>1, <1>6 DEF Moves
    <3>. QED
      BY <3>1, <3>2
  <2>3. RemoteTypes'
    BY <1>1, <1>4, <2>1, <2>2 DEF RemoteInv, RemoteTypes
  <2>4. CommandStands(you)'
    <3>1. Admitted(s)' /\ OfSlot(me.call, s)' /\ Measured(c, s)'
      <4>1. PICK d : d = me.call /\ OfSlot(d, s)
        BY <1>2
      <4>2. OfSlot(d, s)' /\ Measured(c, s)' /\ Admitted(s)'
        BY <1>2, <2>1, <4>1, GrowsKeeps
      <4>. QED
        BY <4>1, <4>2
    <3>2. Holds(s, c)'
      <4>1. \A f \in Files : volume'[s].files[f] = c
        BY <1>1, <1>2, <2>1 DEF CommandStands
      <4>. QED
        BY <4>1 DEF Holds
    <3>3. Admitted(you.slot)' /\ OfSlot(you.call, you.slot)' /\ Measured(you.pointer, you.slot)'
          /\ Holds(you.slot, you.pointer)'
      BY <2>2, <3>1, <3>2
    <3>4. you # Quit
      BY <2>2 DEF Quit
    <3>. QED
      BY <2>2, <3>3, <3>4 DEF CommandStands, Started, Knowing, Collecting
  <2>. QED
    BY <2>1, <2>2, <2>3, <2>4, CommandsStandStill DEF RemoteInv
<1>7. CASE UNCHANGED volume /\ Ends(p)
  <2>1. Grows
    BY <1>4, <1>7 DEF Grows
  <2>2. RemoteTypes'
    BY <1>1, <1>4, <1>7, QuitStands DEF RemoteInv, RemoteTypes, Ends
  <2>. QED
    BY <1>4, <1>7, <2>1, <2>2, VolumeKept, CallsKept, AttemptsKept, BundlesKept, EndingStands
       DEF RemoteInv
<1>8. CASE UploadFiles(p)
  BY <1>1, <1>2, <1>6, <1>7, <1>8 DEF UploadFiles
<1>9. CASE UploadBreaks(p)
  BY <1>1, <1>2, <1>5, <1>9 DEF UploadBreaks
<1>. QED
  BY <1>8, <1>9

(* What is left of a step that publishes a document and moves its command. *)
LEMMA PublishingKeeps ==
    ASSUME RemoteInv, NEW p \in Commands, Grows, VolumeStands',
           volume' \in [Slots -> VolumeRecords],
           UNCHANGED <<lane, dispatched, calls, staging, bundles>>,
           \/ Ends(p)
           \/ \E you \in CommandRecords :
                 command' = [command EXCEPT ![p] = you] /\ CommandStands(you)'
    PROVE  RemoteInv'
<1>1. RemoteTypes'
  BY QuitStands DEF RemoteInv, RemoteTypes, Ends
<1>. QED
  BY <1>1, CallsKept, AttemptsKept, BundlesKept, EndingStands, CommandsStandStill DEF RemoteInv

(* The manifest is published over none or over itself.                     *)
LEMMA ManifestStep ==
    ASSUME RemoteInv, NEW p \in Commands, UploadManifest(p) PROVE RemoteInv' /\ Grows
<1>1. PICK me \in CommandRecords :
         /\ me = command[p] /\ CommandStands(me) /\ me.at = "manifest"
         /\ command \in [Commands -> CommandRecords] /\ volume \in [Slots -> VolumeRecords]
  BY DEF RemoteInv, RemoteTypes, UploadManifest
<1>2. PICK s \in Slots, c \in Calls, d \in Calls :
         /\ s = me.slot /\ c = me.pointer /\ d = me.call
         /\ OfSlot(d, s) /\ Measured(c, s) /\ Admitted(s) /\ Holds(s, c)
  BY <1>1 DEF CommandStands, Started, Collecting, Measured, OfSlot
<1>3. UNCHANGED <<lane, dispatched, calls, staging, bundles>>
  BY DEF UploadManifest
<1>4. CASE UNCHANGED volume /\ Ends(p)
  <2>1. Grows
    BY <1>3, <1>4 DEF Grows
  <2>. QED
    BY <1>1, <1>3, <1>4, <2>1, VolumeKept, PublishingKeeps
<1>5. CASE /\ volume[s].manifest \in {NoCall, c}
           /\ volume' = [volume EXCEPT ![s].manifest = c] /\ Moves(p, "load")
  <2>1. /\ volume' \in [Slots -> VolumeRecords] /\ volume'[s].manifest = c
        /\ \A t \in Slots : /\ t # s => volume'[t] = volume[t]
                            /\ volume'[t].files = volume[t].files
                            /\ volume'[t].normalized = volume[t].normalized
    BY <1>1, <1>5 DEF VolumeRecords, CallOrNone
  <2>2. Grows
    BY <1>3, <1>5, <2>1 DEF Grows
  <2>3. Admitted(s)' /\ OfSlot(d, s)' /\ Measured(c, s)' /\ Holds(s, c)'
    BY <1>2, <2>2, GrowsKeeps
  <2>4. VolumeStands'
    <3>. SUFFICES ASSUME NEW t \in Slots
                  PROVE  /\ volume'[t].manifest # NoCall =>
                              Holds(t, volume[t].manifest)' /\ Measured(volume[t].manifest, t)'
                         /\ volume'[t].normalized # NoDocument =>
                              /\ volume'[t].normalized.from = volume'[t].manifest
                              /\ volume'[t].manifest # NoCall
      BY DEF VolumeStands
    <3>1. CASE t = s
      <4>1. volume[t].normalized # NoDocument => volume[t].normalized.from = c /\ volume[t].manifest = c
        BY <1>5, <3>1 DEF RemoteInv, VolumeStands
      <4>2. c # NoCall
        BY RemoteAssumption DEF Calls, NoCall
      <4>. QED
        BY <2>1, <2>3, <3>1, <4>1, <4>2 DEF Holds, Measured, OfSlot
    <3>2. CASE t # s
      <4>1. PICK e : e = volume[t].manifest /\ e = volume'[t].manifest
        BY <2>1, <3>2
      <4>2. e # NoCall => Holds(t, e)' /\ Measured(e, t)'
        BY <1>3, <2>1, <3>2, <4>1 DEF RemoteInv, VolumeStands, Holds, Measured, OfSlot
      <4>. QED
        BY <2>1, <3>2, <4>1, <4>2 DEF RemoteInv, VolumeStands, Holds, Measured, OfSlot
    <3>. QED
      BY <3>1, <3>2
  <2>5. PICK you \in CommandRecords :
           /\ you.at = "load" /\ you.slot = s /\ you.call = d /\ you.pointer = c
           /\ command' = [command EXCEPT ![p] = you]
    <3>. DEFINE w == [me EXCEPT !.at = "load"]
    <3>1. w \in CommandRecords /\ w.at = "load" /\ w.slot = s /\ w.call = d /\ w.pointer = c
      BY <1>1, <1>2 DEF CommandRecords, Started, Collecting
    <3>2. command' = [command EXCEPT ![p] = w]
      BY <1>1, <1>5 DEF Moves
    <3>. QED
      BY <3>1, <3>2
  <2>6. CommandStands(you)'
    <3>1. Admitted(you.slot)' /\ OfSlot(you.call, you.slot)' /\ Measured(you.pointer, you.slot)'
          /\ Holds(you.slot, you.pointer)' /\ volume'[you.slot].manifest = you.pointer
      BY <2>1, <2>3, <2>5
    <3>2. you # Quit
      BY <2>5 DEF Quit
    <3>. QED
      BY <2>5, <3>1, <3>2 DEF CommandStands, Started, Knowing, Collecting
  <2>. QED
    BY <1>3, <2>1, <2>2, <2>4, <2>5, <2>6, PublishingKeeps
<1>. QED
  BY <1>1, <1>2, <1>4, <1>5 DEF UploadManifest

(* So is the normalised document.                                          *)
LEMMA NormalizedStep ==
    ASSUME RemoteInv, NEW p \in Commands, PublishNormalized(p) PROVE RemoteInv' /\ Grows
<1>1. PICK me \in CommandRecords :
         /\ me = command[p] /\ CommandStands(me) /\ me.at = "publish"
         /\ command \in [Commands -> CommandRecords] /\ volume \in [Slots -> VolumeRecords]
  BY DEF RemoteInv, RemoteTypes, PublishNormalized
<1>2. PICK s \in Slots, c \in Calls, d \in Calls :
         /\ s = me.slot /\ c = me.pointer /\ d = me.call
         /\ OfSlot(d, s) /\ Measured(c, s) /\ Admitted(s) /\ Holds(s, c)
         /\ volume[s].manifest = c
  BY <1>1 DEF CommandStands, Started, Collecting, Measured, OfSlot
<1>3. UNCHANGED <<lane, dispatched, calls, staging, bundles>>
  BY DEF PublishNormalized
<1>4. PICK ms \in 1 .. 2 :
         IF volume[s].normalized \in {NoDocument, Normalized(p, ms)}
           THEN /\ volume' = [volume EXCEPT ![s].normalized = Normalized(p, ms)]
                /\ Moves(p, "commit")
           ELSE UNCHANGED volume /\ Ends(p)
  BY <1>1, <1>2 DEF PublishNormalized
<1>5. CASE UNCHANGED volume /\ Ends(p)
  <2>1. Grows
    BY <1>3, <1>5 DEF Grows
  <2>. QED
    BY <1>1, <1>3, <1>5, <2>1, VolumeKept, PublishingKeeps
<1>6. CASE /\ volume[s].normalized \in {NoDocument, Normalized(p, ms)}
           /\ volume' = [volume EXCEPT ![s].normalized = Normalized(p, ms)] /\ Moves(p, "commit")
  <2>1. PICK n \in [from : CallOrNone, named : CallOrNone, observed : 0 .. 2] :
           n = Normalized(p, ms) /\ n.from = c /\ n.named = d /\ n # NoDocument
    <3>1. c # NoCall
      BY RemoteAssumption DEF Calls, NoCall
    <3>2. [from |-> c, named |-> d, observed |-> ms] \in [from : CallOrNone, named : CallOrNone, observed : 0 .. 2]
      BY DEF CallOrNone
    <3>3. Normalized(p, ms) = [from |-> c, named |-> d, observed |-> ms]
      BY <1>1, <1>2 DEF Normalized
    <3>. QED
      BY <3>1, <3>2, <3>3 DEF NoDocument
  <2>2. /\ volume' \in [Slots -> VolumeRecords] /\ volume'[s].normalized = n
        /\ \A t \in Slots : /\ t # s => volume'[t] = volume[t]
                            /\ volume'[t].files = volume[t].files
                            /\ volume'[t].manifest = volume[t].manifest
    BY <1>1, <1>6, <2>1 DEF VolumeRecords
  <2>3. Grows
    BY <1>3, <1>6, <2>1, <2>2 DEF Grows
  <2>4. Admitted(s)' /\ OfSlot(d, s)' /\ Measured(c, s)' /\ Holds(s, c)'
    BY <1>2, <2>3, GrowsKeeps
  <2>5. VolumeStands'
    <3>. SUFFICES ASSUME NEW t \in Slots
                  PROVE  /\ volume'[t].manifest # NoCall =>
                              Holds(t, volume[t].manifest)' /\ Measured(volume[t].manifest, t)'
                         /\ volume'[t].normalized # NoDocument =>
                              /\ volume'[t].normalized.from = volume'[t].manifest
                              /\ volume'[t].manifest # NoCall
      BY DEF VolumeStands
    <3>1. volume'[t].manifest # NoCall =>
             Holds(t, volume[t].manifest)' /\ Measured(volume[t].manifest, t)'
      BY <1>3, <2>2 DEF RemoteInv, VolumeStands, Holds, Measured, OfSlot
    <3>2. c # NoCall
      BY RemoteAssumption DEF Calls, NoCall
    <3>3. volume'[t].normalized # NoDocument =>
             volume'[t].normalized.from = volume'[t].manifest /\ volume'[t].manifest # NoCall
      BY <1>2, <2>1, <2>2, <3>2 DEF RemoteInv, VolumeStands
    <3>. QED
      BY <3>1, <3>3
  <2>6. PICK you \in CommandRecords :
           /\ you.at = "commit" /\ you.slot = s /\ you.call = d /\ you.pointer = c
           /\ command' = [command EXCEPT ![p] = you]
    <3>. DEFINE w == [me EXCEPT !.at = "commit"]
    <3>1. w \in CommandRecords /\ w.at = "commit" /\ w.slot = s /\ w.call = d /\ w.pointer = c
      BY <1>1, <1>2 DEF CommandRecords, Started, Collecting
    <3>2. command' = [command EXCEPT ![p] = w]
      BY <1>1, <1>6 DEF Moves
    <3>. QED
      BY <3>1, <3>2
  <2>7. CommandStands(you)'
    <3>1. Admitted(you.slot)' /\ OfSlot(you.call, you.slot)' /\ Measured(you.pointer, you.slot)'
          /\ Holds(you.slot, you.pointer)' /\ volume'[you.slot].manifest = you.pointer
          /\ volume'[you.slot].normalized # NoDocument
          /\ volume'[you.slot].normalized.named = you.call
      BY <1>2, <2>1, <2>2, <2>4, <2>6
    <3>2. you # Quit
      BY <2>6 DEF Quit
    <3>. QED
      BY <2>6, <3>1, <3>2 DEF CommandStands, Started, Knowing, Collecting
  <2>. QED
    BY <1>3, <2>2, <2>3, <2>5, <2>6, <2>7, PublishingKeeps
<1>. QED
  BY <1>4, <1>5, <1>6

-----------------------------------------------------------------------------
(* The provider.                                                           *)
CallRecords    == [slot : Slots \cup {NoSlot}, at : CallStates, trial : Trials]
StagingRecords == [bundle : CallOrNone, manifest : CallOrNone]

(* A call that goes on, with what it stages.                               *)
LEMMA CallsMove ==
    ASSUME RemoteInv, NEW c \in Calls, NEW after \in CallRecords,
           calls[c].at # "unused", calls' = [calls EXCEPT ![c] = after],
           after.slot = calls[c].slot, after.at \notin {"unused", "running"},
           calls[c].at # "running" => after.trial = calls[c].trial,
           NEW s \in Slots, s = calls[c].slot,
           staging' \in [Slots -> StagingRecords],
           \A t \in Slots : /\ staging'[t].bundle \in {staging[t].bundle, NoCall, c}
                            /\ staging'[t].manifest \in {staging[t].manifest, NoCall, c}
                            /\ t # s => staging'[t] = staging[t],
           UNCHANGED <<lane, dispatched, volume, bundles, command>>
    PROVE  RemoteInv' /\ Grows
<1>1. calls \in [Calls -> CallRecords]
  BY DEF RemoteInv, RemoteTypes, CallRecords
<1>2. calls'[c] = after /\ \A d \in Calls : d # c => calls'[d] = calls[d]
  BY <1>1
<1>3. Grows
  BY <1>2 DEF Grows
<1>4. RemoteTypes'
  <2>1. calls' \in [Calls -> CallRecords]
    BY <1>1
  <2>. QED
    BY <2>1 DEF RemoteInv, RemoteTypes, CallRecords, StagingRecords
<1>5. OfSlot(c, s)' /\ Measured(c, s)'
  BY <1>2 DEF OfSlot, Measured
<1>6. CallsStand'
  <2>1. \A d, t : (OfSlot(d, t) => OfSlot(d, t)') /\ (Measured(d, t) => Measured(d, t)')
    BY <1>3, GrowsKeeps
  <2>2. \A d \in Calls : IF calls'[d].at = "unused" THEN calls'[d].slot = NoSlot ELSE calls'[d].slot \in Slots
    BY <1>2 DEF RemoteInv, CallsStand
  <2>3. ASSUME NEW t \in Slots
        PROVE  /\ dispatched'[t] # NoCall => OfSlot(dispatched[t], t)'
               /\ staging'[t].bundle # NoCall => Measured(staging[t].bundle, t)'
               /\ staging'[t].manifest # NoCall => Measured(staging[t].manifest, t)'
    <3>1. PICK x, y, z : x = dispatched'[t] /\ y = staging'[t].bundle /\ z = staging'[t].manifest
      OBVIOUS
    <3>2. x # NoCall => OfSlot(x, t)'
      BY <2>1, <3>1 DEF RemoteInv, CallsStand
    <3>3. y # NoCall => Measured(y, t)'
      BY <1>5, <2>1, <3>1 DEF RemoteInv, CallsStand
    <3>4. z # NoCall => Measured(z, t)'
      BY <1>5, <2>1, <3>1 DEF RemoteInv, CallsStand
    <3>. QED
      BY <3>1, <3>2, <3>3, <3>4 DEF OfSlot, Measured
  <2>. QED
    BY <2>2, <2>3 DEF CallsStand
<1>7. AttemptsStand' /\ VolumeStands' /\ BundlesStand'
  BY <1>2, <1>3, AttemptsKept, VolumeKept, BundlesKept
<1>8. \A q \in Commands : CommandStands(command[q])'
  BY <1>3, <1>4, CommandsStandStill
<1>. QED
  BY <1>3, <1>4, <1>6, <1>7, <1>8 DEF RemoteInv

(* The steps of a container and of the provider.                           *)
LEMMA ProviderSteps ==
    ASSUME RemoteInv, NEW c \in Calls, CallSteps(c) \/ CallIsLost(c)
    PROVE  RemoteInv' /\ Grows
<1>1. /\ calls \in [Calls -> CallRecords]
      /\ staging \in [Slots -> StagingRecords]
      /\ calls[c].at # "unused"
  BY DEF RemoteInv, RemoteTypes, CallRecords, StagingRecords, CallSteps, MeasureAndStage,
         StageManifest, CallReturns, CallIsLost
<1>2. PICK s \in Slots : s = calls[c].slot
  BY <1>1 DEF RemoteInv, CallsStand
<1>3. UNCHANGED <<lane, dispatched, volume, bundles, command>>
  BY DEF CallSteps, MeasureAndStage, StageManifest, CallReturns, CallIsLost
<1>4. ASSUME NEW x \in {"staged", "returned", "failed", "expired"},
             calls' = [calls EXCEPT ![c].at = x],
             \/ UNCHANGED staging
             \/ staging' = [staging EXCEPT ![s].manifest = c],
             x = "failed" \/ calls[c].at # "running"
      PROVE  RemoteInv' /\ Grows
  <2>1. PICK w \in CallRecords :
           /\ w.at = x /\ w.slot = calls[c].slot /\ w.trial = calls[c].trial
           /\ calls' = [calls EXCEPT ![c] = w]
    <3>. DEFINE v == [calls[c] EXCEPT !.at = x]
    <3>1. /\ v \in CallRecords
          /\ v.at = x /\ v.slot = calls[c].slot /\ v.trial = calls[c].trial
      BY <1>1 DEF CallStates, CallRecords
    <3>2. calls' = [calls EXCEPT ![c] = v]
      BY <1>1, <1>4
    <3>. QED
      BY <3>1, <3>2
  <2>2. staging' \in [Slots -> StagingRecords]
    BY <1>1, <1>4 DEF CallOrNone, StagingRecords
  <2>3. \A t \in Slots : /\ staging'[t].bundle \in {staging[t].bundle, NoCall, c}
                         /\ staging'[t].manifest \in {staging[t].manifest, NoCall, c}
                         /\ t # s => staging'[t] = staging[t]
    BY <1>1, <1>4 DEF StagingRecords
  <2>4. w.at \notin {"unused", "running"} /\ w.slot = calls[c].slot /\ w.trial = calls[c].trial
    BY <2>1
  <2>. QED
    BY <1>1, <1>2, <1>3, <2>1, <2>2, <2>3, <2>4, CallsMove
<1>5. CASE MeasureAndStage(c)
  <2>1. CASE /\ calls' = [calls EXCEPT ![c].at = "failed"] /\ UNCHANGED staging
    BY <1>4, <2>1
  <2>2. ASSUME NEW trial \in Likely,
               calls' = [calls EXCEPT ![c].at = "bundled", ![c].trial = trial],
               staging' = [staging EXCEPT ![s].bundle = c]
        PROVE  RemoteInv' /\ Grows
    <3>1. PICK w \in CallRecords :
             /\ w.at = "bundled" /\ w.slot = calls[c].slot
             /\ calls' = [calls EXCEPT ![c] = w]
      <4>. DEFINE v == [calls[c] EXCEPT !.at = "bundled", !.trial = trial]
      <4>1. /\ v \in CallRecords
            /\ v.at = "bundled" /\ v.slot = calls[c].slot
        BY <1>1, RemoteAssumption DEF CallStates, CallRecords
      <4>2. calls' = [calls EXCEPT ![c] = v]
        BY <1>1, <2>2
      <4>. QED
        BY <4>1, <4>2
    <3>2. staging' \in [Slots -> StagingRecords]
      BY <1>1, <2>2 DEF CallOrNone, StagingRecords
    <3>3. \A t \in Slots : /\ staging'[t].bundle \in {staging[t].bundle, NoCall, c}
                           /\ staging'[t].manifest \in {staging[t].manifest, NoCall, c}
                           /\ t # s => staging'[t] = staging[t]
      BY <1>1, <2>2 DEF StagingRecords
    <3>4. calls[c].at = "running"
      BY <1>5 DEF MeasureAndStage
    <3>. QED
      BY <1>1, <1>2, <1>3, <3>1, <3>2, <3>3, <3>4, CallsMove
  <2>. QED
    BY <1>2, <1>5, <2>1, <2>2 DEF MeasureAndStage
<1>6. CASE StageManifest(c)
  BY <1>2, <1>4, <1>6 DEF StageManifest
<1>7. CASE CallReturns(c)
  BY <1>4, <1>7 DEF CallReturns
<1>8. CASE CallIsLost(c)
  BY <1>4, <1>8 DEF CallIsLost
<1>. QED
  BY <1>5, <1>6, <1>7, <1>8 DEF CallSteps

(* Every step of the commands and of the provider.                         *)
LEMMA RemoteInvKept == RemoteInv /\ [RemoteNext]_remoteVars => RemoteInv' /\ Grows
<1>. SUFFICES ASSUME RemoteInv, [RemoteNext]_remoteVars PROVE RemoteInv' /\ Grows
  OBVIOUS
<1>1. CASE UNCHANGED remoteVars
  <2>1. Grows
    BY <1>1 DEF Grows, remoteVars
  <2>2. RemoteTypes'
    BY <1>1 DEF RemoteInv, RemoteTypes, remoteVars
  <2>. QED
    BY <1>1, <2>1, <2>2, CallsKept, VolumeKept, AttemptsKept, BundlesKept, CommandsStandStill
       DEF RemoteInv, remoteVars
<1>2. CASE \E p \in Commands, slot \in Slots, mode \in Modes : Begin(p, slot, mode)
  BY <1>2, ReadingSteps
<1>3. ASSUME NEW p \in Commands, CommandSteps(p) PROVE RemoteInv' /\ Grows
  BY <1>3, ReadingSteps, SpawnStep, WriteDispatchStep, SaveSteps, UploadSteps, ManifestStep,
     NormalizedStep DEF CommandSteps
<1>4. ASSUME NEW p \in Commands, GetRaises(p) \/ UploadBreaks(p) \/ CommandDies(p)
      PROVE  RemoteInv' /\ Grows
  BY <1>4, ReadingSteps, UploadSteps
<1>5. ASSUME NEW c \in Calls, CallSteps(c) \/ CallIsLost(c) PROVE RemoteInv' /\ Grows
  BY <1>5, ProviderSteps
<1>. QED
  BY <1>1, <1>2, <1>3, <1>4, <1>5 DEF RemoteNext

(* The inductive invariant of the commands, the provider's calls and the   *)
(* three places evidence is kept in (reference/modal_vllm.py).             *)
THEOREM RemoteInvariant == RemoteSpec => []RemoteInv
<1>. QED
  BY RemoteInitInv, RemoteInvKept, PTL DEF RemoteSpec

(* However many commands run for one attempt, whatever calls they spawn and*)
(* wherever they die: a published manifest describes files of one call, and*)
(* a committed measurement is the outcome of that call                     *)
(* (_persist_evidence_from_client, LocalMeasurementBundleStore.save).      *)
THEOREM EvidenceStaysOneCalls == RemoteSpec => []EvidenceIsOneCalls
<1>1. RemoteInv => EvidenceIsOneCalls
  <2>. SUFFICES ASSUME RemoteInv, NEW s \in Slots
                PROVE  /\ volume[s].manifest # NoCall =>
                            \A f \in Files : volume[s].files[f] = volume[s].manifest
                       /\ volume[s].normalized # NoDocument =>
                            volume[s].normalized.from = volume[s].manifest
                       /\ (IsCommitted(s) /\ ~bundles[s].doc.failure) =>
                            /\ bundles[s].from = volume[s].manifest
                            /\ calls[bundles[s].from].slot = s
                            /\ bundles[s].doc = Document(lane, calls[bundles[s].from].trial)
                            /\ bundles[s].named = volume[s].normalized.named
    BY DEF EvidenceIsOneCalls
  <2>1. bundles[s].doc = FailureDocument => bundles[s].doc.failure
    BY DocumentsAreTyped
  <2>. QED
    BY <2>1 DEF RemoteInv, VolumeStands, BundlesStand, Holds, Measured, OfSlot
<1>. QED
  BY <1>1, RemoteInvariant, PTL

(* For any number of repetitions, attempts, commands and calls: at most one*)
(* attempt of a repetition is valid, it is the last that is committed, and *)
(* nothing is spawned for a repetition before an earlier one is valid      *)
(* (_require_retry_admitted, the series of performance and quality).       *)
THEOREM AttemptsStayInOrder == RemoteSpec => []OneValidAttempt
<1>1. RemoteInv => OneValidAttempt
  <2>. SUFFICES ASSUME RemoteInv,
                       NEW r \in 1 .. MaxRepetitions, NEW a \in 1 .. MaxAttempts,
                       NEW b \in 1 .. MaxAttempts
                PROVE  /\ (a < b /\ IsCommitted(<<r, b>>)) => IsCommitted(<<r, a>>) /\ ~ValidAttempt(<<r, a>>)
                       /\ (lane # "correctness" /\ r > 1 /\ \E c \in Calls : calls[c].slot = <<r, a>>) =>
                            \E e \in 1 .. MaxAttempts : ValidAttempt(<<r - 1, e>>)
    BY DEF OneValidAttempt
  <2>1. PICK m \in Nat, n \in Nat : m = MaxRepetitions /\ n = MaxAttempts
    BY RemoteAssumption
  <2>2. r \in 1 .. m /\ a \in 1 .. n /\ b \in 1 .. n /\ <<r, a>> \in Slots /\ <<r, b>> \in Slots
    BY <2>1 DEF Slots
  <2>3. ASSUME a < b, IsCommitted(<<r, b>>) PROVE IsCommitted(<<r, a>>) /\ ~ValidAttempt(<<r, a>>)
    <3>1. Admitted(<<r, b>>)
      BY <2>2, <2>3 DEF RemoteInv, AttemptsStand
    <3>2. a \in 1 .. (b - 1)
      BY <2>2, <2>3
    <3>. QED
      BY <3>1, <3>2 DEF Admitted
  <2>4. ASSUME lane # "correctness", r > 1, NEW c \in Calls, calls[c].slot = <<r, a>>
        PROVE  \E e \in 1 .. MaxAttempts : ValidAttempt(<<r - 1, e>>)
    <3>1. calls[c].at # "unused"
      <4>1. <<r, a>> # NoSlot
        BY <2>2 DEF NoSlot
      <4>. QED
        BY <2>4, <4>1 DEF RemoteInv, CallsStand
    <3>2. Admitted(<<r, a>>)
      BY <2>4, <3>1 DEF RemoteInv, AttemptsStand
    <3>3. r - 1 \in 1 .. (r - 1)
      BY <2>2, <2>4
    <3>. QED
      BY <2>4, <3>2, <3>3 DEF Admitted, PriorsAdmitted
  <2>. QED
    BY <2>3, <2>4
<1>. QED
  BY <1>1, RemoteInvariant, PTL

(* Whatever the trials of the calls: what the hidden evaluation takes for a*)
(* complete and eligible measurement ran every case on the pinned GPU and  *)
(* was read in full (local_measurements.py, the drivers of the lanes).     *)
THEOREM EligibleStaysMeasured == RemoteSpec => []EligibleWasMeasured
<1>1. RemoteInv => EligibleWasMeasured
  <2>. SUFFICES ASSUME RemoteInv, NEW s \in Slots, IsCommitted(s),
                       Told(lane, bundles[s].doc) = Complete(TRUE)
                PROVE  /\ bundles[s].from # NoCall
                       /\ calls[bundles[s].from].trial.failed = {}
                       /\ calls[bundles[s].from].trial.garbled = {}
                       /\ calls[bundles[s].from].trial.host = "pinned"
                       /\ calls[bundles[s].from].trial.good
    BY DEF EligibleWasMeasured
  <2>1. lane \in Lanes
    BY DEF RemoteInv, RemoteTypes
  <2>2. bundles[s].doc # FailureDocument
    <3>1. \A t \in Trials : Told(lane, FailureDocument) # Complete(TRUE)
      BY <2>1, EligibleDocuments
    <3>2. NoTrial \in Trials
      BY DEF NoTrial, Trials
    <3>. QED
      BY <3>1, <3>2
  <2>3. PICK c \in Calls : c = bundles[s].from /\ bundles[s].doc = Document(lane, calls[c].trial)
    BY <2>2 DEF RemoteInv, BundlesStand, Measured, OfSlot
  <2>4. PICK t \in Trials : t = calls[c].trial
    BY DEF RemoteInv, RemoteTypes
  <2>5. Told(lane, Document(lane, t)) = Complete(TRUE)
    BY <2>3, <2>4
  <2>6. t.failed = {} /\ t.garbled = {} /\ t.host = "pinned" /\ t.good
    BY <2>1, <2>5, EligibleDocuments
  <2>. QED
    BY <2>3, <2>4, <2>6, RemoteAssumption DEF Calls, NoCall
<1>. QED
  BY <1>1, RemoteInvariant, PTL

(* Evidence is written once: no step of any command, started again or dying*)
(* anywhere, changes a committed bundle, a published manifest or document, *)
(* a stored file, or the slot and the trial of a call that has measured.   *)
THEOREM EvidenceIsWrittenOnce == RemoteSpec => [][Grows]_remoteVars
<1>1. RemoteInv /\ [RemoteNext]_remoteVars => [Grows]_remoteVars
  BY RemoteInvKept
<1>. QED
  BY <1>1, RemoteInvariant, PTL DEF RemoteSpec
=============================================================================
