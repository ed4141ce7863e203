--------------------------- MODULE VerdictProofs ---------------------------
(***************************************************************************)
(* The inductive invariants behind a verdict, and the properties that      *)
(* follow from them: of paid compute, for every set of requests and        *)
(* callers, of the hidden evaluation, for every plan, every set of         *)
(* evaluators and candidates and every measurement, and of the scores, for *)
(* every measurement, policy and profile that the code loads.              *)
(*                                                                         *)
(* The heart of the first is the life of one claim: a request whose row is *)
(* new, or whose claim is not past its authorization, is not paid for;     *)
(* between the authorization and the dispatch the call is either not sent, *)
(* or flying, or taken; and only the owner of the claim moves it on.       *)
(*                                                                         *)
(* The heart of the second is the program a call works through: whatever   *)
(* lies behind it stands, bound to its candidate, and no step of another   *)
(* call takes that back.  So a run is begun on complete runs only, and a   *)
(* receipt is bound on runs and receipts of its own candidate.             *)
(*                                                                         *)
(* The scores rest on three facts: rounding moves a quotient by half a     *)
(* millionth at most and keeps the order of numerators; the k-th value of  *)
(* a sorted list grows with the list; a sum grows with its addends.        *)
(***************************************************************************)
EXTENDS ComputeExecution, HiddenEvaluation, ScoreStudies, FiniteSetTheorems,
        RosterTotalsProofs, TLAPS


(* What holds of a request, whoever works on it.                           *)
RequestSound(r) ==
    /\ spend[r] # "none" => r \in registered
    /\ started[r] \in {0, 1}
    /\ started[r] = 1 => spend[r] = "consumed" /\ r \notin flying
    /\ r \in flying => spend[r] = "consumed"
    /\ started[r] = 0 <=> outcome[r] = "none"
    /\ exec[r] = "none" => spend[r] # "consumed"
    /\ exec[r] = "failed" /\ r \notin acked => spend[r] # "consumed"
    /\ exec[r] \in {"dispatched", "complete"} => r \in acked
    /\ r \in acked => started[r] = 1 /\ exec[r] \in {"dispatched", "complete", "failed"}
    /\ bundle[r] # "none" => r \in acked
    /\ bundle[r] \in Ended => outcome[r] = bundle[r]
    /\ exec[r] \in {"complete", "failed"} /\ r \in acked
           => bundle[r] # "none" /\ exec[r] = Verdict(bundle[r])

(* How far the claim of a caller has come.                                 *)
CallerSound(c) ==
    /\ at[c] = "idle" <=> doing[c] = NoRequest
    /\ at[c] \in Owning => exec[doing[c]] = "dispatching"
    /\ at[c] \in {"claimed", "rejecting"} => spend[doing[c]] # "consumed"
    /\ at[c] \in {"authorized", "sending", "sent"} => spend[doing[c]] = "consumed"
    /\ at[c] = "authorized" => started[doing[c]] = 0 /\ doing[c] \notin flying
    /\ at[c] = "sending" => doing[c] \in flying \/ started[doing[c]] = 1
    /\ at[c] = "sent" => started[doing[c]] = 1
    /\ at[c] = "collected" => doing[c] \in acked /\ bundle[doing[c]] # "none"
    /\ ended => at[c] = "idle"

OneOwner ==
    \A c, d \in Callers :
        at[c] \in Owning /\ at[d] \in Owning /\ doing[c] = doing[d] => c = d

(* What was closed or planned over is left alone afterwards.               *)
VerdictSound ==
    /\ closed => sealed /\ \A r \in registered : exec[r] = "complete"
    /\ plan.made => ended /\ \A r \in registered :
           /\ r \in plan.missing => exec[r] = "none"
           /\ r \in plan.replaced => outcome[r] = "replaceable"
           /\ r \notin plan.missing \cup plan.replaced => outcome[r] = "complete"

StateTypes ==
    /\ registered \subseteq Requests
    /\ sealed \in BOOLEAN
    /\ spend \in [Requests -> {"none", "issued", "consumed"}]
    /\ exec \in [Requests -> ExecutionStatuses]
    /\ acked \subseteq Requests
    /\ flying \subseteq Requests
    /\ started \in [Requests -> Nat]
    /\ outcome \in [Requests -> Outcomes]
    /\ bundle \in [Requests -> Bundles]
    /\ at \in [Callers -> Places]
    /\ doing \in [Callers -> Requests \cup {NoRequest}]
    /\ closed \in BOOLEAN
    /\ ended \in BOOLEAN
    /\ plan \in [made : BOOLEAN, missing : SUBSET Requests, replaced : SUBSET Requests]

ExecutionInv ==
    /\ StateTypes
    /\ \A r \in Requests : RequestSound(r)
    /\ \A c \in Callers : CallerSound(c)
    /\ OneOwner
    /\ VerdictSound

-----------------------------------------------------------------------------
(* In the beginning there is no row, no authorization and no call.         *)
LEMMA InitSound == ExecutionInit => ExecutionInv
<1> SUFFICES ASSUME ExecutionInit PROVE ExecutionInv
  OBVIOUS
<1> USE DEF ExecutionInit, NoPlan
<1>1. StateTypes
  BY DEF StateTypes, ExecutionStatuses, Outcomes, Bundles, Places
<1>2. ASSUME NEW r \in Requests PROVE RequestSound(r)
  BY DEF RequestSound, Ended
<1>3. ASSUME NEW c \in Callers PROVE CallerSound(c)
  BY DEF CallerSound, Owning
<1>4. OneOwner /\ VerdictSound
  BY DEF OneOwner, VerdictSound, Owning
<1> QED
  BY <1>1, <1>2, <1>3, <1>4 DEF ExecutionInv

(* Every step of a caller, orderly or not, keeps the invariant.            *)
LEMMA CallerKeeps == \A c \in Callers : ExecutionInv /\ Caller(c) => ExecutionInv'
<1> SUFFICES ASSUME NEW c \in Callers, ExecutionInv, Caller(c) PROVE ExecutionInv'
  OBVIOUS
<1> USE NoRequestAssumption
<1> USE DEF ExecutionInv, StateTypes, RequestSound, CallerSound, OneOwner, VerdictSound,
        ExecutionStatuses, Finished, Ended, Outcomes, Bundles, Owning, Places, Verdict,
        rowVars, providerVars, runVars, Goes
<1>1. CASE Claim(c)
  BY <1>1 DEF Claim
<1>2. CASE Join(c)
  BY <1>2 DEF Join
<1>3. CASE PrepareFails(c)
  BY <1>3 DEF PrepareFails
<1>4. CASE Consume(c)
  BY <1>4 DEF Consume
<1>5. CASE ConsumeRefused(c)
  BY <1>5 DEF ConsumeRefused
<1>6. CASE Launch(c)
  BY <1>6 DEF Launch
<1>7. CASE CommandReturns(c)
  BY <1>7 DEF CommandReturns
<1>8. CASE CommandFails(c)
  BY <1>8 DEF CommandFails
<1>9. CASE RecordDispatch(c)
  BY <1>9 DEF RecordDispatch
<1>10. CASE RecordRejected(c)
  BY <1>10 DEF RecordRejected, RecordUnsent
<1>11. CASE RecordAmbiguous(c)
  BY <1>11 DEF RecordAmbiguous, RecordUnsent
<1>12. CASE CollectStored(c)
  BY <1>12 DEF CollectStored
<1>13. CASE Poll(c)
  BY <1>13 DEF Poll
<1>14. CASE PollRaises(c)
  BY <1>14 DEF PollRaises
<1>15. CASE RecordOutcome(c)
  BY <1>15 DEF RecordOutcome
<1>16. CASE GiveUp(c)
  BY <1>16 DEF GiveUp
<1>17. CASE TransactionFails(c)
  BY <1>17 DEF TransactionFails
<1> HIDE DEF ExecutionInv
<1> QED
  BY <1>1, <1>2, <1>3, <1>4, <1>5, <1>6, <1>7, <1>8, <1>9,
     <1>10, <1>11, <1>12, <1>13, <1>14, <1>15, <1>16, <1>17 DEF Caller, Proceed, Fail

(* So does everything else: the host, a death or abort at any time, and the*)
(* provider.                                                               *)
LEMMA WorldKeeps ==
    ASSUME ExecutionInv,
           \/ Host
           \/ \E c \in Callers, r \in Requests : Call(c, r)
           \/ \E r \in Requests : ProviderStarts(r)
           \/ \E r \in Requests, o \in Ended : ProviderEnds(r, o)
    PROVE  ExecutionInv'
<1> USE NoRequestAssumption
<1> USE DEF ExecutionInv, StateTypes, RequestSound, CallerSound, OneOwner, VerdictSound,
        ExecutionStatuses, Finished, Ended, Outcomes, Bundles, Owning, Places, Verdict,
        rowVars, providerVars, callVars, runVars
<1>1. ASSUME NEW R \in SUBSET Requests, Register(R) PROVE ExecutionInv'
  BY <1>1 DEF Register
<1>2. ASSUME Seal PROVE ExecutionInv'
  BY <1>2 DEF Seal
<1>3. ASSUME NEW r \in Requests, IssueSpend(r) PROVE ExecutionInv'
  BY <1>3 DEF IssueSpend
<1>4. ASSUME Close PROVE ExecutionInv'
  BY <1>4 DEF Close, Reconciles
<1>5. ASSUME ProcessDies PROVE ExecutionInv'
  BY <1>5 DEF ProcessDies, CallersGone
<1>6. ASSUME Abort PROVE ExecutionInv'
  BY <1>6 DEF Abort, CallersGone
<1>7. ASSUME Plan PROVE ExecutionInv'
  BY <1>7 DEF Plan, Missing, Paid, Reusable, Retained
<1>8. ASSUME NEW c \in Callers, NEW r \in Requests, Call(c, r) PROVE ExecutionInv'
  BY <1>8 DEF Call
<1>9. ASSUME NEW r \in Requests, ProviderStarts(r) PROVE ExecutionInv'
  BY <1>9 DEF ProviderStarts
<1>10. ASSUME NEW r \in Requests, NEW o \in Ended, ProviderEnds(r, o) PROVE ExecutionInv'
  BY <1>10 DEF ProviderEnds
<1> HIDE DEF ExecutionInv, Ended
<1> QED
  BY <1>1, <1>2, <1>3, <1>4, <1>5, <1>6, <1>7, <1>8, <1>9, <1>10 DEF Host

(* Every step, or none, keeps the invariant.                               *)
LEMMA NextKeeps == ExecutionInv /\ [ExecutionNext]_executionVars => ExecutionInv'
<1> SUFFICES ASSUME ExecutionInv, [ExecutionNext]_executionVars PROVE ExecutionInv'
  OBVIOUS
<1>1. CASE UNCHANGED executionVars
  BY <1>1 DEF executionVars, rowVars, providerVars, callVars, runVars, ExecutionInv, StateTypes,
              RequestSound, CallerSound, OneOwner, VerdictSound, Verdict
<1>2. CASE ExecutionNext
  BY <1>2, CallerKeeps, WorldKeeps DEF ExecutionNext
<1> QED
  BY <1>1, <1>2

(* The inductive invariant of paid compute.                                *)
LEMMA ExecutionInvariant == ExecutionSpec => []ExecutionInv
  BY InitSound, NextKeeps, PTL DEF ExecutionSpec

-----------------------------------------------------------------------------
(* Every variable has its type, a dispatched or collected row names its    *)
(* call, and one caller at most owns the claim of a request.               *)
THEOREM ExecutionTypesHold == ExecutionSpec => []ExecutionTypeOK
<1>1. ExecutionInv => ExecutionTypeOK
  BY DEF ExecutionInv, StateTypes, RequestSound, CallerSound, OneOwner, ExecutionTypeOK
<1> QED
  BY <1>1, ExecutionInvariant, PTL

(* Any number of evaluators, retries and deaths make the provider run a    *)
(* request once at most, against a used authorization.                     *)
THEOREM PaidAtMostOnce == ExecutionSpec => []SpendBacksCalls
<1>1. ASSUME ExecutionInv, NEW r \in Requests
      PROVE  started[r] <= 1 /\ (started[r] = 1 => spend[r] = "consumed" /\ r \in registered)
  BY <1>1 DEF ExecutionInv, RequestSound
<1>2. ExecutionInv => SpendBacksCalls
  BY <1>1 DEF SpendBacksCalls
<1> QED
  BY <1>2, ExecutionInvariant, PTL

(* No row ever claims a call, a completed result or a rejection that was   *)
(* not; a failure with a call is the provider's, or of asking for it.      *)
THEOREM LedgerIsTrue == ExecutionSpec => []VerdictsAreTrue
<1>1. ExecutionInv => VerdictsAreTrue
  BY DEF ExecutionInv, StateTypes, RequestSound, Bundles, Ended, Verdict, VerdictsAreTrue
<1> QED
  BY <1>1, ExecutionInvariant, PTL

(* A reconciled closure speaks of completed, paid calls only, and of all.  *)
THEOREM ClosureIsComplete == ExecutionSpec => []ClosedIsComplete
<1>1. ExecutionInv => ClosedIsComplete
  BY DEF ExecutionInv, StateTypes, RequestSound, VerdictSound, Verdict, Ended, ClosedIsComplete
<1> QED
  BY <1>1, ExecutionInvariant, PTL

(* A recovery plan executes nothing anew that the provider may have run.   *)
THEOREM RecoveryRepaysNothing == ExecutionSpec => []PlanRepaysNothing
<1>1. ExecutionInv => PlanRepaysNothing
  BY DEF ExecutionInv, StateTypes, RequestSound, VerdictSound, PlanRepaysNothing
<1> QED
  BY <1>1, ExecutionInvariant, PTL

(* Finished rows, evidence, used authorizations and recorded calls stay.   *)
THEOREM OutcomesStay == ExecutionSpec => OutcomesAreFinal
<1> DEFINE Final == \A r \in Requests :
                       /\ exec[r] \in Finished => exec'[r] = exec[r]
                       /\ bundle[r] # "none" => bundle'[r] = bundle[r]
                       /\ spend[r] = "consumed" => spend'[r] = "consumed"
                       /\ r \in acked => r \in acked'
<1>1. ASSUME ExecutionInv, ExecutionNext PROVE Final
  <2> USE <1>1 DEF ExecutionInv, StateTypes, RequestSound, CallerSound, Finished, Owning,
              rowVars, runVars
  <2>1. ASSUME NEW c \in Callers, Proceed(c) PROVE Final
    BY <2>1 DEF Proceed, Goes, Claim, Join, Consume, ConsumeRefused, Launch, CommandReturns,
           CommandFails, RecordDispatch, RecordRejected, RecordAmbiguous, RecordUnsent,
           CollectStored, Poll, RecordOutcome, GiveUp
  <2>2. ASSUME NEW c \in Callers, Fail(c) PROVE Final
    BY <2>2 DEF Fail, Goes, PrepareFails, PollRaises, TransactionFails
  <2>3. CASE Host
    BY <2>3 DEF Host, Register, Seal, IssueSpend, Close, ProcessDies, Abort, CallersGone, Plan
  <2>4. CASE (\E c \in Callers, r \in Requests : Call(c, r))
    BY <2>4 DEF Call
  <2>5. CASE \/ \E r \in Requests : ProviderStarts(r)
             \/ \E r \in Requests, o \in Ended : ProviderEnds(r, o)
    BY <2>5 DEF ProviderStarts, ProviderEnds
  <2> HIDE DEF Final
  <2> QED
    BY <1>1, <2>1, <2>2, <2>3, <2>4, <2>5 DEF ExecutionNext, Caller
<1>2. UNCHANGED executionVars => Final
  BY DEF executionVars, rowVars
<1>3. ExecutionInv /\ [ExecutionNext]_executionVars => [Final]_executionVars
  BY <1>1, <1>2
<1> HIDE DEF Final
<1>4. ExecutionSpec => [][Final]_executionVars
  BY <1>3, ExecutionInvariant, PTL DEF ExecutionSpec
<1> QED
  BY <1>4 DEF Final, OutcomesAreFinal
-----------------------------------------------------------------------------

QualityRuns == [phase : {"quality"}, role : {"reference", "candidate"}, rep : 1..Rounds]

(* The quality series runs both roles in every repetition.                 *)
LEMMA QualitySlotsAre ==
    /\ QualitySlots \in Seq(QualityRuns)
    /\ \A r \in 1..Rounds, role \in {"reference", "candidate"} :
          \E i \in 1..Len(QualitySlots) : QualitySlots[i] = Slot("quality", role, r)
<1>. DEFINE Orders == {<<"reference", "candidate">>, <<"candidate", "reference">>}
            f == [r \in DOMAIN RoleOrders |->
                     [i \in DOMAIN RoleOrders[r] |-> Slot("quality", RoleOrders[r][i], r)]]
<1>1. Rounds \in Nat /\ DOMAIN RoleOrders = 1..Rounds /\ \A r \in 1..Rounds : RoleOrders[r] \in Orders
  BY EvaluationAssumption
<1>2. ASSUME NEW r \in 1..Rounds
      PROVE  /\ f[r] \in Lists(QualityRuns) /\ Len(f[r]) = 2
             /\ \A role \in {"reference", "candidate"} : \E i \in 1..2 : f[r][i] = Slot("quality", role, r)
  <2>1. /\ DOMAIN RoleOrders[r] = 1..2
        /\ \/ RoleOrders[r][1] = "reference" /\ RoleOrders[r][2] = "candidate"
           \/ RoleOrders[r][1] = "candidate" /\ RoleOrders[r][2] = "reference"
    <3>1. RoleOrders[r] = <<"reference", "candidate">> \/ RoleOrders[r] = <<"candidate", "reference">>
      BY <1>1
    <3>. QED
      BY <3>1
  <2>. DEFINE s == [i \in 1..2 |-> Slot("quality", RoleOrders[r][i], r)]
  <2>2. f[r] = s
    BY <1>1, <2>1
  <2>3. \A i \in 1..2 : s[i] = Slot("quality", RoleOrders[r][i], r) /\ s[i] \in QualityRuns
    BY <2>1 DEF Slot, QualityRuns
  <2>. HIDE DEF f
  <2>4. s \in Lists(QualityRuns) /\ Len(s) = 2
    <3>1. s \in [1..2 -> QualityRuns]
      BY <2>3
    <3>. HIDE DEF s
    <3>2. s \in Lists(QualityRuns) /\ Len(s) = 2
      BY <3>1, ListFromFunction
    <3>. QED
      BY <3>2
  <2>. HIDE DEF s
  <2>5. ASSUME NEW role \in {"reference", "candidate"}
        PROVE  \E i \in 1..2 : s[i] = Slot("quality", role, r)
    <3>1. PICK i \in 1..2 : RoleOrders[r][i] = role
      BY <2>1
    <3>. QED
      BY <2>3, <3>1
  <2>. QED
    BY <2>2, <2>4, <2>5
<1>3. f \in Pieces(QualityRuns, Rounds)
  BY <1>1, <1>2 DEF Pieces
<1>4. QualitySlots = FlattenSeq(f)
  BY DEF QualitySlots
<1>. HIDE DEF f
<1>5. FlattenSeq(f) \in Lists(QualityRuns) /\ Placed(FlattenSeq(f), f, Rounds)
  BY <1>1, <1>3, FlattenedBlocks
<1>6. ASSUME NEW r \in 1..Rounds, NEW role \in {"reference", "candidate"}
      PROVE  \E i \in 1..Len(QualitySlots) : QualitySlots[i] = Slot("quality", role, r)
  <2>1. PICK j \in 1..2 : f[r][j] = Slot("quality", role, r) /\ Len(f[r]) = 2
    BY <1>2
  <2>2. PICK cut \in [0..Rounds -> Nat] : \A i \in 1..Rounds : \A x \in 1..Len(f[i]) :
           cut[i - 1] + x \in 1..Len(QualitySlots) /\ QualitySlots[cut[i - 1] + x] = f[i][x]
    BY <1>4, <1>5 DEF Placed
  <2>3. j \in 1..Len(f[r])
    BY <2>1
  <2>4. cut[r - 1] + j \in 1..Len(QualitySlots) /\ QualitySlots[cut[r - 1] + j] = f[r][j]
    BY <2>2, <2>3
  <2>. QED
    BY <2>1, <2>4
<1>. QED
  BY <1>4, <1>5, <1>6 DEF Lists

(* Where the runs of each phase are.                                       *)
LEMMA RunSlotsAre ==
    /\ Middle \in Nat /\ Middle >= 1 /\ Size \in Nat /\ Size = Middle + PerformanceRuns /\ Size > Middle
    /\ DOMAIN RunSlots = 1..Size
    /\ RunSlots[1] = Slot("correctness", "candidate", 1)
    /\ \A i \in 2..Middle : RunSlots[i] \in QualityRuns /\ RunSlots[i] = QualitySlots[i - 1]
    /\ \A i \in Middle + 1..Size : RunSlots[i] = Slot("performance", "candidate", i - Middle)
<1>. DEFINE first == Slot("correctness", "candidate", 1)
            Allowed == {first} \cup QualityRuns
                     \cup {Slot("performance", "candidate", r) : r \in 1..PerformanceRuns}
<1>1. <<first>> \in Lists(Allowed) /\ Len(<<first>>) = 1 /\ <<first>>[1] = first
  BY DEF Lists
<1>2. QualitySlots \in Lists(Allowed) /\ \A i \in 1..Len(QualitySlots) : QualitySlots[i] \in QualityRuns
  BY QualitySlotsAre DEF Lists
<1>3. /\ PerformanceSlots \in Lists(Allowed) /\ Len(PerformanceSlots) = PerformanceRuns
      /\ PerformanceRuns \in Nat \ {0}
      /\ \A r \in 1..PerformanceRuns : PerformanceSlots[r] = Slot("performance", "candidate", r)
  <2>1. PerformanceSlots \in [1..PerformanceRuns -> Allowed] /\ PerformanceRuns \in Nat \ {0}
    BY EvaluationAssumption DEF PerformanceSlots
  <2>2. \A r \in 1..PerformanceRuns : PerformanceSlots[r] = Slot("performance", "candidate", r)
    BY DEF PerformanceSlots
  <2>. HIDE DEF Allowed
  <2>. QED
    BY <2>1, <2>2 DEF Lists
<1>p. PICK S, a, b, c : S = Allowed /\ a = <<first>> /\ b = QualitySlots /\ c = PerformanceSlots
  OBVIOUS
<1>. HIDE DEF Allowed, first
<1>q. a \in Lists(S) /\ b \in Lists(S) /\ c \in Lists(S)
  BY <1>1, <1>2, <1>3, <1>p
<1>4. PICK ab \in Lists(S) : ab = Joined(a, b) /\ Glued(ab, a, b)
  BY <1>q, JoinedIs
<1>5. Glued(Joined(ab, c), ab, c)
  BY <1>q, JoinedIs
<1>j. /\ Len(b) \in Nat /\ Len(ab) = 1 + Len(b) /\ ab[1] = first
      /\ \A x \in 2..1 + Len(b) : ab[x] = b[x - 1] /\ x - 1 \in 1..Len(b)
  <2>1. Len(a) = 1 /\ a[1] = first
    BY <1>1, <1>p
  <2>. QED
    BY <1>4, <2>1 DEF Glued
<1>k. /\ Len(Joined(ab, c)) = 1 + Len(b) + PerformanceRuns
      /\ DOMAIN Joined(ab, c) = 1..1 + Len(b) + PerformanceRuns
      /\ \A x \in 1..1 + Len(b) : Joined(ab, c)[x] = ab[x]
      /\ \A x \in 1 + Len(b) + 1..1 + Len(b) + PerformanceRuns :
            Joined(ab, c)[x] = c[x - (1 + Len(b))] /\ x - (1 + Len(b)) \in 1..PerformanceRuns
  <2>1. Len(ab) = 1 + Len(b) /\ Len(c) = PerformanceRuns
    BY <1>3, <1>j, <1>p
  <2>. QED
    BY <1>5, <2>1 DEF Glued
<1>6. RunSlots = Joined(ab, c)
  BY <1>4, <1>p DEF RunSlots, Joined, first
<1>7. Middle = 1 + Len(b) /\ Size = 1 + Len(b) + PerformanceRuns
  BY <1>k, <1>6, <1>p DEF Middle, Size
<1>8. \A i \in 2..Middle : RunSlots[i] \in QualityRuns /\ RunSlots[i] = QualitySlots[i - 1]
  BY <1>2, <1>j, <1>k, <1>6, <1>7, <1>p
<1>9. \A i \in Middle + 1..Size : RunSlots[i] = Slot("performance", "candidate", i - Middle)
  BY <1>3, <1>j, <1>k, <1>6, <1>7, <1>p
<1>. QED
  BY <1>3, <1>j, <1>k, <1>6, <1>7, <1>8, <1>9 DEF first

(* The steps of one call of hidden_evaluate() in their order.              *)
StepAt(k) == CASE k \in 1..Middle -> Run(k)
               [] k = Middle + 1 -> Bind("quality")
               [] k \in Middle + 2..Size + 1 -> Run(k - 1)
               [] k = Size + 2 -> Bind("performance")
               [] k = Size + 3 -> Bind("composite")
               [] OTHER -> Bind("split")

(* What the program of hidden_evaluate() is, place by place: its steps are *)
(* runs and bindings, and every one comes after the runs and the receipts  *)
(* it stands on.                                                           *)
LEMMA ProgramIs ==
    DOMAIN Program = 1..Size + 4 /\ Len(Program) = Size + 4 /\ \A k \in 1..Size + 4 : Program[k] = StepAt(k)
<1>. DEFINE Steps == {Run(i) : i \in 1..Size} \cup {Bind(n) : n \in Series}
<1>0. PICK m \in Nat, z \in Nat : m = Middle /\ z = Size /\ m >= 1 /\ z > m
  BY RunSlotsAre
<1>1. PICK S, c, q, p :
        /\ S = Steps /\ m = Middle /\ z = Size /\ m >= 1 /\ z > m
        /\ c = RunsOf("correctness") /\ q = RunsOf("quality") /\ p = RunsOf("performance")
  BY <1>0
<1>a. /\ CountOf("correctness") = 1 /\ FirstOf("correctness") = 1
      /\ CountOf("quality") = m - 1 /\ FirstOf("quality") = 2
      /\ CountOf("performance") = z - m /\ FirstOf("performance") = m + 1
  BY <1>0 DEF CountOf, FirstOf, LastOf
<1>b. /\ c = [k \in 1..1 |-> Run(1 + k - 1)]
      /\ q = [k \in 1..m - 1 |-> Run(2 + k - 1)]
      /\ p = [k \in 1..z - m |-> Run(m + 1 + k - 1)]
  BY <1>1, <1>a, Zenon DEF RunsOf
<1>c. \A i \in 1..z : Run(i) \in S
  BY <1>0, <1>1
<1>2. c \in [1..1 -> S] /\ c[1] = Run(1)
  <2>1. \A k \in 1..1 : 1 + k - 1 \in 1..z /\ 1 + k - 1 = k
    BY <1>0
  <2>. QED
    BY <1>b, <1>c, <2>1
<1>3. q \in [1..m - 1 -> S] /\ \A k \in 1..m - 1 : q[k] = Run(k + 1)
  <2>1. \A k \in 1..m - 1 : 2 + k - 1 \in 1..z /\ 2 + k - 1 = k + 1
    BY <1>0
  <2>. QED
    BY <1>b, <1>c, <2>1
<1>4. p \in [1..z - m -> S] /\ \A k \in 1..z - m : p[k] = Run(m + k)
  <2>1. \A k \in 1..z - m : m + 1 + k - 1 \in 1..z /\ m + 1 + k - 1 = m + k
    BY <1>0
  <2>. QED
    BY <1>b, <1>c, <2>1
<1>5. \A n \in Series : <<Bind(n)>> \in Lists(S) /\ Len(<<Bind(n)>>) = 1 /\ <<Bind(n)>>[1] = Bind(n)
  BY <1>1 DEF Lists
<1>. HIDE DEF Steps
<1>6. PICK bq \in Lists(S), bp \in Lists(S), bc \in Lists(S), bs \in Lists(S) :
        /\ bq = <<Bind("quality")>> /\ bp = <<Bind("performance")>>
        /\ bc = <<Bind("composite")>> /\ bs = <<Bind("split")>>
        /\ Len(bq) = 1 /\ Len(bp) = 1 /\ Len(bc) = 1 /\ Len(bs) = 1
        /\ bq[1] = Bind("quality") /\ bp[1] = Bind("performance")
        /\ bc[1] = Bind("composite") /\ bs[1] = Bind("split")
  BY <1>5 DEF Series
<1>7. /\ c \in Lists(S) /\ Len(c) = 1 /\ q \in Lists(S) /\ Len(q) = m - 1
      /\ p \in Lists(S) /\ Len(p) = z - m
  <2>1. 1 \in Nat /\ m - 1 \in Nat /\ z - m \in Nat
    BY <1>0
  <2>2. c \in Lists(S) /\ Len(c) = 1
    BY <1>2, <2>1, ListFromFunction
  <2>3. q \in Lists(S) /\ Len(q) = m - 1
    BY <1>3, <2>1, ListFromFunction
  <2>4. p \in Lists(S) /\ Len(p) = z - m
    BY <1>4, <2>1, ListFromFunction
  <2>. QED
    BY <2>2, <2>3, <2>4
<1>8. \A s \in Lists(S), t \in Lists(S) : Joined(s, t) \in Lists(S) /\ Glued(Joined(s, t), s, t)
  <2>. SUFFICES ASSUME NEW s \in Lists(S), NEW t \in Lists(S)
                PROVE  Joined(s, t) \in Lists(S) /\ Glued(Joined(s, t), s, t)
    OBVIOUS
  <2>. QED
    BY JoinedIs
<1>9. PICK qp \in Lists(S), pp \in Lists(S) :
        qp = Joined(q, bq) /\ Glued(qp, q, bq) /\ pp = Joined(p, bp) /\ Glued(pp, p, bp)
  BY <1>6, <1>7, <1>8, Zenon
<1>10. PICK s \in Lists(S) : s = Joined(c, qp) /\ Glued(s, c, qp)
  BY <1>7, <1>8, Zenon
<1>x. PICK t \in Lists(S) : t = Joined(s, pp) /\ Glued(t, s, pp)
  BY <1>8, Zenon
<1>y. PICK u \in Lists(S) : u = Joined(t, bc) /\ Glued(u, t, bc)
  BY <1>8, Zenon
<1>z. PICK v \in Lists(S) : v = Joined(u, bs) /\ Glued(v, u, bs)
  BY <1>8, Zenon
<1>11. /\ Len(qp) = m /\ qp[m] = Bind("quality")
       /\ \A k \in 1..m - 1 : qp[k] = Run(k + 1)
  <2>1. /\ Len(qp) = (m - 1) + 1 /\ \A x \in 1..m - 1 : qp[x] = q[x]
        /\ \A x \in (m - 1) + 1..(m - 1) + 1 : qp[x] = bq[x - (m - 1)]
    BY <1>6, <1>7, <1>9 DEF Glued
  <2>2. m \in (m - 1) + 1..(m - 1) + 1 /\ m - (m - 1) = 1 /\ (m - 1) + 1 = m
    OBVIOUS
  <2>3. qp[m] = Bind("quality")
    BY <1>6, <2>1, <2>2
  <2>4. ASSUME NEW k \in 1..m - 1 PROVE qp[k] = Run(k + 1)
    BY <1>3, <2>1
  <2>5. Len(qp) = m
    BY <2>1, <2>2
  <2>. QED
    BY <2>3, <2>4, <2>5
<1>12. /\ Len(pp) = z - m + 1 /\ pp[z - m + 1] = Bind("performance")
       /\ \A k \in 1..z - m : pp[k] = Run(m + k)
  <2>1. /\ Len(pp) = (z - m) + 1 /\ \A x \in 1..z - m : pp[x] = p[x]
        /\ \A x \in (z - m) + 1..(z - m) + 1 : pp[x] = bp[x - (z - m)]
    BY <1>6, <1>7, <1>9 DEF Glued
  <2>2. z - m + 1 \in (z - m) + 1..(z - m) + 1 /\ (z - m + 1) - (z - m) = 1
    BY <1>0
  <2>3. pp[z - m + 1] = Bind("performance")
    BY <1>6, <2>1, <2>2
  <2>4. ASSUME NEW k \in 1..z - m PROVE pp[k] = Run(m + k)
    BY <1>4, <2>1
  <2>. QED
    BY <2>1, <2>3, <2>4
<1>13. /\ Len(s) = m + 1 /\ s[m + 1] = Bind("quality")
       /\ \A k \in 1..m : s[k] = Run(k)
  <2>1. Len(s) = m + 1 /\ s[1] = Run(1) /\ \A x \in 2..m + 1 : s[x] = qp[x - 1]
    BY <1>0, <1>2, <1>7, <1>10, <1>11 DEF Glued
  <2>2. ASSUME NEW k \in 2..m PROVE s[k] = Run(k)
    <3>1. k - 1 \in 1..m - 1 /\ k - 1 + 1 = k /\ k \in 2..m + 1
      BY <1>0
    <3>. QED
      BY <1>11, <2>1, <3>1
  <2>. QED
    BY <1>0, <1>11, <2>1, <2>2
<1>14. /\ Len(t) = z + 2 /\ t[m + 1] = Bind("quality") /\ t[z + 2] = Bind("performance")
       /\ \A k \in 1..m : t[k] = Run(k)
       /\ \A k \in m + 2..z + 1 : t[k] = Run(k - 1)
  <2>1. /\ Len(t) = z + 2 /\ \A x \in 1..m + 1 : t[x] = s[x]
        /\ \A x \in m + 2..z + 2 : t[x] = pp[x - (m + 1)]
    BY <1>0, <1>x, <1>12, <1>13 DEF Glued
  <2>2. ASSUME NEW k \in m + 2..z + 1 PROVE t[k] = Run(k - 1)
    <3>1. k - (m + 1) \in 1..z - m /\ m + (k - (m + 1)) = k - 1 /\ k \in m + 2..z + 2
      BY <1>0
    <3>. QED
      BY <1>12, <2>1, <3>1
  <2>3. t[z + 2] = Bind("performance")
    BY <1>0, <1>12, <2>1
  <2>. QED
    BY <1>0, <1>13, <2>1, <2>2, <2>3
<1>a1. Len(u) = z + 3 /\ u[z + 3] = Bind("composite") /\ \A k \in 1..z + 2 : u[k] = t[k]
  BY <1>0, <1>6, <1>y, <1>14 DEF Glued
<1>a2. /\ Len(v) = z + 4 /\ DOMAIN v = 1..z + 4 /\ v[z + 4] = Bind("split")
       /\ \A k \in 1..z + 3 : v[k] = u[k]
  BY <1>0, <1>6, <1>z, <1>a1 DEF Glued
<1>15. Program = v
  <2>1. \A r \in Lists(S), n \in Series : Append(r, Bind(n)) = Joined(r, <<Bind(n)>>)
    <3>. SUFFICES ASSUME NEW r \in Lists(S), NEW n \in Series
                  PROVE  Append(r, Bind(n)) = Joined(r, <<Bind(n)>>)
      OBVIOUS
    <3>1. PICK b : b = Bind(n) /\ b \in S
      BY <1>1 DEF Steps
    <3>2. r \in Seq(S)
      BY DEF Lists
    <3>3. Append(r, b) = r \o <<b>>
      BY <3>1, <3>2
    <3>. QED
      BY <3>1, <3>3 DEF Joined
  <2>2. QualityProgram = qp /\ PerformanceProgram = pp
    BY <1>1, <1>6, <1>7, <1>9, <2>1, Zenon DEF QualityProgram, PerformanceProgram, Series
  <2>3. CompositeProgram = u
    BY <1>1, <1>6, <1>10, <1>x, <1>y, <2>2, Zenon DEF CompositeProgram, Joined
  <2>. QED
    BY <1>6, <1>z, <2>1, <2>3, Zenon DEF Program, Series
<1>16. ASSUME NEW k \in 1..z + 4 PROVE v[k] = StepAt(k)
  <2>1. CASE k \in 1..m
    BY <1>1, <1>14, <1>a1, <1>a2, <2>1 DEF StepAt
  <2>2. CASE k = m + 1
    BY <1>1, <1>14, <1>a1, <1>a2, <2>2 DEF StepAt
  <2>3. CASE k \in m + 2..z + 1
    BY <1>1, <1>14, <1>a1, <1>a2, <2>3 DEF StepAt
  <2>4. CASE k \in z + 2..z + 4
    BY <1>1, <1>14, <1>a1, <1>a2, <2>4 DEF StepAt
  <2>. QED
    BY <1>1, <2>1, <2>2, <2>3, <2>4
<1>. QED
  BY <1>1, <1>15, <1>16, <1>a2

(* What is behind a call at each of its steps.                             *)
LEMMA Behind ==
    ASSUME NEW k \in 1..Size + 4
    PROVE  /\ Program[k].do = "run" =>
                /\ Program[k].place \in 1..Size
                /\ \A j \in 1..Program[k].place - 1 : \E h \in 1..k - 1 : Program[h] = Run(j)
           /\ Program[k].do # "run" =>
                /\ Program[k].do = "bind" /\ Program[k].node \in Series
                /\ \A j \in 1..LastOf(Program[k].node) : \E h \in 1..k - 1 : Program[h] = Run(j)
                /\ Program[k].node \in {"composite", "split"} =>
                      /\ \E h \in 1..k - 1 : Program[h] = Bind("quality")
                      /\ \E h \in 1..k - 1 : Program[h] = Bind("performance")
                /\ Program[k].node = "split" => \E h \in 1..k - 1 : Program[h] = Bind("composite")
<1>0. PICK m \in Nat, z \in Nat : m = Middle /\ z = Size /\ m >= 1 /\ z > m
  BY RunSlotsAre
<1>. DEFINE Spot(i) == IF i <= m THEN i ELSE i + 1
<1>1. \A h \in 1..z + 4 : Program[h] = StepAt(h)
  BY <1>0, ProgramIs
<1>2. ASSUME NEW i \in 1..z PROVE Spot(i) \in 1..z + 1 /\ Program[Spot(i)] = Run(i)
  <2>1. CASE i <= m
    BY <1>0, <1>1, <2>1 DEF StepAt
  <2>2. CASE ~ i <= m
    <3>1. i + 1 \in m + 2..z + 1 /\ (i + 1) - 1 = i /\ i + 1 \in 1..z + 4
      BY <2>2
    <3>2. StepAt(i + 1) = Run((i + 1) - 1)
      BY <1>0, <3>1 DEF StepAt
    <3>. QED
      BY <1>0, <1>1, <2>2, <3>1, <3>2
  <2>. QED
    BY <2>1, <2>2
<1>3. \A i \in 1..z, h \in Nat : Spot(i) <= h - 1 => \E g \in 1..h - 1 : Program[g] = Run(i)
  <2>. SUFFICES ASSUME NEW i \in 1..z, NEW h \in Nat, Spot(i) <= h - 1
                PROVE  \E g \in 1..h - 1 : Program[g] = Run(i)
    OBVIOUS
  <2>1. Spot(i) \in 1..h - 1
    BY <1>2
  <2>. QED
    BY <1>2, <2>1
<1>4. /\ \A i \in 1..z : /\ Run(i).do = "run" /\ Run(i).place = i
      /\ \A n \in Series : Bind(n).do = "bind" /\ Bind(n).node = n
  BY DEF Run, Bind
<1>5. k \in 1..z + 4
  BY <1>0
<1>6. CASE k \in 1..m
  <2>1. Program[k] = Run(k) /\ k \in 1..z
    BY <1>0, <1>1, <1>6 DEF StepAt
  <2>2. \A j \in 1..k - 1 : j \in 1..z /\ Spot(j) <= k - 1
    BY <1>0, <1>6
  <2>. HIDE DEF Spot
  <2>3. \A j \in 1..k - 1 : \E h \in 1..k - 1 : Program[h] = Run(j)
    BY <1>3, <1>5, <2>2
  <2>. QED
    BY <1>0, <1>4, <2>1, <2>3
<1>7. CASE k \in m + 2..z + 1
  <2>1. Program[k] = Run(k - 1) /\ k - 1 \in 1..z
    BY <1>0, <1>1, <1>7 DEF StepAt
  <2>2. \A j \in 1..(k - 1) - 1 : j \in 1..z /\ Spot(j) <= k - 1
    BY <1>0, <1>7
  <2>. HIDE DEF Spot
  <2>3. \A j \in 1..(k - 1) - 1 : \E h \in 1..k - 1 : Program[h] = Run(j)
    BY <1>3, <1>5, <2>2
  <2>. QED
    BY <1>0, <1>4, <2>1, <2>3
<1>8. CASE k = m + 1
  <2>1. Program[k] = Bind("quality")
    BY <1>0, <1>1, <1>5, <1>8 DEF StepAt
  <2>2. \A j \in 1..m : j \in 1..z /\ Spot(j) <= k - 1
    BY <1>0, <1>8
  <2>. HIDE DEF Spot
  <2>3. \A j \in 1..m : \E h \in 1..k - 1 : Program[h] = Run(j)
    BY <1>3, <1>5, <2>2
  <2>. QED
    BY <1>0, <1>4, <2>1, <2>3 DEF Series, LastOf
<1>9. CASE k \in z + 2..z + 4
  <2>1. \A j \in 1..z : Spot(j) <= k - 1
    BY <1>0, <1>9
  <2>. HIDE DEF Spot
  <2>2. \A j \in 1..z : \E h \in 1..k - 1 : Program[h] = Run(j)
    BY <1>3, <1>5, <2>1
  <2>3. m + 1 \in 1..k - 1 /\ Program[m + 1] = Bind("quality")
    BY <1>0, <1>1, <1>9 DEF StepAt
  <2>4. z + 2 \in 1..z + 4 /\ Program[z + 2] = Bind("performance")
    BY <1>0, <1>1 DEF StepAt
  <2>5. z + 3 \in 1..z + 4 /\ Program[z + 3] = Bind("composite")
    BY <1>0, <1>1 DEF StepAt
  <2>6. z + 4 \in 1..z + 4 /\ Program[z + 4] = Bind("split")
    BY <1>0, <1>1 DEF StepAt
  <2>7. CASE k = z + 2
    BY <1>0, <1>4, <2>2, <2>4, <2>7 DEF Series, LastOf
  <2>8. CASE k = z + 3
    <3>1. z + 2 \in 1..k - 1
      BY <2>8
    <3>. QED
      BY <1>0, <1>4, <2>2, <2>3, <2>4, <2>5, <2>8, <3>1 DEF Series, LastOf
  <2>9. CASE k = z + 4
    <3>1. z + 2 \in 1..k - 1 /\ z + 3 \in 1..k - 1
      BY <2>9
    <3>. QED
      BY <1>0, <1>4, <2>2, <2>3, <2>4, <2>5, <2>6, <2>9, <3>1 DEF Series, LastOf
  <2>. QED
    BY <1>9, <2>7, <2>8, <2>9
<1>. QED
  BY <1>5, <1>6, <1>7, <1>8, <1>9

-----------------------------------------------------------------------------
Candidates == Entries \cup {Sealed, Stock}
Values     == (UNION {Measurements(RunSlots[i]) : i \in 1..Size}) \cup {NoValue}
Executions == [status : {"none", "running", "complete", "failed"},
               candidate : Candidates \cup {Nobody}, value : Values]
Calls   == [candidate : Entries \cup {Nobody}, at : 0..Size + 5]
Seconds == [i \in 1..Size |-> backend[i].value.seconds]

Complete(i)    == backend[i].status = "complete"
Measured(n)    == \A i \in PlacesOf(n) : Complete(i)
Standing(i, x) ==
    Complete(i) /\ backend[i].candidate = CandidateFor(RunSlots[i], x) /\ leaf[i] = CandidateFor(RunSlots[i], x)

EvaluationTypes ==
    /\ backend \in [1..Size -> Executions]
    /\ leaf \in [1..Size -> Candidates \cup {Nobody}]
    /\ rows = [n \in Series |-> rows[n]]
    /\ usedRun \in [1..Size -> Int] /\ usedRow \in [Series -> Int]
    /\ evals \in [EvalCallers -> Calls]

(* An execution has a value once it is complete, and not before.           *)
ValuesAreMeasured ==
    \A i \in 1..Size : IF Complete(i) THEN backend[i].value \in Measurements(RunSlots[i])
                                      ELSE backend[i].value = NoValue

(* The seconds the process knows are those of complete runs.               *)
UsedIsSound ==
    /\ \A i \in 1..Size : usedRun[i] # Unknown => Complete(i) /\ usedRun[i] = Seconds[i]
    /\ \A n \in Series : usedRow[n] # Unknown => Measured(n) /\ usedRow[n] = SeriesUsed(n, Seconds)

(* What a call has done stands: its runs are bound to its candidate, its   *)
(* receipts are its candidate's, and the process knows their seconds.      *)
StepStands(step, x) ==
    IF step.do = "run" THEN Standing(step.place, x) /\ usedRun[step.place] = Seconds[step.place]
    ELSE /\ rows[step.node].candidate = x
         /\ step.node # "split" => Measured(step.node) /\ usedRow[step.node] = SeriesUsed(step.node, Seconds)

CallStands(c) ==
    /\ evals[c].at = 0 <=> Entry(c) = Nobody
    /\ \A h \in 1..evals[c].at - 1 : StepStands(Program[h], Entry(c))

ReceiptStands(n) ==
    rows[n] # NoRow =>
        /\ rows[n].candidate \in Entries
        /\ \A i \in 1..LastOf(n) : Standing(i, rows[n].candidate)
        /\ n \in {"composite", "split"} =>
              /\ rows["quality"].candidate = rows[n].candidate
              /\ rows["performance"].candidate = rows[n].candidate
              /\ rows["composite"].candidate = rows[n].candidate

EvaluationInv ==
    /\ EvaluationTypes /\ ValuesAreMeasured
    /\ PlanIsFollowed /\ UsedIsSound
    /\ \A c \in EvalCallers : CallStands(c)
    /\ \A n \in Series : ReceiptStands(n)

(* What no step takes back.                                                *)
Kept ==
    /\ \A i \in 1..Size : Complete(i) => backend'[i] = backend[i]
    /\ \A i \in 1..Size : leaf[i] # Nobody => leaf'[i] = leaf[i]
    /\ \A n \in Series : rows[n] # NoRow => rows'[n] = rows[n]

(* What a process that lives does not forget.                              *)
Remembered ==
    /\ \A i \in 1..Size : usedRun'[i] = usedRun[i] \/ (Complete(i) /\ usedRun'[i] = Seconds[i])
    /\ \A n \in Series : usedRow'[n] = usedRow[n] \/ (Measured(n) /\ usedRow'[n] = SeriesUsed(n, Seconds))

(* The seconds of complete runs do not change.                             *)
LEMMA SecondsStay ==
    ASSUME EvaluationTypes, Kept
    PROVE  /\ \A i \in 1..Size : Complete(i) => Complete(i)' /\ Seconds'[i] = Seconds[i]
           /\ \A n \in Series \cup {"correctness"} :
                 Measured(n) => Measured(n)' /\ SeriesUsed(n, Seconds)' = SeriesUsed(n, Seconds)
<1>1. ASSUME NEW i \in 1..Size, Complete(i) PROVE Complete(i)' /\ Seconds'[i] = Seconds[i]
  <2>1. backend'[i] = backend[i]
    BY <1>1 DEF Kept
  <2>. QED
    BY <1>1, <2>1 DEF Complete, Seconds
<1>2. ASSUME NEW n \in Series \cup {"correctness"}, Measured(n)
      PROVE  Measured(n)' /\ SeriesUsed(n, Seconds)' = SeriesUsed(n, Seconds)
  <2>1. PICK first \in Nat, last \in Nat : first = FirstOf(n) /\ last = LastOf(n) /\ first >= 1 /\ last <= Size
    BY RunSlotsAre DEF FirstOf, LastOf, Series
  <2>2. \A i \in first..last : i \in 1..Size /\ Complete(i)
    BY <1>2, <2>1, RunSlotsAre DEF Measured, PlacesOf
  <2>3. \A i \in first..last : Complete(i)' /\ Seconds'[i] = Seconds[i]
    BY <1>1, <2>2
  <2>4. \A k \in 1..last - first + 1 : first + k - 1 \in first..last
    BY <2>1
  <2>5. [k \in 1..last - first + 1 |-> Seconds'[first + k - 1]] = [k \in 1..last - first + 1 |-> Seconds[first + k - 1]]
    BY <2>3, <2>4
  <2>. QED
    BY <2>1, <2>3, <2>5 DEF Measured, PlacesOf, SeriesUsed, CountOf
<1>. QED
  BY <1>1, <1>2

(* Nothing that stands falls.                                              *)
LEMMA StandingStays ==
    ASSUME EvaluationTypes, Kept, NEW i \in 1..Size, NEW x \in Entries, Standing(i, x)
    PROVE  Standing(i, x)'
<1>1. CandidateFor(RunSlots[i], x) # Nobody
  BY EvaluationAssumption DEF CandidateFor
<1>. QED
  BY <1>1 DEF Kept, Standing, Complete

(* A step that stands stays so, whatever the other actors do, as long as   *)
(* the process lives.                                                      *)
LEMMA StepsStay ==
    ASSUME EvaluationTypes, Kept, Remembered, NEW k \in 1..Size + 4, NEW x \in Entries,
           StepStands(Program[k], x)
    PROVE  StepStands(Program[k], x)'
<1>. PICK step : step = Program[k]
  OBVIOUS
<1>1. CASE Program[k].do = "run"
  <2>1. PICK i \in 1..Size : i = Program[k].place
    BY <1>1, Behind
  <2>2. Standing(i, x) /\ usedRun[i] = Seconds[i]
    BY <1>1, <2>1 DEF StepStands
  <2>3. Standing(i, x)'
    BY <2>2, StandingStays
  <2>4. usedRun'[i] = Seconds'[i]
    BY <2>2, SecondsStay DEF Remembered, Standing
  <2>. QED
    BY <1>1, <2>1, <2>3, <2>4 DEF StepStands
<1>2. CASE Program[k].do # "run"
  <2>1. PICK n \in Series : n = Program[k].node
    BY <1>2, Behind
  <2>2. /\ rows[n].candidate = x
        /\ n # "split" => Measured(n) /\ usedRow[n] = SeriesUsed(n, Seconds)
    BY <1>2, <2>1 DEF StepStands
  <2>3. rows'[n].candidate = x
    BY <2>2, EvaluationAssumption DEF Kept, NoRow
  <2>4. n # "split" => Measured(n)' /\ usedRow'[n] = SeriesUsed(n, Seconds)'
    BY <2>2, SecondsStay DEF Remembered
  <2>. QED
    BY <1>2, <2>1, <2>3, <2>4 DEF StepStands
<1>. QED
  BY <1>1, <1>2

(* A call that does not move stands.                                       *)
LEMMA CallsStay ==
    ASSUME EvaluationTypes, Kept, Remembered, NEW c \in EvalCallers, CallStands(c),
           evals'[c] = evals[c]
    PROVE  CallStands(c)'
<1>1. evals[c].at \in 0..Size + 5 /\ Entry(c) \in Entries \cup {Nobody} /\ Size \in Nat
  BY RunSlotsAre DEF EvaluationTypes, Calls, Entry
<1>2. ASSUME NEW h \in 1..evals[c].at - 1 PROVE StepStands(Program[h], Entry(c))'
  <2>1. PICK x \in Entries : x = Entry(c)
    BY <1>1 DEF CallStands
  <2>2. h \in 1..Size + 4
    BY <1>1
  <2>3. StepStands(Program[h], x)'
    BY <2>1, <2>2, StepsStay DEF CallStands
  <2>4. Entry(c)' = x
    BY <2>1 DEF Entry
  <2>. QED
    BY <2>3, <2>4 DEF StepStands, Standing, Complete, Measured, PlacesOf, SeriesUsed
<1>. QED
  BY <1>2 DEF CallStands, Entry

(* The seconds that are known stay those of complete runs.                 *)
LEMMA UsedStays ==
    ASSUME EvaluationTypes, Kept, Remembered, UsedIsSound
    PROVE  UsedIsSound'
<1>1. ASSUME NEW i \in 1..Size, usedRun'[i] # Unknown PROVE Complete(i)' /\ usedRun'[i] = Seconds'[i]
  BY <1>1, SecondsStay DEF Remembered, UsedIsSound
<1>2. ASSUME NEW n \in Series, usedRow'[n] # Unknown
      PROVE  Measured(n)' /\ usedRow'[n] = SeriesUsed(n, Seconds)'
  BY <1>2, SecondsStay DEF Remembered, UsedIsSound
<1>. QED
  BY <1>1, <1>2 DEF UsedIsSound, Unknown

(* A receipt that stands keeps standing.                                   *)
LEMMA ReceiptStays ==
    ASSUME EvaluationTypes, Kept, \A m \in Series : ReceiptStands(m), NEW n \in Series, rows'[n] = rows[n]
    PROVE  ReceiptStands(n)'
<1>. SUFFICES ASSUME rows[n] # NoRow PROVE ReceiptStands(n)'
  BY DEF ReceiptStands
<1>1. PICK x \in Entries : x = rows[n].candidate /\ x = rows'[n].candidate
  BY DEF ReceiptStands
<1>2. \A i \in 1..LastOf(n) : i \in 1..Size /\ Standing(i, x)
  BY <1>1, RunSlotsAre DEF ReceiptStands, LastOf, Series
<1>3. \A i \in 1..LastOf(n) : Standing(i, x)'
  BY <1>2, StandingStays
<1>4. ASSUME n \in {"composite", "split"}, NEW m \in {"quality", "performance", "composite"}
      PROVE  rows'[m].candidate = x
  <2>1. rows[m].candidate = x /\ m \in Series
    BY <1>1, <1>4 DEF ReceiptStands, Series
  <2>2. x # Nobody
    BY EvaluationAssumption
  <2>3. rows[m] # NoRow
    BY <2>1, <2>2 DEF NoRow
  <2>. QED
    BY <2>1, <2>3 DEF Kept
<1>. QED
  BY <1>1, <1>3, <1>4 DEF ReceiptStands, Standing, Complete

-----------------------------------------------------------------------------
(* Where a call is when it executes a run.                                 *)
LEMMA AtRun ==
    ASSUME EvaluationInv, NEW c \in EvalCallers, Doing(c, "run")
    PROVE  \E k \in 1..Size + 4, x \in Entries, i \in 1..Size :
              /\ k = evals[c].at /\ Program[k].do = "run" /\ i = Program[k].place /\ i = Now(c).place
              /\ x = Entry(c) /\ Wants(c) = CandidateFor(RunSlots[i], x) /\ Wants(c) \in Candidates
              /\ \A j \in 1..i - 1 : Standing(j, x)
<1>1. PICK k \in 1..Size + 4 : k = evals[c].at /\ Program[k].do = "run" /\ Now(c) = Program[k]
  BY ProgramIs DEF Doing, Now
<1>2. PICK i \in 1..Size : i = Program[k].place
  BY <1>1, Behind
<1>3. Size \in Nat
  BY RunSlotsAre
<1>4. PICK x \in Entries : x = Entry(c)
  BY <1>1, <1>3 DEF EvaluationInv, EvaluationTypes, Calls, CallStands, Entry
<1>5. Wants(c) = CandidateFor(RunSlots[i], x)
  <2>1. RunSlots[i].phase = "quality" \/ RunSlots[i].role = "candidate"
    <3>1. i = 1 \/ i \in 2..Middle \/ i \in Middle + 1..Size
      BY RunSlotsAre
    <3>2. CASE i = 1
      BY <3>2, RunSlotsAre DEF Slot
    <3>3. CASE i \in 2..Middle
      <4>1. RunSlots[i] \in QualityRuns
        BY <3>3, RunSlotsAre
      <4>. QED
        BY <4>1 DEF QualityRuns
    <3>4. CASE i \in Middle + 1..Size
      <4>1. PICK r : RunSlots[i] = Slot("performance", "candidate", r)
        BY <3>4, RunSlotsAre
      <4>. QED
        BY <4>1 DEF Slot
    <3>. QED
      BY <3>1, <3>2, <3>3, <3>4
  <2>. QED
    BY <1>1, <1>2, <1>4, <2>1 DEF Wants, QualityRequest, Request, CandidateFor
<1>6. ASSUME NEW j \in 1..i - 1 PROVE Standing(j, x)
  <2>1. PICK h \in 1..k - 1 : Program[h] = Run(j)
    BY <1>1, <1>2, Behind
  <2>2. StepStands(Run(j), x)
    BY <1>1, <1>4, <2>1 DEF EvaluationInv, CallStands
  <2>. QED
    BY <2>2 DEF StepStands, Run
<1>. QED
  BY <1>1, <1>2, <1>4, <1>5, <1>6 DEF CandidateFor, Candidates

(* Where a call is when it binds a receipt.                                *)
LEMMA AtBind ==
    ASSUME EvaluationInv, NEW c \in EvalCallers, NEW n \in Series, Binding(c, n)
    PROVE  \E k \in 1..Size + 4, x \in Entries :
              /\ k = evals[c].at /\ Program[k].do = "bind" /\ Program[k].node = n
              /\ x = Entry(c)
              /\ \A j \in 1..LastOf(n) : Standing(j, x) /\ usedRun[j] = Seconds[j]
              /\ n \in {"composite", "split"} =>
                    /\ rows["quality"].candidate = x /\ rows["performance"].candidate = x
                    /\ usedRow["quality"] = SeriesUsed("quality", Seconds)
                    /\ usedRow["performance"] = SeriesUsed("performance", Seconds)
              /\ n = "split" => rows["composite"].candidate = x
<1>1. PICK k \in 1..Size + 4 : k = evals[c].at /\ Program[k].do = "bind" /\ Program[k].node = n
  BY ProgramIs DEF Binding, Doing, Now
<1>2. Size \in Nat
  BY RunSlotsAre
<1>3. PICK x \in Entries : x = Entry(c)
  BY <1>1, <1>2 DEF EvaluationInv, EvaluationTypes, Calls, CallStands, Entry
<1>4. \A h \in 1..k - 1 : StepStands(Program[h], x)
  BY <1>1, <1>3 DEF EvaluationInv, CallStands
<1>5. ASSUME NEW j \in 1..LastOf(n) PROVE Standing(j, x) /\ usedRun[j] = Seconds[j]
  <2>1. PICK h \in 1..k - 1 : Program[h] = Run(j)
    BY <1>1, Behind
  <2>2. StepStands(Run(j), x)
    BY <1>4, <2>1
  <2>. QED
    BY <2>2 DEF StepStands, Run
<1>6. ASSUME NEW m \in Series, \E h \in 1..k - 1 : Program[h] = Bind(m)
      PROVE  rows[m].candidate = x /\ (m # "split" => usedRow[m] = SeriesUsed(m, Seconds))
  <2>1. StepStands(Bind(m), x)
    BY <1>4, <1>6
  <2>. QED
    BY <2>1 DEF StepStands, Bind
<1>7. /\ n \in {"composite", "split"} =>
            /\ \E h \in 1..k - 1 : Program[h] = Bind("quality")
            /\ \E h \in 1..k - 1 : Program[h] = Bind("performance")
      /\ n = "split" => \E h \in 1..k - 1 : Program[h] = Bind("composite")
  BY <1>1, Behind
<1>. QED
  BY <1>1, <1>3, <1>5, <1>6, <1>7 DEF Series

(* The invariant after a step that takes nothing back.                     *)
LEMMA KeptSteps ==
    ASSUME EvaluationInv, Kept, Remembered, EvaluationTypes', ValuesAreMeasured', PlanIsFollowed',
           \A c \in EvalCallers : evals'[c] = evals[c] \/ CallStands(c)',
           \A n \in Series : rows'[n] = rows[n] \/ ReceiptStands(n)'
    PROVE  EvaluationInv'
<1>1. \A c \in EvalCallers : CallStands(c)'
  BY CallsStay DEF EvaluationInv
<1>2. UsedIsSound'
  BY UsedStays DEF EvaluationInv
<1>3. \A n \in Series : ReceiptStands(n)'
  BY ReceiptStays DEF EvaluationInv
<1>. QED
  BY <1>1, <1>2, <1>3 DEF EvaluationInv

(* A call at rest has nothing behind it.                                   *)
LEMMA RestStands ==
    ASSUME NEW c \in EvalCallers, evals'[c] = Resting
    PROVE  CallStands(c)'
  BY DEF CallStands, Resting, Entry

(* The invariant holds before anything was executed or bound.              *)
LEMMA EvaluationInvInit == EvalInit => EvaluationInv
<1>. SUFFICES ASSUME EvalInit PROVE EvaluationInv
  OBVIOUS
<1>. USE DEF EvalInit
<1>1. EvaluationTypes
  <2>1. Resting \in Calls
    BY RunSlotsAre DEF Resting, Calls
  <2>2. NoValue \in Values
    BY DEF Values
  <2>3. [status |-> "none", candidate |-> Nobody, value |-> NoValue] \in Executions
    BY <2>2 DEF Executions
  <2>. QED
    BY <2>1, <2>3 DEF EvaluationTypes, Unknown
<1>2. ValuesAreMeasured /\ PlanIsFollowed
  BY DEF ValuesAreMeasured, PlanIsFollowed, Complete
<1>3. UsedIsSound
  BY DEF UsedIsSound
<1>4. \A c \in EvalCallers : CallStands(c)
  BY DEF CallStands, Resting, Entry
<1>5. \A n \in Series : ReceiptStands(n)
  BY DEF ReceiptStands
<1>. QED
  BY <1>1, <1>2, <1>3, <1>4, <1>5 DEF EvaluationInv

(* hidden_evaluate() is entered: nothing lies behind the call yet.         *)
LEMMA EntryStep ==
    ASSUME EvaluationInv, NEW c \in EvalCallers, NEW x \in Entries, EvaluateEntry(c, x)
    PROVE  EvaluationInv'
<1>. USE DEF EvaluateEntry
<1>0. [candidate |-> x, at |-> 1] \in Calls /\ evals \in [EvalCallers -> Calls]
  BY RunSlotsAre DEF EvaluationInv, EvaluationTypes, Calls
<1>a. evals' = [evals EXCEPT ![c] = [candidate |-> x, at |-> 1]]
  OBVIOUS
<1>1. evals'[c] = [candidate |-> x, at |-> 1] /\ evals' \in [EvalCallers -> Calls]
  BY <1>0, <1>a
<1>2. EvaluationTypes'
  BY <1>1 DEF EvaluationInv, EvaluationTypes
<1>3. Kept /\ Remembered /\ ValuesAreMeasured' /\ PlanIsFollowed'
  BY DEF Kept, Remembered, EvaluationInv, ValuesAreMeasured, PlanIsFollowed, Complete
<1>4. CallStands(c)'
  BY <1>1, EvaluationAssumption DEF CallStands, Entry
<1>5. \A d \in EvalCallers : d # c => evals'[d] = evals[d]
  BY DEF EvaluationInv, EvaluationTypes
<1>. QED
  BY <1>2, <1>3, <1>4, <1>5, KeptSteps

(* A run is submitted: every run before it has been bound by this call, and*)
(* is complete therefore.                                                  *)
LEMMA SubmitStep ==
    ASSUME EvaluationInv, NEW c \in EvalCallers, SubmitSlot(c)
    PROVE  EvaluationInv'
<1>1. PICK k \in 1..Size + 4, x \in Entries, i \in 1..Size :
         /\ i = Now(c).place /\ Wants(c) \in Candidates
         /\ \A j \in 1..i - 1 : Standing(j, x)
  BY AtRun DEF SubmitSlot
<1>2. /\ backend[i].status = "none" /\ Planned(i) = Wants(c)
      /\ backend' = [backend EXCEPT ![i].status = "running", ![i].candidate = Wants(c)]
      /\ UNCHANGED <<leaf, rows, usedRun, usedRow, evals, told, evalFaults>>
  BY <1>1 DEF SubmitSlot
<1>3. backend \in [1..Size -> Executions]
  BY DEF EvaluationInv, EvaluationTypes
<1>4. PICK was \in Executions : was = backend[i] /\ backend' = [backend EXCEPT ![i] = [was EXCEPT !.status = "running", !.candidate = Wants(c)]]
  BY <1>2, <1>3
<1>5. [was EXCEPT !.status = "running", !.candidate = Wants(c)] \in Executions
  BY <1>1 DEF Executions
<1>6. EvaluationTypes'
  BY <1>2, <1>4, <1>5 DEF EvaluationInv, EvaluationTypes
<1>7. /\ \A j \in 1..Size : j # i => backend'[j] = backend[j]
      /\ backend'[i].status = "running" /\ backend'[i].candidate = Wants(c) /\ backend'[i].value = backend[i].value
  BY <1>3, <1>4 DEF Executions
<1>8. Kept /\ Remembered
  BY <1>2, <1>7 DEF Kept, Remembered, Complete
<1>9. ValuesAreMeasured'
  BY <1>2, <1>7 DEF EvaluationInv, ValuesAreMeasured, Complete
<1>10. PlanIsFollowed'
  <2>. SUFFICES ASSUME NEW j \in 1..Size, backend'[j].status # "none"
                PROVE  /\ backend'[j].candidate = Planned(j)
                       /\ \A h \in 1..j - 1 : backend'[h].status = "complete"
    BY DEF PlanIsFollowed
  <2>1. CASE j = i
    <3>1. \A h \in 1..i - 1 : h \in 1..Size /\ h # i /\ backend[h].status = "complete"
      BY <1>1, RunSlotsAre DEF Standing, Complete
    <3>. QED
      BY <1>2, <1>7, <2>1, <3>1
  <2>2. CASE j # i
    <3>1. backend[j].candidate = Planned(j) /\ \A h \in 1..j - 1 : backend[h].status = "complete" /\ h \in 1..Size
      BY <1>7, <2>2, RunSlotsAre DEF EvaluationInv, PlanIsFollowed
    <3>2. \A h \in 1..j - 1 : h # i
      BY <1>2, <3>1
    <3>. QED
      BY <1>7, <2>2, <3>1, <3>2
  <2>. QED
    BY <2>1, <2>2
<1>. QED
  BY <1>2, <1>6, <1>8, <1>9, <1>10, KeptSteps

(* A step of a call that binds one of its steps.                           *)
LEMMA CallMoves ==
    ASSUME EvaluationInv, Kept, Remembered, NEW c \in EvalCallers,
           NEW k \in 1..Size + 4, NEW x \in Entries, k = evals[c].at, x = Entry(c),
           evals' = [evals EXCEPT ![c].at = @ + 1], StepStands(Program[k], x)'
    PROVE  /\ evals' \in [EvalCallers -> Calls]
           /\ \A d \in EvalCallers : evals'[d] = evals[d] \/ CallStands(d)'
<1>1. evals \in [EvalCallers -> Calls] /\ evals[c] = [candidate |-> x, at |-> k] /\ Size \in Nat
  BY RunSlotsAre DEF EvaluationInv, EvaluationTypes, Calls, Entry
<1>2. evals' = [evals EXCEPT ![c] = [candidate |-> x, at |-> k + 1]]
  <2>1. evals' = [evals EXCEPT ![c] = [evals[c] EXCEPT !.at = evals[c].at + 1]]
    OBVIOUS
  <2>2. [evals[c] EXCEPT !.at = evals[c].at + 1] = [candidate |-> x, at |-> k + 1]
    <3>1. [[candidate |-> x, at |-> k] EXCEPT !.at = k + 1] = [candidate |-> x, at |-> k + 1]
      OBVIOUS
    <3>. QED
      BY <1>1, <3>1
  <2>. QED
    BY <2>1, <2>2
<1>3. [candidate |-> x, at |-> k + 1] \in Calls
  BY <1>1 DEF Calls
<1>4. evals' \in [EvalCallers -> Calls] /\ evals'[c] = [candidate |-> x, at |-> k + 1]
  BY <1>1, <1>2, <1>3
<1>5. \A d \in EvalCallers : d # c => evals'[d] = evals[d]
  BY <1>1, <1>2
<1>6. ASSUME NEW h \in 1..k PROVE StepStands(Program[h], x)'
  <2>1. CASE h = k
    BY <2>1
  <2>2. CASE h # k
    <3>1. StepStands(Program[h], x)
      BY <2>2 DEF EvaluationInv, CallStands
    <3>2. h \in 1..Size + 4
      BY <1>1
    <3>. QED
      BY <3>1, <3>2, StepsStay DEF EvaluationInv
  <2>. QED
    BY <2>1, <2>2
<1>7. CallStands(c)'
  <2>1. evals'[c].at = k + 1 /\ evals'[c].candidate = x /\ k + 1 # 0 /\ (k + 1) - 1 = k
    BY <1>4
  <2>2. \A h \in 1..evals'[c].at - 1 : StepStands(Program[h], x)'
    BY <1>6, <2>1
  <2>. QED
    BY <2>1, <2>2, EvaluationAssumption DEF CallStands, Entry, StepStands, Standing, Complete
<1>. QED
  BY <1>4, <1>5, <1>7

(* A call that ends leaves the others where they are.                      *)
LEMMA CallEnds ==
    ASSUME EvaluationInv, NEW c \in EvalCallers, Finishes(c)
    PROVE  /\ evals' \in [EvalCallers -> Calls]
           /\ \A d \in EvalCallers : evals'[d] = evals[d] \/ CallStands(d)'
<1>1. evals \in [EvalCallers -> Calls] /\ Resting \in Calls
  BY RunSlotsAre DEF EvaluationInv, EvaluationTypes, Calls, Resting
<1>2. evals' = [evals EXCEPT ![c] = Resting]
  BY DEF Finishes
<1>3. evals'[c] = Resting /\ \A d \in EvalCallers : d # c => evals'[d] = evals[d]
  BY <1>1, <1>2
<1>. QED
  BY <1>1, <1>2, <1>3, RestStands

(* Seconds are integers, and so are their sums.                            *)
LEMMA SecondsAreInts ==
    ASSUME EvaluationInv
    PROVE  /\ Seconds \in [1..Size -> Int]
           /\ \A n \in Series, f \in [1..Size -> Int] : SeriesUsed(n, f) \in Int
<1>1. ASSUME NEW i \in 1..Size PROVE backend[i].value.seconds \in Int
  <2>1. CASE Complete(i)
    BY <2>1, MeasurementAssumption DEF EvaluationInv, ValuesAreMeasured
  <2>2. CASE ~ Complete(i)
    BY <2>2 DEF EvaluationInv, ValuesAreMeasured, NoValue
  <2>. QED
    BY <2>1, <2>2
<1>2. ASSUME NEW n \in Series, NEW f \in [1..Size -> Int] PROVE SeriesUsed(n, f) \in Int
  <2>1. PICK first \in Nat, last \in Nat, count \in Nat :
           /\ first = FirstOf(n) /\ last = LastOf(n) /\ first >= 1 /\ last <= Size
           /\ count = last - first + 1 /\ count = CountOf(n)
    BY RunSlotsAre, EvaluationAssumption DEF FirstOf, LastOf, CountOf, Series
  <2>2. [k \in 1..count |-> f[first + k - 1]] \in [1..count -> Int]
    <3>1. \A k \in 1..count : first + k - 1 \in 1..Size
      BY <2>1, RunSlotsAre
    <3>. QED
      BY <3>1
  <2>3. Total(count, [k \in 1..count |-> f[first + k - 1]]) \in Int
    BY <2>2, TotalType
  <2>. QED
    BY <2>1, <2>3 DEF SeriesUsed
<1>. QED
  BY <1>1, <1>2 DEF Seconds

(* The seconds of all runs are those of the three phases.                  *)
LEMMA UsedByPhases ==
    ASSUME NEW f \in [1..Size -> Int]
    PROVE  /\ SeriesUsed("composite", f) = f[1] + SeriesUsed("quality", f) + SeriesUsed("performance", f)
           /\ SeriesUsed("split", f) = SeriesUsed("composite", f)
<1>1. PICK q \in Nat, p \in Nat : Middle = 1 + q /\ Size = 1 + q + p
  BY RunSlotsAre, EvaluationAssumption
<1>2. /\ FirstOf("composite") = 1 /\ CountOf("composite") = 1 + q + p
      /\ FirstOf("split") = 1 /\ CountOf("split") = 1 + q + p
      /\ FirstOf("quality") = 2 /\ CountOf("quality") = q
      /\ FirstOf("performance") = q + 2 /\ CountOf("performance") = p
  BY <1>1 DEF FirstOf, LastOf, CountOf
<1>. DEFINE all  == [k \in 1..1 + q + p |-> f[1 + k - 1]]
            head == [k \in 1..1 + q |-> f[k]]
            mid  == [k \in 1..q |-> f[2 + k - 1]]
            tail == [k \in 1..p |-> f[q + 2 + k - 1]]
            one  == [k \in 1..1 |-> f[k]]
<1>3. all = f /\ f \in [1..(1 + q) + p -> Int]
  BY <1>1
<1>4. Total((1 + q) + p, f) = Total(1 + q, [k \in 1..1 + q |-> f[k]]) + Total(p, [k \in 1..p |-> f[(1 + q) + k]])
  <2>1. 1 + q \in Nat
    OBVIOUS
  <2>. QED
    BY <1>3, <2>1, TotalSplit
<1>5. head \in [1..1 + q -> Int] /\ mid \in [1..q -> Int] /\ tail \in [1..p -> Int] /\ one \in [1..1 -> Int]
  BY <1>1
<1>6. tail = [k \in 1..p |-> f[(1 + q) + k]]
  OBVIOUS
<1>7. Total(1 + q, head) = Total(1, [k \in 1..1 |-> head[k]]) + Total(q, [k \in 1..q |-> head[1 + k]])
  <2>. HIDE DEF head
  <2>. QED
    BY <1>5, TotalSplit
<1>8. one = [k \in 1..1 |-> head[k]] /\ mid = [k \in 1..q |-> head[1 + k]]
  <2>1. \A k \in 1..q : head[1 + k] = f[2 + k - 1]
    OBVIOUS
  <2>. QED
    BY <2>1
<1>9. Total(1, one) = f[1]
  <2>1. one[1] = f[1]
    OBVIOUS
  <2>. HIDE DEF one
  <2>. QED
    BY <1>5, <2>1, TotalOne
<1>10. /\ SeriesUsed("composite", f) = Total(1 + q + p, all) /\ SeriesUsed("split", f) = Total(1 + q + p, all)
       /\ SeriesUsed("quality", f) = Total(q, mid) /\ SeriesUsed("performance", f) = Total(p, tail)
  BY <1>2, Zenon DEF SeriesUsed
<1>11. Total(q, mid) \in Int /\ Total(p, tail) \in Int /\ f[1] \in Int
  <2>. HIDE DEF mid, tail
  <2>. QED
    BY <1>1, <1>5, TotalType
<1>. HIDE DEF all, head, mid, tail, one
<1>. QED
  BY <1>3, <1>4, <1>6, <1>7, <1>8, <1>9, <1>10, <1>11 DEF head

(* A run returns and is bound, whether through the candidate evaluator or  *)
(* the quality backend.                                                    *)
LEMMA ReturnStep ==
    ASSUME EvaluationInv, NEW c \in EvalCallers, RunReturns(c) \/ QualityReturns(c)
    PROVE  EvaluationInv'
<1>1. Doing(c, "run") /\ BindsRun(c)
  BY DEF RunReturns, QualityReturns
<1>2. PICK k \in 1..Size + 4, x \in Entries, i \in 1..Size :
         /\ k = evals[c].at /\ Program[k].do = "run" /\ i = Program[k].place /\ i = Now(c).place
         /\ x = Entry(c) /\ Wants(c) = CandidateFor(RunSlots[i], x) /\ Wants(c) \in Candidates
  BY <1>1, AtRun
<1>3. Complete(i) /\ backend[i].candidate = CandidateFor(RunSlots[i], x)
  BY <1>2 DEF RunReturns, QualityReturns, CandidateEvidence, QualityEvidence, Complete
<1>4. /\ leaf[i] \in {Nobody, Wants(c)} /\ leaf' = [leaf EXCEPT ![i] = Wants(c)]
      /\ usedRun' = [usedRun EXCEPT ![i] = backend[i].value.seconds]
      /\ evals' = [evals EXCEPT ![c].at = @ + 1]
      /\ UNCHANGED <<backend, rows, usedRow, told, evalFaults>>
  BY <1>1, <1>2 DEF BindsRun
<1>5. Seconds \in [1..Size -> Int] /\ Seconds[i] = backend[i].value.seconds
  BY SecondsAreInts DEF Seconds
<1>6. Kept /\ Remembered
  BY <1>3, <1>4, <1>5 DEF EvaluationInv, EvaluationTypes, Kept, Remembered
<1>7. StepStands(Program[k], x)'
  <2>1. leaf'[i] = CandidateFor(RunSlots[i], x) /\ usedRun'[i] = Seconds[i]
    BY <1>2, <1>4, <1>5 DEF EvaluationInv, EvaluationTypes
  <2>2. Seconds'[i] = Seconds[i]
    BY <1>4 DEF Seconds
  <2>3. Standing(i, x)'
    BY <1>3, <1>4, <2>1 DEF Standing, Complete
  <2>. QED
    BY <1>2, <2>1, <2>2, <2>3 DEF StepStands
<1>8. /\ evals' \in [EvalCallers -> Calls]
      /\ \A d \in EvalCallers : evals'[d] = evals[d] \/ CallStands(d)'
  BY <1>2, <1>4, <1>6, <1>7, CallMoves
<1>9. EvaluationTypes'
  BY <1>2, <1>4, <1>5, <1>8 DEF EvaluationInv, EvaluationTypes
<1>10. ValuesAreMeasured' /\ PlanIsFollowed'
  BY <1>4 DEF EvaluationInv, ValuesAreMeasured, PlanIsFollowed, Complete
<1>. QED
  BY <1>4, <1>6, <1>8, <1>9, <1>10, KeptSteps

(* Nothing but the call itself changes.                                    *)
LEMMA EndStep ==
    ASSUME EvaluationInv, NEW c \in EvalCallers, RunRaises(c) \/ GivesUp(c)
    PROVE  EvaluationInv'
<1>1. Finishes(c) /\ UNCHANGED <<backend, leaf, rows, usedRun, usedRow, told>>
  BY DEF RunRaises, GivesUp
<1>2. Kept /\ Remembered
  BY <1>1 DEF Kept, Remembered
<1>3. /\ evals' \in [EvalCallers -> Calls]
      /\ \A d \in EvalCallers : evals'[d] = evals[d] \/ CallStands(d)'
  BY <1>1, CallEnds
<1>4. EvaluationTypes'
  BY <1>1, <1>3 DEF EvaluationInv, EvaluationTypes
<1>5. ValuesAreMeasured' /\ PlanIsFollowed'
  BY <1>1 DEF EvaluationInv, ValuesAreMeasured, PlanIsFollowed, Complete
<1>. QED
  BY <1>1, <1>2, <1>3, <1>4, <1>5, KeptSteps

(* An execution completes with a measurement of its run.                   *)
LEMMA CompletesStep ==
    ASSUME EvaluationInv, NEW i \in 1..Size, NEW v \in Measurements(RunSlots[i]), Completes(i, v)
    PROVE  EvaluationInv'
<1>1. /\ backend[i].status = "running"
      /\ backend' = [backend EXCEPT ![i].status = "complete", ![i].value = v]
      /\ UNCHANGED <<leaf, rows, usedRun, usedRow, evals, told, evalFaults>>
  BY DEF Completes
<1>2. backend \in [1..Size -> Executions]
  BY DEF EvaluationInv, EvaluationTypes
<1>3. PICK was \in Executions : was = backend[i] /\ backend' = [backend EXCEPT ![i] = [was EXCEPT !.status = "complete", !.value = v]]
  BY <1>1, <1>2
<1>4. [was EXCEPT !.status = "complete", !.value = v] \in Executions
  <2>1. v \in Values
    BY DEF Values
  <2>. QED
    BY <2>1 DEF Executions
<1>5. EvaluationTypes'
  BY <1>1, <1>3, <1>4 DEF EvaluationInv, EvaluationTypes
<1>6. /\ \A j \in 1..Size : j # i => backend'[j] = backend[j]
      /\ backend'[i].status = "complete" /\ backend'[i].candidate = backend[i].candidate /\ backend'[i].value = v
  BY <1>2, <1>3 DEF Executions
<1>7. Kept /\ Remembered
  BY <1>1, <1>6 DEF Kept, Remembered, Complete
<1>8. ValuesAreMeasured'
  BY <1>6 DEF EvaluationInv, ValuesAreMeasured, Complete
<1>9. PlanIsFollowed'
  <2>1. \A j \in 1..Size : /\ backend'[j].candidate = backend[j].candidate
                           /\ backend'[j].status # "none" => backend[j].status # "none"
                           /\ backend[j].status = "complete" => backend'[j].status = "complete"
    BY <1>1, <1>6
  <2>2. \A j \in 1..Size : \A h \in 1..j - 1 : h \in 1..Size
    BY RunSlotsAre
  <2>. QED
    BY <2>1, <2>2 DEF EvaluationInv, PlanIsFollowed
<1>. QED
  BY <1>1, <1>5, <1>7, <1>8, <1>9, KeptSteps

(* An execution fails; it was running, so nothing stands on it.            *)
LEMMA FailsStep ==
    ASSUME EvaluationInv, NEW i \in 1..Size, RunFails(i)
    PROVE  EvaluationInv'
<1>1. /\ backend[i].status = "running"
      /\ backend' = [backend EXCEPT ![i].status = "failed"]
      /\ UNCHANGED <<leaf, rows, usedRun, usedRow, evals, told>>
  BY DEF RunFails
<1>2. backend \in [1..Size -> Executions]
  BY DEF EvaluationInv, EvaluationTypes
<1>3. PICK was \in Executions : was = backend[i] /\ backend' = [backend EXCEPT ![i] = [was EXCEPT !.status = "failed"]]
  BY <1>1, <1>2
<1>4. [was EXCEPT !.status = "failed"] \in Executions
  BY DEF Executions
<1>5. EvaluationTypes'
  BY <1>1, <1>3, <1>4 DEF EvaluationInv, EvaluationTypes
<1>6. /\ \A j \in 1..Size : j # i => backend'[j] = backend[j]
      /\ backend'[i].status = "failed" /\ backend'[i].candidate = backend[i].candidate /\ backend'[i].value = backend[i].value
  BY <1>2, <1>3 DEF Executions
<1>7. Kept /\ Remembered
  BY <1>1, <1>6 DEF Kept, Remembered, Complete
<1>8. ValuesAreMeasured'
  BY <1>1, <1>6 DEF EvaluationInv, ValuesAreMeasured, Complete
<1>9. PlanIsFollowed'
  BY <1>1, <1>6, RunSlotsAre DEF EvaluationInv, PlanIsFollowed
<1>. QED
  BY <1>1, <1>5, <1>7, <1>8, <1>9, KeptSteps

(* The process that dies takes its calls and its memory with it.           *)
LEMMA DiesStep ==
    ASSUME EvaluationInv, EvaluatorDies
    PROVE  EvaluationInv'
<1>1. /\ evals' = [c \in EvalCallers |-> Resting]
      /\ usedRun' = [i \in 1..Size |-> Unknown] /\ usedRow' = [n \in Series |-> Unknown]
      /\ UNCHANGED <<backend, leaf, rows, told>>
  BY DEF EvaluatorDies
<1>2. Resting \in Calls
  BY RunSlotsAre DEF Resting, Calls
<1>3. EvaluationTypes'
  <2>1. /\ evals' \in [EvalCallers -> Calls]
        /\ usedRun' \in [1..Size -> Int] /\ usedRow' \in [Series -> Int]
    BY <1>1, <1>2 DEF Unknown
  <2>. QED
    BY <1>1, <2>1 DEF EvaluationInv, EvaluationTypes
<1>4. Kept
  BY <1>1 DEF Kept
<1>5. UsedIsSound'
  BY <1>1 DEF UsedIsSound
<1>6. \A c \in EvalCallers : CallStands(c)'
  BY <1>1, RestStands
<1>7. \A n \in Series : ReceiptStands(n)'
  BY <1>1, <1>4, ReceiptStays DEF EvaluationInv
<1>8. ValuesAreMeasured' /\ PlanIsFollowed'
  BY <1>1 DEF EvaluationInv, ValuesAreMeasured, PlanIsFollowed, Complete
<1>. QED
  BY <1>3, <1>5, <1>6, <1>7, <1>8 DEF EvaluationInv

(* A receipt is bound once, to the candidate of the call.                  *)
LEMMA InsertStep ==
    ASSUME EvaluationInv, NEW c \in EvalCallers, NEW n \in Series, NEW row, NEW seconds,
           Inserts(c, n, row, seconds), row.candidate = Entry(c),
           n # "split" => seconds = SeriesUsed(n, Seconds),
           n = "split" => seconds = usedRow[n]
    PROVE  EvaluationInv'
<1>1. PICK k \in 1..Size + 4, x \in Entries :
         /\ k = evals[c].at /\ Program[k].do = "bind" /\ Program[k].node = n
         /\ x = Entry(c)
         /\ \A j \in 1..LastOf(n) : Standing(j, x) /\ usedRun[j] = Seconds[j]
         /\ n \in {"composite", "split"} =>
               rows["quality"].candidate = x /\ rows["performance"].candidate = x
         /\ n = "split" => rows["composite"].candidate = x
  BY AtBind DEF Inserts
<1>2. UNCHANGED <<backend, leaf, usedRun, told, evalFaults>>
  BY DEF Inserts
<1>3. ValuesAreMeasured' /\ PlanIsFollowed'
  BY <1>2 DEF EvaluationInv, ValuesAreMeasured, PlanIsFollowed, Complete
<1>4. CASE rows[n] \notin {NoRow, row}
  <2>1. Finishes(c) /\ UNCHANGED <<rows, usedRow>>
    BY <1>4 DEF Inserts
  <2>2. Kept /\ Remembered
    BY <1>2, <2>1 DEF Kept, Remembered
  <2>3. /\ evals' \in [EvalCallers -> Calls]
        /\ \A d \in EvalCallers : evals'[d] = evals[d] \/ CallStands(d)'
    BY <2>1, CallEnds
  <2>4. EvaluationTypes'
    BY <1>2, <2>1, <2>3 DEF EvaluationInv, EvaluationTypes
  <2>. QED
    BY <1>3, <2>1, <2>2, <2>3, <2>4, KeptSteps
<1>5. CASE rows[n] \in {NoRow, row}
  <2>1. /\ rows' = [rows EXCEPT ![n] = row] /\ usedRow' = [usedRow EXCEPT ![n] = seconds]
        /\ evals' = [evals EXCEPT ![c].at = @ + 1]
    BY <1>5 DEF Inserts
  <2>2. rows = [m \in Series |-> rows[m]] /\ usedRow \in [Series -> Int]
    BY DEF EvaluationInv, EvaluationTypes
  <2>3. rows'[n] = row /\ (\A m \in Series : m # n => rows'[m] = rows[m]) /\ rows' = [m \in Series |-> rows'[m]]
    BY <2>1, <2>2
  <2>4. Measured(n)
    <3>1. \A i \in PlacesOf(n) : i \in 1..LastOf(n)
      BY RunSlotsAre DEF PlacesOf, FirstOf, LastOf, Series
    <3>. QED
      BY <1>1, <3>1 DEF Measured, Standing
  <2>5. /\ seconds \in Int /\ usedRow'[n] = seconds
        /\ \A m \in Series : m # n => usedRow'[m] = usedRow[m]
    BY <2>1, <2>2, SecondsAreInts
  <2>6. Kept
    BY <1>2, <1>5, <2>3 DEF Kept
  <2>7. Remembered
    BY <1>2, <2>4, <2>5 DEF Remembered
  <2>8. n # "split" => Measured(n)' /\ SeriesUsed(n, Seconds)' = SeriesUsed(n, Seconds)
    BY <2>4, <2>6, SecondsStay DEF EvaluationInv
  <2>9. StepStands(Program[k], x)'
    BY <1>1, <2>3, <2>5, <2>8 DEF StepStands
  <2>10. /\ evals' \in [EvalCallers -> Calls]
         /\ \A d \in EvalCallers : evals'[d] = evals[d] \/ CallStands(d)'
    BY <1>1, <2>1, <2>6, <2>7, <2>9, CallMoves
  <2>11. EvaluationTypes'
    BY <1>2, <2>1, <2>2, <2>3, <2>5, <2>10 DEF EvaluationInv, EvaluationTypes
  <2>12. ReceiptStands(n)'
    <3>1. \A i \in 1..LastOf(n) : Standing(i, x)'
      BY <1>1, <1>2 DEF Standing, Complete
    <3>2. n \in {"composite", "split"} => \A m \in {"quality", "performance", "composite"} : rows'[m].candidate = x
      BY <1>1, <2>3 DEF Series
    <3>. QED
      BY <1>1, <2>3, <3>1, <3>2 DEF ReceiptStands, Standing, Complete
  <2>. QED
    BY <1>3, <2>3, <2>6, <2>7, <2>10, <2>11, <2>12, KeptSteps
<1>. QED
  BY <1>4, <1>5

(* The seconds of a series are those of its places.                        *)
LEMMA SameUsed ==
    ASSUME NEW n \in Series, NEW f, NEW g, \A i \in 1..LastOf(n) : f[i] = g[i]
    PROVE  SeriesUsed(n, f) = SeriesUsed(n, g)
<1>1. PICK first \in Nat, last \in Nat : first = FirstOf(n) /\ last = LastOf(n) /\ first >= 1
  BY RunSlotsAre DEF FirstOf, LastOf, Series
<1>2. \A k \in 1..last - first + 1 : first + k - 1 \in 1..last
  BY <1>1
<1>3. [k \in 1..last - first + 1 |-> f[first + k - 1]] = [k \in 1..last - first + 1 |-> g[first + k - 1]]
  BY <1>1, <1>2
<1>. QED
  BY <1>1, <1>3 DEF SeriesUsed, CountOf

(* A receipt is inserted, or compared with the one stored: by then the call*)
(* has bound every run and every receipt below it.                         *)
LEMMA BindStep ==
    ASSUME EvaluationInv, NEW c \in EvalCallers,
           BindQuality(c) \/ BindPerformance(c) \/ BindComposite(c) \/ BindSplit(c)
    PROVE  EvaluationInv'
<1>0. /\ "quality" \in Series /\ "performance" \in Series /\ "composite" \in Series /\ "split" \in Series
      /\ LastOf("composite") = Size /\ 1 \in 1..Size
  BY RunSlotsAre DEF Series, LastOf
<1>1. \A n \in Series : \A row, seconds :
        Inserts(c, n, row, seconds) => \A j \in 1..LastOf(n) : usedRun[j] = Seconds[j]
  <2>. SUFFICES ASSUME NEW n \in Series, NEW row, NEW seconds, Inserts(c, n, row, seconds)
                PROVE  \A j \in 1..LastOf(n) : usedRun[j] = Seconds[j]
    OBVIOUS
  <2>1. Binding(c, n)
    BY DEF Inserts
  <2>. QED
    BY <2>1, AtBind
<1>2. CASE BindQuality(c)
  <2>1. Inserts(c, "quality", QualityRow(Entry(c)), SeriesUsed("quality", usedRun))
    BY <1>2 DEF BindQuality
  <2>2. SeriesUsed("quality", usedRun) = SeriesUsed("quality", Seconds)
    BY <1>0, <1>1, <2>1, SameUsed
  <2>3. QualityRow(Entry(c)).candidate = Entry(c)
    BY DEF QualityRow
  <2>. QED
    BY <1>0, <2>1, <2>2, <2>3, InsertStep
<1>3. CASE BindPerformance(c)
  <2>1. Inserts(c, "performance", PerformanceRow(Entry(c)), SeriesUsed("performance", usedRun))
    BY <1>3 DEF BindPerformance
  <2>2. SeriesUsed("performance", usedRun) = SeriesUsed("performance", Seconds)
    BY <1>0, <1>1, <2>1, SameUsed
  <2>3. PerformanceRow(Entry(c)).candidate = Entry(c)
    BY DEF PerformanceRow
  <2>. QED
    BY <1>0, <2>1, <2>2, <2>3, InsertStep
<1>4. CASE BindComposite(c)
  <2>1. Inserts(c, "composite", CompositeRow(Entry(c)), CompositeUsed(usedRun[1], usedRow))
    BY <1>4 DEF BindComposite
  <2>2. Binding(c, "composite")
    BY <2>1 DEF Inserts
  <2>3. /\ usedRun[1] = Seconds[1]
        /\ usedRow["quality"] = SeriesUsed("quality", Seconds)
        /\ usedRow["performance"] = SeriesUsed("performance", Seconds)
    BY <1>0, <2>2, AtBind
  <2>4. CompositeUsed(usedRun[1], usedRow) = SeriesUsed("composite", Seconds)
    BY <2>3, SecondsAreInts, UsedByPhases DEF CompositeUsed
  <2>5. CompositeRow(Entry(c)).candidate = Entry(c)
    BY DEF CompositeRow
  <2>. QED
    BY <1>0, <2>1, <2>4, <2>5, InsertStep
<1>5. CASE BindSplit(c)
  <2>1. Inserts(c, "split", SplitRow(Entry(c)), usedRow["split"])
    BY <1>5 DEF BindSplit
  <2>2. SplitRow(Entry(c)).candidate = Entry(c)
    BY DEF SplitRow, NoRow
  <2>. QED
    BY <1>0, <2>1, <2>2, InsertStep
<1>. QED
  BY <1>2, <1>3, <1>4, <1>5

(* What resolves is measured throughout, for the one candidate.            *)
LEMMA ResolvedStands ==
    ASSUME NEW x, Resolves(x)
    PROVE  \A i \in 1..Size : Complete(i)
<1>1. \A i \in PlacesOf("quality") : Complete(i)
  BY DEF Resolves, CompositeResolves, QualityResolves, QualityRunResolves, QualityEvidence, Complete
<1>2. \A i \in PlacesOf("performance") : Complete(i)
  BY DEF Resolves, CompositeResolves, PerformanceResolves, RunResolves, CandidateEvidence, Complete
<1>3. Complete(1)
  BY DEF Resolves, CompositeResolves, RunResolves, CandidateEvidence, Complete
<1>4. \A i \in 1..Size : i = 1 \/ i \in PlacesOf("quality") \/ i \in PlacesOf("performance")
  BY RunSlotsAre DEF PlacesOf, FirstOf, LastOf
<1>. QED
  BY <1>1, <1>2, <1>3, <1>4

(* resolve() succeeds: the seconds of all runs are known again.            *)
LEMMA ResolveStep ==
    ASSUME EvaluationInv, NEW c \in EvalCallers, NEW x, Resolve(c, x)
    PROVE  EvaluationInv'
<1>. DEFINE row == [n \in {"quality", "performance"} |-> SeriesUsed(n, Seconds)]
            all == CompositeUsed(Seconds[1], row)
<1>1. /\ Resolves(x) /\ Finishes(c) /\ UNCHANGED <<backend, leaf, rows, evalFaults>>
      /\ usedRun' = Seconds
      /\ usedRow' = [n \in Series |-> IF n \in {"quality", "performance"} THEN row[n] ELSE all]
  BY DEF Resolve, Seconds
<1>2. \A i \in 1..Size : Complete(i)
  BY <1>1, ResolvedStands
<1>3. Seconds \in [1..Size -> Int] /\ \A n \in Series : SeriesUsed(n, Seconds) \in Int
  BY SecondsAreInts
<1>4. all = SeriesUsed("composite", Seconds) /\ all = SeriesUsed("split", Seconds)
  BY <1>3, UsedByPhases DEF CompositeUsed
<1>5. \A n \in Series : usedRow'[n] = SeriesUsed(n, Seconds)
  <2>1. \A n \in Series : n \in {"quality", "performance"} \/ n = "composite" \/ n = "split"
    BY DEF Series
  <2>. HIDE DEF all
  <2>. QED
    BY <1>1, <1>4, <2>1
<1>6. usedRow' \in [Series -> Int]
  <2>1. usedRow' = [n \in Series |-> usedRow'[n]]
    BY <1>1
  <2>. QED
    BY <1>3, <1>5, <2>1
<1>. HIDE DEF row, all
<1>7. \A n \in Series : Measured(n)
  <2>1. \A n \in Series : \A i \in PlacesOf(n) : i \in 1..Size
    BY RunSlotsAre DEF PlacesOf, FirstOf, LastOf, Series
  <2>. QED
    BY <1>2, <2>1 DEF Measured
<1>8. Kept
  BY <1>1 DEF Kept
<1>9. Remembered
  BY <1>1, <1>2, <1>5, <1>7 DEF Remembered
<1>10. /\ evals' \in [EvalCallers -> Calls]
       /\ \A d \in EvalCallers : evals'[d] = evals[d] \/ CallStands(d)'
  BY <1>1, CallEnds
<1>11. EvaluationTypes'
  BY <1>1, <1>3, <1>6, <1>10 DEF EvaluationInv, EvaluationTypes
<1>12. ValuesAreMeasured' /\ PlanIsFollowed'
  BY <1>1 DEF EvaluationInv, ValuesAreMeasured, PlanIsFollowed, Complete
<1>13. \A n \in Series : rows'[n] = rows[n]
  BY <1>1
<1>. QED
  BY <1>8, <1>9, <1>10, <1>11, <1>12, <1>13, KeptSteps

(* Every step of the evaluators, of the backend and of a death preserves   *)
(* the invariant.                                                          *)
LEMMA EvaluationStep ==
    ASSUME EvaluationInv, [EvalNext]_evalVars
    PROVE  EvaluationInv'
<1>1. CASE UNCHANGED evalVars
  <2>1. UNCHANGED <<backend, leaf, rows, usedRun, usedRow, evals>>
    BY <1>1 DEF evalVars
  <2>2. Kept /\ Remembered
    BY <2>1 DEF Kept, Remembered
  <2>3. EvaluationTypes' /\ ValuesAreMeasured' /\ PlanIsFollowed'
    BY <2>1 DEF EvaluationInv, EvaluationTypes, ValuesAreMeasured, PlanIsFollowed, Complete
  <2>4. (\A c \in EvalCallers : evals'[c] = evals[c]) /\ \A n \in Series : rows'[n] = rows[n]
    BY <2>1
  <2>. QED
    BY <2>2, <2>3, <2>4, KeptSteps
<1>2. ASSUME NEW c \in EvalCallers, NEW x \in Entries, EvaluateEntry(c, x) \/ Resolve(c, x)
      PROVE  EvaluationInv'
  BY <1>2, EntryStep, ResolveStep
<1>3. ASSUME NEW c \in EvalCallers, Proceeds(c) PROVE EvaluationInv'
  BY <1>3, SubmitStep, ReturnStep, EndStep, BindStep, ResolveStep DEF Proceeds
<1>4. ASSUME NEW c \in EvalCallers, GivesUp(c) PROVE EvaluationInv'
  BY <1>4, EndStep
<1>5. CASE SomeRunCompletes
  BY <1>5, CompletesStep DEF SomeRunCompletes
<1>6. ASSUME NEW i \in 1..Size, RunFails(i) PROVE EvaluationInv'
  BY <1>6, FailsStep
<1>7. CASE EvaluatorDies
  BY <1>7, DiesStep
<1>. QED
  BY <1>1, <1>2, <1>3, <1>4, <1>5, <1>6, <1>7 DEF EvalNext

(* The inductive invariant: whatever lies behind a call stands, receipts   *)
(* stand on what they name, and remembered seconds are measured.           *)
THEOREM EvaluationInvariant == EvalSpec => []EvaluationInv
<1>1. EvaluationInv /\ [EvalNext]_evalVars => EvaluationInv'
  BY EvaluationStep
<1>. QED
  BY <1>1, EvaluationInvInit, PTL DEF EvalSpec

(* The sealed plan is executed in its order: hidden_evaluate() starts a run*)
(* only after every run before it has been measured, with the candidate    *)
(* that was planned for it, however many evaluators race and die.          *)
THEOREM EvaluationFollowsThePlan == EvalSpec => []PlanIsFollowed
<1>1. EvaluationInv => PlanIsFollowed
  BY DEF EvaluationInv
<1>. QED
  BY <1>1, EvaluationInvariant, PTL

(* used_seconds() of a series, of the composite and of the split is, once  *)
(* known, the sum of the seconds of its runs, each counted once.           *)
THEOREM UsedStaysMeasured == EvalSpec => []UsedIsMeasured
<1>1. EvaluationInv => UsedIsMeasured
  <2>. SUFFICES ASSUME EvaluationInv PROVE UsedIsMeasured
    OBVIOUS
  <2>1. \A i \in 1..Size : Seconds[i] = backend[i].value.seconds
    BY DEF Seconds
  <2>2. \A n \in Series : SeriesUsed(n, Seconds) = SeriesUsed(n, [i \in 1..Size |-> backend[i].value.seconds])
    BY DEF Seconds
  <2>. QED
    BY <2>1, <2>2 DEF EvaluationInv, UsedIsSound, UsedIsMeasured
<1>. QED
  BY <1>1, EvaluationInvariant, PTL

(* A receipt in any of the four databases stands on complete runs of the   *)
(* one candidate it names and on the receipts of its parts.                *)
THEOREM ReceiptsKeepStanding == EvalSpec => []ReceiptsStand
<1>1. EvaluationInv => ReceiptsStand
  <2>. SUFFICES ASSUME EvaluationInv, NEW n \in Series, rows[n] # NoRow
                PROVE  /\ \A i \in 1..LastOf(n) :
                             /\ backend[i].status = "complete"
                             /\ {leaf[i], backend[i].candidate} = {CandidateFor(RunSlots[i], rows[n].candidate)}
                       /\ n \in {"composite", "split"} =>
                             {rows[m].candidate : m \in {"quality", "performance", "composite"}} = {rows[n].candidate}
    BY DEF ReceiptsStand
  <2>1. ReceiptStands(n)
    BY DEF EvaluationInv
  <2>2. ASSUME NEW i \in 1..LastOf(n)
        PROVE  /\ backend[i].status = "complete"
               /\ {leaf[i], backend[i].candidate} = {CandidateFor(RunSlots[i], rows[n].candidate)}
    BY <2>1 DEF ReceiptStands, Standing, Complete
  <2>3. n \in {"composite", "split"} => \A m \in {"quality", "performance", "composite"} : rows[m].candidate = rows[n].candidate
    BY <2>1 DEF ReceiptStands
  <2>. QED
    BY <2>2, <2>3
<1>. QED
  BY <1>1, EvaluationInvariant, PTL
-----------------------------------------------------------------------------
(* The place of a slot is one at which it stands.                          *)
LEMMA PlaceIs ==
    /\ Place(Slot("correctness", "candidate", 1)) = 1
    /\ \A r \in 1..Rounds, role \in {"reference", "candidate"} :
          LET s == Slot("quality", role, r) IN Place(s) \in PlacesOf("quality") /\ RunSlots[Place(s)] = s
    /\ \A r \in 1..PerformanceRuns :
          LET s == Slot("performance", "candidate", r)
          IN  Place(s) \in PlacesOf("performance") /\ RunSlots[Place(s)] = s
<1>1. \A i \in 1..Size : i = 1 \/ i \in 2..Middle \/ i \in Middle + 1..Size
  BY RunSlotsAre
<1>2. PlacesOf("quality") = 2..Middle /\ PlacesOf("performance") = Middle + 1..Size /\ 2..Middle \subseteq 1..Size
      /\ Middle + 1..Size \subseteq 1..Size
  BY RunSlotsAre DEF PlacesOf, FirstOf, LastOf
<1>3. \A i \in 2..Middle : RunSlots[i].phase = "quality"
  BY RunSlotsAre DEF QualityRuns
<1>4. \A i \in Middle + 1..Size : RunSlots[i].phase = "performance"
  <2>. SUFFICES ASSUME NEW i \in Middle + 1..Size PROVE RunSlots[i].phase = "performance"
    OBVIOUS
  <2>1. RunSlots[i] = Slot("performance", "candidate", i - Middle)
    BY RunSlotsAre
  <2>. QED
    BY <2>1 DEF Slot
<1>5. RunSlots[1] = Slot("correctness", "candidate", 1) /\ 1 \in 1..Size
  BY RunSlotsAre
<1>6. Place(Slot("correctness", "candidate", 1)) = 1
  <2>. DEFINE P(i) == i \in 1..Size /\ RunSlots[i] = Slot("correctness", "candidate", 1)
  <2>1. P(1) /\ \A i : P(i) => i = 1
    <3>1. Slot("correctness", "candidate", 1).phase = "correctness"
      BY DEF Slot
    <3>. QED
      BY <1>1, <1>3, <1>4, <1>5, <3>1
  <2>. QED
    BY <2>1 DEF Place
<1>7. ASSUME NEW s, \E i \in 1..Size : RunSlots[i] = s
      PROVE  Place(s) \in 1..Size /\ RunSlots[Place(s)] = s
  BY <1>7 DEF Place
<1>8. ASSUME NEW r \in 1..Rounds, NEW role \in {"reference", "candidate"}
      PROVE  LET s == Slot("quality", role, r) IN Place(s) \in PlacesOf("quality") /\ RunSlots[Place(s)] = s
  <2>. DEFINE s == Slot("quality", role, r)
  <2>1. PICK j \in 1..Len(QualitySlots) : QualitySlots[j] = s
    BY QualitySlotsAre
  <2>2. Len(QualitySlots) \in Nat /\ Middle = 1 + Len(QualitySlots)
    BY QualitySlotsAre DEF Middle
  <2>3. j + 1 \in 2..Middle /\ RunSlots[j + 1] = s
    <3>. HIDE DEF s
    <3>1. j + 1 \in 2..Middle /\ (j + 1) - 1 = j
      BY <2>2
    <3>2. RunSlots[j + 1] = QualitySlots[(j + 1) - 1]
      BY <3>1, RunSlotsAre
    <3>. QED
      BY <2>1, <3>1, <3>2
  <2>4. s.phase = "quality" /\ RunSlots[1].phase = "correctness"
    BY <1>5 DEF Slot
  <2>. HIDE DEF s
  <2>5. Place(s) \in 1..Size /\ RunSlots[Place(s)] = s
    BY <1>2, <1>7, <2>3
  <2>6. Place(s) \in 2..Middle
    BY <1>1, <1>4, <2>4, <2>5
  <2>. QED
    BY <1>2, <2>5, <2>6 DEF s
<1>9. ASSUME NEW r \in 1..PerformanceRuns
      PROVE  LET s == Slot("performance", "candidate", r)
             IN  Place(s) \in PlacesOf("performance") /\ RunSlots[Place(s)] = s
  <2>. DEFINE s == Slot("performance", "candidate", r)
  <2>1. Middle + r \in Middle + 1..Size /\ RunSlots[Middle + r] = s
    <3>1. Middle + r \in Middle + 1..Size
      BY RunSlotsAre, EvaluationAssumption
    <3>2. RunSlots[Middle + r] = Slot("performance", "candidate", (Middle + r) - Middle) /\ (Middle + r) - Middle = r
      BY <3>1, RunSlotsAre
    <3>. QED
      BY <3>1, <3>2
  <2>2. s.phase = "performance" /\ RunSlots[1].phase = "correctness"
    BY <1>5 DEF Slot
  <2>. HIDE DEF s
  <2>3. Place(s) \in 1..Size /\ RunSlots[Place(s)] = s
    BY <1>2, <1>7, <2>1
  <2>4. Place(s) \in Middle + 1..Size
    BY <1>1, <1>3, <2>2, <2>3
  <2>. QED
    BY <1>2, <2>3, <2>4 DEF s
<1>. QED
  BY <1>6, <1>8, <1>9

(* The repetitions the contract reads from the plan are those of the series.*)
LEMMA RepetitionsAre ==
    Contract!Repetitions("quality") = 1..Rounds /\ Contract!Repetitions("performance") = 1..PerformanceRuns
<1>1. DOMAIN RunSlots = 1..Size
  BY RunSlotsAre
<1>2. \A i \in 1..Size : i = 1 \/ i \in 2..Middle \/ i \in Middle + 1..Size
  BY RunSlotsAre
<1>3. \A i \in 2..Middle : RunSlots[i].phase = "quality" /\ RunSlots[i].rep \in 1..Rounds
  BY RunSlotsAre DEF QualityRuns
<1>4. \A i \in Middle + 1..Size : RunSlots[i].phase = "performance" /\ RunSlots[i].rep \in 1..PerformanceRuns
  <2>. SUFFICES ASSUME NEW i \in Middle + 1..Size
                PROVE  RunSlots[i].phase = "performance" /\ RunSlots[i].rep \in 1..PerformanceRuns
    OBVIOUS
  <2>1. RunSlots[i] = Slot("performance", "candidate", i - Middle)
    BY RunSlotsAre
  <2>2. i - Middle \in 1..PerformanceRuns
    BY RunSlotsAre, EvaluationAssumption
  <2>. HIDE DEF Middle
  <2>. QED
    BY <2>1, <2>2 DEF Slot
<1>5. RunSlots[1].phase = "correctness"
  BY RunSlotsAre DEF Slot
<1>6. \A i \in 1..Size : RunSlots[i].phase = "quality" => RunSlots[i].rep \in 1..Rounds
  BY <1>2, <1>3, <1>4, <1>5
<1>7. \A i \in 1..Size : RunSlots[i].phase = "performance" => RunSlots[i].rep \in 1..PerformanceRuns
  BY <1>2, <1>3, <1>4, <1>5
<1>8. \A r \in 1..Rounds : \E i \in 1..Size : RunSlots[i].phase = "quality" /\ RunSlots[i].rep = r
  <2>. SUFFICES ASSUME NEW r \in 1..Rounds
                PROVE  \E i \in 1..Size : RunSlots[i].phase = "quality" /\ RunSlots[i].rep = r
    OBVIOUS
  <2>1. Place(Slot("quality", "reference", r)) \in 1..Size
        /\ RunSlots[Place(Slot("quality", "reference", r))] = Slot("quality", "reference", r)
    BY PlaceIs, RunSlotsAre DEF PlacesOf, FirstOf, LastOf
  <2>. QED
    BY <2>1 DEF Slot
<1>9. \A r \in 1..PerformanceRuns : \E i \in 1..Size : RunSlots[i].phase = "performance" /\ RunSlots[i].rep = r
  <2>. SUFFICES ASSUME NEW r \in 1..PerformanceRuns
                PROVE  \E i \in 1..Size : RunSlots[i].phase = "performance" /\ RunSlots[i].rep = r
    OBVIOUS
  <2>1. Place(Slot("performance", "candidate", r)) \in 1..Size
        /\ RunSlots[Place(Slot("performance", "candidate", r))] = Slot("performance", "candidate", r)
    BY PlaceIs, RunSlotsAre DEF PlacesOf, FirstOf, LastOf
  <2>. QED
    BY <2>1 DEF Slot
<1>10. Contract!Repetitions("quality") = 1..Rounds
  BY <1>1, <1>6, <1>8 DEF Contract!Repetitions
<1>11. Contract!Repetitions("performance") = 1..PerformanceRuns
  BY <1>1, <1>7, <1>9 DEF Contract!Repetitions
<1>. QED
  BY <1>10, <1>11

(* The measurement the contract takes for a role and a repetition is the one*)
(* at the place of its slot.                                               *)
LEMMA OfIs ==
    ASSUME NEW phase, NEW role, NEW r, Place(Slot(phase, role, r)) \in 1..Size
    PROVE  Contract!Of(phase, role, r) = backend[Place(Slot(phase, role, r))].value
BY RunSlotsAre DEF Contract!Of, Place, Slot

(* The contract and _combine() ask the same run for correctness.           *)
LEMMA CorrectIs == Contract!Correct = backend[1].value.eligible
<1>1. Contract!Of("correctness", "candidate", 1) = backend[1].value
  BY PlaceIs, OfIs, RunSlotsAre
<1>. QED
  BY <1>1 DEF Contract!Correct

(* A complete run of the quality series is an argument of the decision.    *)
LEMMA PassedIs ==
    ASSUME ValuesAreMeasured, \A i \in 1..Size : Complete(i),
           NEW r \in 1..Rounds, NEW role \in {"reference", "candidate"}
    PROVE  /\ backend[Place(Slot("quality", role, r))].value.passed
              \in UNION {{v.passed : v \in Measurements(s)} : s \in ToSet(QualitySlots)}
           /\ Contract!Of("quality", role, r) = backend[Place(Slot("quality", role, r))].value
<1>1. PICK p : p = Place(Slot("quality", role, r))
  OBVIOUS
<1>2. p \in 2..Middle /\ p \in 1..Size /\ RunSlots[p] = Slot("quality", role, r)
  BY <1>1, PlaceIs, RunSlotsAre DEF PlacesOf, FirstOf, LastOf
<1>3. backend[p].value \in Measurements(RunSlots[p])
  BY <1>2 DEF ValuesAreMeasured
<1>4. RunSlots[p] \in ToSet(QualitySlots)
  <2>1. RunSlots[p] = QualitySlots[p - 1] /\ Len(QualitySlots) \in Nat /\ Middle = 1 + Len(QualitySlots)
    BY <1>2, RunSlotsAre, QualitySlotsAre DEF Middle
  <2>2. p - 1 \in 1..Len(QualitySlots) /\ DOMAIN QualitySlots = 1..Len(QualitySlots)
    BY <1>2, <2>1, QualitySlotsAre
  <2>. QED
    BY <2>1, <2>2 DEF ToSet
<1>5. Contract!Of("quality", role, r) = backend[p].value
  BY <1>1, <1>2, OfIs
<1>. QED
  BY <1>1, <1>3, <1>4, <1>5

(* The decision over a complete series follows the paired quality rule.    *)
LEMMA DecisionIs ==
    ASSUME NEW f \in Passes, NEW g \in Passes
    PROVE  Decision[[reference |-> f, candidate |-> g]].eligible = QualityEligible(f, g)
BY DEF Decision

(* _result() of the quality series is what the contract accepts.           *)
LEMMA QualityIs ==
    ASSUME ValuesAreMeasured, \A i \in 1..Size : Complete(i)
    PROVE  Quality.eligible = Contract!NonInferior
<1>. DEFINE f == [r \in 1..Rounds |-> backend[Place(Slot("quality", "reference", r))].value.passed]
            g == [r \in 1..Rounds |-> backend[Place(Slot("quality", "candidate", r))].value.passed]
<1>1. f \in Passes /\ g \in Passes
  BY PassedIs DEF Passes
<1>2. Quality = Decision[[reference |-> f, candidate |-> g]]
  BY DEF Quality
<1>3. /\ [r \in 1..Rounds |-> Contract!Of("quality", "reference", r).passed] = f
      /\ [r \in 1..Rounds |-> Contract!Of("quality", "candidate", r).passed] = g
  BY PassedIs
<1>4. Contract!NonInferior = QualityEligible(f, g)
  <2>. HIDE DEF f, g
  <2>. QED
    BY <1>3, RepetitionsAre DEF Contract!NonInferior
<1>. HIDE DEF f, g
<1>5. Decision[[reference |-> f, candidate |-> g]].eligible = QualityEligible(f, g)
  BY <1>1, DecisionIs
<1>. QED
  BY <1>2, <1>4, <1>5

(* _result() of the performance series is the score the contract derives.  *)
LEMMA PerformanceIs ==
    /\ PerformanceResult.eligible = Contract!Performance.eligible
    /\ PerformanceResult.units = Contract!Performance.primary
<1>. DEFINE value(r) == backend[Place(Slot("performance", "candidate", r))].value
            f == [r \in 1..PerformanceRuns |-> [eligible |-> value(r).eligible, scalar |-> value(r).scalar]]
<1>1. \A r \in 1..PerformanceRuns : Contract!Of("performance", "candidate", r) = value(r)
  BY PlaceIs, OfIs, RunSlotsAre DEF PlacesOf, FirstOf, LastOf
<1>2. [r \in 1..PerformanceRuns |-> [eligible |-> Contract!Of("performance", "candidate", r).eligible,
                                     scalar   |-> Contract!Of("performance", "candidate", r).scalar]] = f
  <2>. HIDE DEF value
  <2>. QED
    BY <1>1
<1>3. Contract!Performance = Summary(f, StockScalars)
  <2>. HIDE DEF f
  <2>. QED
    BY <1>2, RepetitionsAre DEF Contract!Performance
<1>4. PerformanceResult = [eligible |-> Summary(f, StockScalars).eligible, units |-> Summary(f, StockScalars).primary]
  BY DEF PerformanceResult
<1>. HIDE DEF f
<1>. QED
  BY <1>3, <1>4

(* The contract adds up as the evaluators do.                              *)
LEMMA ContractTotal == \A n, f : Contract!Total(n, f) = Total(n, f)
BY DEF Contract!Total, Total

(* The seconds the contract counts are those of the composite.             *)
LEMMA UsedIs == Contract!Judgement.used = SeriesUsed("composite", Seconds)
<1>1. Size \in Nat /\ DOMAIN RunSlots = 1..Size /\ Len(RunSlots) = Size
  BY RunSlotsAre DEF Size
<1>2. FirstOf("composite") = 1 /\ CountOf("composite") = Size
  BY <1>1 DEF FirstOf, LastOf, CountOf
<1>3. [k \in 1..Size |-> Seconds[1 + k - 1]] = Seconds
  <2>1. \A k \in 1..Size : 1 + k - 1 = k
    BY <1>1
  <2>. QED
    BY <2>1 DEF Seconds
<1>4. SeriesUsed("composite", Seconds) = Total(Size, Seconds)
  <2>. HIDE DEF Seconds
  <2>. QED
    BY <1>2, <1>3 DEF SeriesUsed
<1>5. [i \in DOMAIN RunSlots |-> ([j \in 1..Size |-> backend[j].value])[i].seconds] = Seconds
  BY <1>1 DEF Seconds
<1>6. Contract!Judgement.used = Total(Len(RunSlots), [i \in DOMAIN RunSlots |-> ([j \in 1..Size |-> backend[j].value])[i].seconds])
  BY ContractTotal DEF Contract!Judgement
<1>. QED
  BY <1>1, <1>4, <1>5, <1>6

(* What resolves is the judgement that follows from the measurements.      *)
LEMMA JudgementIs ==
    ASSUME EvaluationInv, NEW x, Resolves(x)
    PROVE  Contract!Judgement = [eligible |-> rows["composite"].result.eligible,
                                 units    |-> rows["composite"].result.units,
                                 used     |-> SeriesUsed("composite", Seconds)]
<1>1. ValuesAreMeasured /\ \A i \in 1..Size : Complete(i)
  BY ResolvedStands DEF EvaluationInv
<1>2. /\ rows["quality"].result = Quality /\ rows["performance"].result = PerformanceResult
      /\ rows["composite"].result = Combine
  BY DEF Resolves, CompositeResolves, QualityResolves, PerformanceResolves, QualityRow, PerformanceRow, CompositeRow
<1>. DEFINE E == backend[1].value.eligible /\ Quality.eligible /\ PerformanceResult.eligible
            U == IF E THEN PerformanceResult.units ELSE 0
<1>3. Combine = [eligible |-> E, units |-> U]
  <2>1. (backend[1].value.eligible /\ \A r \in {Quality, PerformanceResult} : r.eligible) <=> E
    OBVIOUS
  <2>. QED
    BY <1>2, <2>1 DEF Combine
<1>4. (Contract!Correct /\ Contract!NonInferior /\ Contract!Performance.eligible) <=> E
  BY <1>1, CorrectIs, QualityIs, PerformanceIs
<1>5. Contract!Judgement = [eligible |-> E, units |-> U, used |-> Contract!Judgement.used]
  BY <1>4, PerformanceIs DEF Contract!Judgement
<1>. HIDE DEF E, U
<1>. QED
  BY <1>2, <1>3, <1>5, UsedIs

(* Whoever was told, was told the one verdict, on complete runs.           *)
ToldStands == told = {} \/ (told = {Contract!Judgement} /\ \A i \in 1..Size : Complete(i))

(* The judgement is a function of the measurements.                        *)
LEMMA SameJudgement ==
    ASSUME [i \in 1..Size |-> backend[i].value]' = [i \in 1..Size |-> backend[i].value]
    PROVE  Contract!Judgement' = Contract!Judgement
<1>1. \A phase, role, n : Contract!Of(phase, role, n)' = Contract!Of(phase, role, n)
  BY DEF Contract!Of
<1>2. Contract!Correct' = Contract!Correct
  BY <1>1 DEF Contract!Correct
<1>3. Contract!NonInferior' = Contract!NonInferior
  <2>1. \A r : Contract!Of("quality", "reference", r)' = Contract!Of("quality", "reference", r)
    BY <1>1
  <2>2. \A r : Contract!Of("quality", "candidate", r)' = Contract!Of("quality", "candidate", r)
    BY <1>1
  <2>. QED
    BY <2>1, <2>2 DEF Contract!NonInferior, Contract!Repetitions
<1>4. Contract!Performance' = Contract!Performance
  BY <1>1 DEF Contract!Performance, Contract!Repetitions
<1>5. Seconds' = Seconds
  BY DEF Seconds
<1>6. Contract!Judgement.used' = Contract!Judgement.used
  <2>1. (Contract!Judgement.used = SeriesUsed("composite", Seconds))'
    BY UsedIs, PTL
  <2>2. SeriesUsed("composite", Seconds)' = SeriesUsed("composite", Seconds')
    BY DEF SeriesUsed
  <2>. QED
    BY <1>5, <2>1, <2>2, UsedIs
<1>7. /\ Contract!Judgement.eligible' = Contract!Judgement.eligible
      /\ Contract!Judgement.units' = Contract!Judgement.units
  BY <1>2, <1>3, <1>4 DEF Contract!Judgement
<1>8. /\ Contract!Judgement = [eligible |-> Contract!Judgement.eligible, units |-> Contract!Judgement.units,
                               used |-> Contract!Judgement.used]
      /\ Contract!Judgement' = [eligible |-> Contract!Judgement.eligible', units |-> Contract!Judgement.units',
                                used |-> Contract!Judgement.used']
  BY DEF Contract!Judgement
<1>. QED
  BY <1>6, <1>7, <1>8

(* A step that measures and tells nothing is a stutter of the contract.    *)
LEMMA QuietStep ==
    ASSUME EvaluationInv, ToldStands, EvaluationInv', UNCHANGED told,
           \A i \in 1..Size : backend'[i].value = backend[i].value /\ (Complete(i) => Complete(i)')
    PROVE  ToldStands' /\ [Contract!Next]_(Contract!vars)
<1>1. [i \in 1..Size |-> backend[i].value]' = [i \in 1..Size |-> backend[i].value]
  OBVIOUS
<1>2. Contract!Judgement' = Contract!Judgement
  BY <1>1, SameJudgement
<1>3. ToldStands'
  BY <1>2 DEF ToldStands
<1>. QED
  BY <1>1, <1>3 DEF Contract!vars

(* A completed execution is one measurement of the contract.               *)
LEMMA CompletesContract ==
    ASSUME EvaluationInv, ToldStands, NEW i \in 1..Size, NEW v \in Measurements(RunSlots[i]), Completes(i, v)
    PROVE  ToldStands' /\ [Contract!Next]_(Contract!vars)
<1>1. DOMAIN RunSlots = 1..Size
  BY RunSlotsAre
<1>2. ~ Complete(i) /\ backend[i].value = NoValue /\ told = {} /\ told' = {}
  BY DEF Completes, EvaluationInv, ValuesAreMeasured, Complete, ToldStands
<1>3. [j \in 1..Size |-> backend[j].value]' = [[j \in 1..Size |-> backend[j].value] EXCEPT ![i] = v]
  BY DEF Completes, EvaluationInv, EvaluationTypes, Executions
<1>4. Contract!Measure(i)
  BY <1>2, <1>3 DEF Contract!Measure
<1>5. Contract!Next
  BY <1>1, <1>4 DEF Contract!Next
<1>. QED
  BY <1>2, <1>5 DEF ToldStands

(* The first resolve() tells the judgement, every later one tells it again.*)
LEMMA ResolveContract ==
    ASSUME EvaluationInv, ToldStands, NEW c \in EvalCallers, NEW x, Resolve(c, x)
    PROVE  ToldStands' /\ [Contract!Next]_(Contract!vars)
<1>. DEFINE row == [n \in {"quality", "performance"} |-> SeriesUsed(n, Seconds)]
            all == CompositeUsed(Seconds[1], row)
<1>1. /\ Resolves(x) /\ UNCHANGED backend
      /\ told' = told \cup {[eligible |-> rows["composite"].result.eligible,
                             units    |-> rows["composite"].result.units,
                             used     |-> all]}
  BY DEF Resolve, Seconds
<1>2. \A i \in 1..Size : Complete(i)
  BY <1>1, ResolvedStands
<1>3. all = SeriesUsed("composite", Seconds)
  <2>1. Seconds \in [1..Size -> Int]
    BY SecondsAreInts DEF Seconds
  <2>. QED
    BY <2>1, UsedByPhases DEF CompositeUsed
<1>. HIDE DEF row, all
<1>4. told' = told \cup {Contract!Judgement}
  BY <1>1, <1>3, JudgementIs
<1>5. told' = {Contract!Judgement}
  BY <1>4 DEF ToldStands
<1>6. [j \in 1..Size |-> backend[j].value]' = [j \in 1..Size |-> backend[j].value]
  BY <1>1
<1>7. Contract!Judgement' = Contract!Judgement
  BY <1>6, SameJudgement
<1>8. ToldStands'
  BY <1>1, <1>2, <1>5, <1>7 DEF ToldStands, Complete
<1>9. CASE told = {}
  <2>1. \A i \in DOMAIN RunSlots : [j \in 1..Size |-> backend[j].value][i] # NoValue
    <3>1. DOMAIN RunSlots = 1..Size
      BY RunSlotsAre
    <3>2. \A i \in 1..Size : backend[i].value # NoValue
      BY <1>2, MeasurementAssumption DEF EvaluationInv, ValuesAreMeasured
    <3>. QED
      BY <3>1, <3>2
  <2>2. Contract!Tell
    BY <1>5, <1>6, <1>9, <2>1 DEF Contract!Tell
  <2>. QED
    BY <1>8, <2>2 DEF Contract!Next
<1>10. CASE told # {}
  <2>1. told' = told
    BY <1>5, <1>10 DEF ToldStands
  <2>. QED
    BY <1>6, <1>8, <2>1 DEF Contract!vars
<1>. QED
  BY <1>9, <1>10

(* Submitting and failing leave the measurements as they are.              *)
LEMMA OthersKeepValues ==
    ASSUME EvaluationInv,
           \/ UNCHANGED backend
           \/ \E c \in EvalCallers : SubmitSlot(c)
           \/ \E i \in 1..Size : RunFails(i)
    PROVE  \A i \in 1..Size : backend'[i].value = backend[i].value /\ (Complete(i) => Complete(i)')
<1>1. CASE UNCHANGED backend
  BY <1>1 DEF Complete
<1>2. ASSUME NEW c \in EvalCallers, SubmitSlot(c)
      PROVE  \A i \in 1..Size : backend'[i].value = backend[i].value /\ (Complete(i) => Complete(i)')
  <2>1. PICK k : /\ backend[k].status = "none"
                 /\ backend' = [backend EXCEPT ![k].status = "running", ![k].candidate = Wants(c)]
    BY <1>2 DEF SubmitSlot
  <2>. QED
    BY <2>1 DEF Complete, EvaluationInv, EvaluationTypes, Executions
<1>3. ASSUME NEW k \in 1..Size, RunFails(k)
      PROVE  \A i \in 1..Size : backend'[i].value = backend[i].value /\ (Complete(i) => Complete(i)')
  BY <1>3 DEF RunFails, Complete, EvaluationInv, EvaluationTypes, Executions
<1>. QED
  BY <1>1, <1>2, <1>3

(* Every step of the evaluators maps to a step of the contract or a stutter.*)
LEMMA ContractStep ==
    ASSUME EvaluationInv, ToldStands, EvaluationInv', [EvalNext]_evalVars
    PROVE  ToldStands' /\ [Contract!Next]_(Contract!vars)
<1>1. CASE \E c \in EvalCallers : \E x : Resolve(c, x)
  BY <1>1, ResolveContract
<1>2. CASE SomeRunCompletes
  BY <1>2, CompletesContract DEF SomeRunCompletes
<1>3. CASE /\ UNCHANGED told
           /\ UNCHANGED backend \/ (\E c \in EvalCallers : SubmitSlot(c)) \/ (\E i \in 1..Size : RunFails(i))
  BY <1>3, OthersKeepValues, QuietStep
<1>4. ASSUME NEW c \in EvalCallers, NEW x, EvaluateEntry(c, x)
      PROVE  UNCHANGED <<told, backend>>
  BY <1>4 DEF EvaluateEntry
<1>5. ASSUME NEW c \in EvalCallers, RunReturns(c) \/ QualityReturns(c) \/ RunRaises(c) \/ GivesUp(c)
      PROVE  UNCHANGED <<told, backend>>
  BY <1>5 DEF RunReturns, QualityReturns, BindsRun, RunRaises, GivesUp
<1>6. ASSUME NEW c \in EvalCallers, BindQuality(c) \/ BindPerformance(c) \/ BindComposite(c) \/ BindSplit(c)
      PROVE  UNCHANGED <<told, backend>>
  BY <1>6 DEF BindQuality, BindPerformance, BindComposite, BindSplit, Inserts
<1>7. ASSUME NEW c \in EvalCallers, SubmitSlot(c) PROVE UNCHANGED told
  BY <1>7 DEF SubmitSlot
<1>8. ASSUME NEW i \in 1..Size, RunFails(i) PROVE UNCHANGED told
  BY <1>8 DEF RunFails
<1>9. CASE EvaluatorDies \/ UNCHANGED evalVars
  BY <1>3, <1>9 DEF EvaluatorDies, evalVars
<1>. QED
  BY <1>1, <1>2, <1>3, <1>4, <1>5, <1>6, <1>7, <1>8, <1>9 DEF EvalNext, Proceeds

(* Nothing is measured and nothing told in the beginning.                  *)
LEMMA ContractInit == EvalInit => ToldStands /\ Contract!Init
<1>1. DOMAIN RunSlots = 1..Size
  BY RunSlotsAre
<1>2. EvalInit => [i \in 1..Size |-> backend[i].value] = [i \in 1..Size |-> NoValue]
  BY DEF EvalInit
<1>. QED
  BY <1>1, <1>2 DEF EvalInit, ToldStands, Contract!Init

(* The evaluators, their four databases, their retries, races and deaths   *)
(* implement one verdict: each run is measured once, and whoever resolves, *)
(* whenever, is told what follows from all measurements, each taken for its*)
(* role and repetition, with the seconds they took.                        *)
THEOREM EvaluationImplementsVerdict == EvalSpec => ImplementsEvaluation
<1>1. EvaluationInv /\ ToldStands /\ EvaluationInv' /\ [EvalNext]_evalVars
         => ToldStands' /\ [Contract!Next]_(Contract!vars)
  BY ContractStep
<1>. QED
  BY <1>1, ContractInit, EvaluationInvariant, PTL DEF EvalSpec, ImplementsEvaluation, Contract!Spec

-----------------------------------------------------------------------------
(* Scores.                                                                 *)

(* Division with a positive divisor, as both // and % of Python round.     *)
LEMMA Division ==
    ASSUME NEW n \in Int, NEW d \in Nat \ {0}
    PROVE  /\ n \div d \in Int /\ n % d \in 0..(d - 1)
           /\ n = d * (n \div d) + (n % d)
  OBVIOUS

(* A product grows with a factor, strictly where the other is positive.    *)
LEMMA Scaled ==
    ASSUME NEW a \in Int, NEW b \in Int, NEW d \in Nat, a <= b
    PROVE  d * a <= d * b /\ a * d <= b * d
  OBVIOUS

(* And a smaller product has a smaller factor.                             *)
LEMMA ScaledBack ==
    ASSUME NEW a \in Int, NEW b \in Int, NEW d \in Nat, d * a < d * b
    PROVE  a < b
<1>1. SUFFICES ASSUME b <= a PROVE FALSE
  OBVIOUS
<1>2. d * b <= d * a
  BY <1>1, Scaled
<1>. QED
  BY <1>2

(* Rounding moves a quotient by half at most.                              *)
LEMMA RoundedBounds ==
    ASSUME NEW n \in Int, NEW d \in Nat \ {0}
    PROVE  /\ Rounded(n, d) \in Int
           /\ 2 * (d * Rounded(n, d)) <= 2 * n + d
           /\ 2 * n - d <= 2 * (d * Rounded(n, d))
<1>. DEFINE q == n \div d
            r == n % d
<1>1. q \in Int /\ r \in 0..(d - 1) /\ n = d * q + r
  BY Division
<1>2. Rounded(n, d) = IF 2 * r > d \/ (2 * r = d /\ q % 2 = 1) THEN q + 1 ELSE q
  BY DEF Rounded
<1>. HIDE DEF q, r
<1>3. CASE Rounded(n, d) = q + 1 /\ 2 * r >= d
  <2>1. d * (q + 1) = d * q + d
    BY <1>1
  <2>. QED
    BY <1>1, <1>3, <2>1
<1>4. CASE Rounded(n, d) = q /\ 2 * r <= d
  BY <1>1, <1>4
<1>. QED
  BY <1>1, <1>2, <1>3, <1>4

(* It keeps the order.                                                     *)
LEMMA RoundedMonotone ==
    ASSUME NEW n \in Int, NEW m \in Int, n <= m, NEW d \in Nat \ {0}
    PROVE  Rounded(n, d) <= Rounded(m, d)
<1>. DEFINE a == Rounded(n, d)
            b == Rounded(m, d)
<1>1. /\ a \in Int /\ 2 * (d * a) <= 2 * n + d
      /\ b \in Int /\ 2 * m - d <= 2 * (d * b)
  BY RoundedBounds
<1>2. SUFFICES ASSUME b < a PROVE FALSE
  BY <1>1
<1>3. n # m
  BY <1>1, <1>2
<1>. HIDE DEF a, b
<1>4. d * (b + 1) <= d * a /\ d * (b + 1) = d * b + d
  BY <1>1, <1>2, Scaled
<1>. QED
  BY <1>1, <1>3, <1>4

(* A whole quotient is not moved.                                          *)
LEMMA RoundedWhole ==
    ASSUME NEW k \in Int, NEW d \in Nat \ {0}
    PROVE  Rounded(k * d, d) = k
<1>. DEFINE a == Rounded(k * d, d)
<1>1. k * d \in Int
  OBVIOUS
<1>2. a \in Int /\ 2 * (d * a) <= 2 * (k * d) + d /\ 2 * (k * d) - d <= 2 * (d * a)
  BY <1>1, RoundedBounds
<1>. HIDE DEF a
<1>3. ~ a >= k + 1
  <2>1. SUFFICES ASSUME a >= k + 1 PROVE FALSE
    OBVIOUS
  <2>2. d * (k + 1) <= d * a /\ d * (k + 1) = k * d + d
    BY <1>2, <2>1, Scaled
  <2>. QED
    BY <1>1, <1>2, <2>2
<1>4. ~ a <= k - 1
  <2>1. SUFFICES ASSUME a <= k - 1 PROVE FALSE
    OBVIOUS
  <2>2. d * a <= d * (k - 1) /\ d * (k - 1) = k * d - d
    BY <1>2, <2>1, Scaled
  <2>. QED
    BY <1>1, <1>2, <2>2
<1>. QED
  BY <1>2, <1>3, <1>4 DEF a

(* A natural quotient rounds to a natural.                                 *)
LEMMA RoundedNat ==
    ASSUME NEW n \in Nat, NEW d \in Nat \ {0}
    PROVE  Rounded(n, d) \in Nat
<1>1. Rounded(0 * d, d) = 0 /\ 0 * d = 0
  BY RoundedWhole
<1>2. Rounded(0, d) <= Rounded(n, d) /\ Rounded(n, d) \in Int
  BY RoundedMonotone, RoundedBounds
<1>. QED
  BY <1>1, <1>2

(* What a ratio in millionths says of the two numbers.                     *)
LEMMA RatioFacts ==
    ASSUME NEW n \in Int, NEW d \in Nat \ {0}
    PROVE  /\ Ratio(n, d) \in Int
           /\ n >= 0 => Ratio(n, d) >= 0
           /\ \A m \in Int : n <= m => Ratio(n, d) <= Ratio(m, d)
           /\ \A a \in Int : Ratio(n, d) >= a => (2 * a - 1) * d <= 2 * n * Ppm
           /\ Ratio(d, d) = Ppm
<1>0. Ppm \in Nat \ {0}
  BY ScoringAssumption
<1>. DEFINE R == Rounded(n * Ppm, d)
<1>1. n * Ppm \in Int
  BY <1>0
<1>2. R \in Int /\ 2 * (d * R) <= 2 * (n * Ppm) + d
  BY <1>1, RoundedBounds
<1>3. n >= 0 => R >= 0
  <2>1. SUFFICES ASSUME n >= 0 PROVE R >= 0
    OBVIOUS
  <2>2. n * Ppm \in Nat
    BY <1>0, <2>1
  <2>. QED
    BY <2>2, RoundedNat
<1>4. ASSUME NEW m \in Int, n <= m PROVE R <= Rounded(m * Ppm, d)
  <2>1. m * Ppm \in Int /\ n * Ppm <= m * Ppm
    BY <1>0, <1>4, Scaled
  <2>. QED
    BY <1>1, <2>1, RoundedMonotone
<1>5. ASSUME NEW a \in Int, R >= a PROVE (2 * a - 1) * d <= 2 * n * Ppm
  <2>. HIDE DEF R
  <2>1. d * a <= d * R
    BY <1>2, <1>5, Scaled
  <2>2. (2 * a - 1) * d = 2 * (d * a) - d /\ 2 * n * Ppm = 2 * (n * Ppm)
    BY <1>0
  <2>3. d * a \in Int /\ d * R \in Int
    BY <1>2
  <2>. QED
    BY <1>1, <1>2, <2>1, <2>2, <2>3
<1>6. Rounded(d * Ppm, d) = Ppm
  <2>1. d * Ppm = Ppm * d
    BY <1>0
  <2>. QED
    BY <1>0, <2>1, RoundedWhole
<1>. QED
  BY <1>2, <1>3, <1>4, <1>5, <1>6 DEF Ratio

-----------------------------------------------------------------------------
(* An integer function on a nonempty finite set has a largest value.       *)
LEMMA Largest ==
    ASSUME NEW J, IsFiniteSet(J), J # {}, NEW f \in [J -> Int]
    PROVE  \E j \in J : \A i \in J : f[i] <= f[j]
<1>. DEFINE Above(j) == {i \in J : f[i] > f[j]}
            T == {Cardinality(Above(j)) : j \in J}
<1>1. \A j \in J : IsFiniteSet(Above(j)) /\ Cardinality(Above(j)) \in Nat
  BY FS_Subset, FS_CardinalityType
<1>2. PICK c \in T : \A d \in T : c <= d
  <2>1. T \subseteq Nat /\ T # {}
    BY <1>1
  <2>. HIDE DEF T
  <2>. QED
    BY <2>1, LeastNatural
<1>3. PICK j \in J : c = Cardinality(Above(j))
  OBVIOUS
<1>4. ASSUME NEW i \in J, f[i] > f[j] PROVE FALSE
  <2>1. Above(i) \subseteq Above(j) /\ i \in Above(j) /\ i \notin Above(i)
    BY <1>4
  <2>2. Cardinality(Above(i)) <= Cardinality(Above(j))
        /\ Cardinality(Above(i)) # Cardinality(Above(j))
    <3>. HIDE DEF Above
    <3>. QED
      BY <1>1, <2>1, FS_Subset
  <2>3. Cardinality(Above(i)) \in T
    OBVIOUS
  <2>. HIDE DEF T, Above
  <2>. QED
    BY <1>1, <1>2, <1>3, <2>2, <2>3
<1>. QED
  BY <1>4

(* So a nonempty finite family has a maximum.                              *)
LEMMA MaxOver ==
    ASSUME NEW J, IsFiniteSet(J), J # {}, NEW f \in [J -> Int],
           NEW S, S = {f[j] : j \in J}
    PROVE  Max(S) \in S /\ \A x \in S : x <= Max(S)
<1>1. PICK j \in J : \A i \in J : f[i] <= f[j]
  BY Largest
<1>2. f[j] \in S /\ \A x \in S : f[j] >= x
  BY <1>1
<1>3. PICK m : m = Max(S)
  OBVIOUS
<1>4. m \in S /\ \A x \in S : m >= x
  BY <1>2, <1>3 DEF Max
<1>5. S \subseteq Int
  OBVIOUS
<1>. QED
  BY <1>3, <1>4, <1>5

(* And a minimum.                                                          *)
LEMMA MinOver ==
    ASSUME NEW J, IsFiniteSet(J), J # {}, NEW f \in [J -> Int],
           NEW S, S = {f[j] : j \in J}
    PROVE  Min(S) \in S /\ \A x \in S : Min(S) <= x
<1>. DEFINE g == [j \in J |-> -f[j]]
<1>0. g \in [J -> Int]
  OBVIOUS
<1>1. PICK j \in J : \A i \in J : g[i] <= g[j]
  <2>. HIDE DEF g
  <2>. QED
    BY <1>0, Largest
<1>2. f[j] \in S /\ \A x \in S : f[j] <= x
  BY <1>1
<1>3. PICK m : m = Min(S)
  OBVIOUS
<1>4. m \in S /\ \A x \in S : m =< x
  BY <1>2, <1>3 DEF Min
<1>. QED
  BY <1>3, <1>4

(* The indices of the values below v, and of those that are not above it.  *)
Lesser(s, v)    == {i \in DOMAIN s : s[i] < v}
NoGreater(s, v) == {i \in DOMAIN s : s[i] <= v}

(* There are finitely many of either.                                      *)
LEMMA PlacesCounted ==
    ASSUME NEW n \in Nat, NEW s \in [1..n -> Int], NEW v
    PROVE  /\ Lesser(s, v) \subseteq 1..n /\ NoGreater(s, v) \subseteq 1..n
           /\ IsFiniteSet(Lesser(s, v)) /\ IsFiniteSet(NoGreater(s, v))
           /\ Cardinality(Lesser(s, v)) \in Nat /\ Cardinality(NoGreater(s, v)) \in Nat
<1>1. Lesser(s, v) \subseteq 1..n /\ NoGreater(s, v) \subseteq 1..n
  BY DEF Lesser, NoGreater
<1>2. IsFiniteSet(1..n)
  BY FS_Interval
<1>. QED
  BY <1>1, <1>2, FS_Subset, FS_CardinalityType

(* What sorted() puts at place k of n integers.                            *)
LEMMA AtPlace ==
    ASSUME NEW n \in Nat, NEW s \in [1..n -> Int], NEW k \in 1..n,
           NEW v, v = Ascending(s)[k]
    PROVE  /\ \E i \in 1..n : v = s[i]
           /\ Cardinality(Lesser(s, v)) < k
           /\ Cardinality(NoGreater(s, v)) >= k
<1>. DEFINE J == {i \in 1..n : Cardinality(NoGreater(s, s[i])) >= k}
<1>1. IsFiniteSet(1..n) /\ Cardinality(1..n) = n
  BY FS_Interval
<1>3. J # {} /\ IsFiniteSet(J)
  <2>1. PICK j \in 1..n : \A i \in 1..n : s[i] <= s[j]
    <3>1. 1..n # {}
      OBVIOUS
    <3>. QED
      BY <1>1, <3>1, Largest
  <2>2. NoGreater(s, s[j]) = 1..n
    BY <2>1 DEF NoGreater
  <2>3. j \in J
    BY <1>1, <2>2
  <2>. QED
    BY <1>1, <2>3, FS_Subset
<1>4. PICK j \in J : \A i \in J : s[j] <= s[i]
  <2>. DEFINE g == [i \in J |-> -s[i]]
  <2>1. g \in [J -> Int]
    OBVIOUS
  <2>2. PICK j \in J : \A i \in J : g[i] <= g[j]
    <3>. HIDE DEF g, J
    <3>. QED
      BY <1>3, <2>1, Largest
  <2>3. \A i \in J : s[j] <= s[i]
    <3>1. TAKE i \in J
    <3>2. g[i] <= g[j] /\ g[i] = -s[i] /\ g[j] = -s[j]
      BY <2>2
    <3>3. s[i] \in Int /\ s[j] \in Int
      OBVIOUS
    <3>. HIDE DEF g
    <3>. QED
      BY <3>2, <3>3
  <2>. HIDE DEF J
  <2>. QED
    BY <2>3
<1>5. Cardinality(Lesser(s, s[j])) < k
  <2>. DEFINE B == Lesser(s, s[j])
  <2>1. SUFFICES ASSUME Cardinality(B) >= k PROVE FALSE
    BY PlacesCounted
  <2>2. IsFiniteSet(B) /\ Cardinality(B) \in Nat /\ B \subseteq 1..n
    BY PlacesCounted
  <2>3. B # {}
    <3>. HIDE DEF B
    <3>. QED
      BY <2>1, <2>2, FS_EmptySet
  <2>4. PICK m \in B : \A i \in B : s[i] <= s[m]
    <3>. DEFINE h == [i \in B |-> s[i]]
    <3>1. h \in [B -> Int]
      BY <2>2
    <3>2. PICK m \in B : \A i \in B : h[i] <= h[m]
      <4>. HIDE DEF h, B
      <4>. QED
        BY <2>2, <2>3, <3>1, Largest
    <3>3. \A i \in B : h[i] = s[i]
      OBVIOUS
    <3>. HIDE DEF h, B
    <3>. QED
      BY <3>2, <3>3
  <2>5. B \subseteq NoGreater(s, s[m]) /\ m \in 1..n /\ s[m] < s[j]
    BY <2>4 DEF Lesser, NoGreater
  <2>. HIDE DEF B
  <2>6. Cardinality(NoGreater(s, s[m])) >= Cardinality(B) /\ Cardinality(NoGreater(s, s[m])) \in Nat
    BY <2>2, <2>5, FS_Subset, PlacesCounted
  <2>7. Cardinality(NoGreater(s, s[m])) >= k
    BY <2>1, <2>2, <2>6
  <2>8. m \in J
    BY <2>5, <2>7
  <2>9. s[m] \in Int /\ s[j] \in Int
    BY <2>5
  <2>. HIDE DEF J
  <2>. QED
    BY <1>4, <2>5, <2>8, <2>9
<1>. DEFINE Fits(u) == Cardinality(Lesser(s, u)) < k /\ Cardinality(NoGreater(s, u)) >= k
<1>6. s[j] \in ToSet(s) /\ Fits(s[j])
  <2>1. DOMAIN s = 1..n /\ j \in 1..n /\ Cardinality(NoGreater(s, s[j])) >= k
    OBVIOUS
  <2>. QED
    BY <1>5, <2>1 DEF ToSet
<1>7. v = CHOOSE u \in ToSet(s) : Fits(u)
  BY DEF Ascending, Lesser, NoGreater
<1>9. v \in ToSet(s) /\ Fits(v)
  <2>. HIDE DEF Fits
  <2>. QED
    BY <1>6, <1>7
<1>. QED
  BY <1>9 DEF ToSet

(* What is larger at every index is larger at every place.                 *)
LEMMA PlacesKeepOrder ==
    ASSUME NEW n \in Nat, NEW s \in [1..n -> Int], NEW t \in [1..n -> Int], NEW k \in 1..n,
           \A i \in 1..n : s[i] <= t[i]
    PROVE  Ascending(s)[k] <= Ascending(t)[k]
<1>0. PICK a, b : a = Ascending(s)[k] /\ b = Ascending(t)[k]
  OBVIOUS
<1>1. a \in Int /\ Cardinality(Lesser(s, a)) < k
  BY <1>0, AtPlace
<1>2. b \in Int /\ Cardinality(NoGreater(t, b)) >= k
  BY <1>0, AtPlace
<1>3. SUFFICES ASSUME b < a PROVE FALSE
  BY <1>0, <1>1, <1>2
<1>4. NoGreater(t, b) \subseteq Lesser(s, a)
  BY <1>1, <1>2, <1>3 DEF NoGreater, Lesser
<1>6. /\ Cardinality(NoGreater(t, b)) <= Cardinality(Lesser(s, a))
      /\ Cardinality(Lesser(s, a)) \in Nat /\ Cardinality(NoGreater(t, b)) \in Nat
  BY <1>4, PlacesCounted, FS_Subset
<1>. QED
  BY <1>1, <1>2, <1>6

-----------------------------------------------------------------------------
(* The sum of n times the same number.                                     *)
LEMMA TotalConstant ==
    ASSUME NEW n \in Nat, NEW c \in Int, NEW f \in [1..n -> Int], \A i \in 1..n : f[i] = c
    PROVE  Total(n, f) = c * n
<1>. DEFINE r == [i \in 0..n |-> c * i]
<1>1. r \in [0..n -> Int] /\ r[0] = 0 /\ r[n] = c * n
  OBVIOUS
<1>2. ASSUME NEW i \in 1..n PROVE r[i] = r[i - 1] + f[i]
  <2>1. i - 1 \in 0..n /\ i \in 0..n /\ c * i = c * (i - 1) + c
    OBVIOUS
  <2>. QED
    BY <2>1
<1>. HIDE DEF r
<1>3. Total(n, f) = r[n]
  BY <1>1, <1>2, TotalFromRunning
<1>. QED
  BY <1>1, <1>3

(* The mean of naturals.                                                   *)
LEMMA MeanFacts ==
    ASSUME NEW n \in Nat \ {0}, NEW s \in [1..n -> Nat]
    PROVE  /\ Mean(s) \in Nat
           /\ \A t \in [1..n -> Nat] : (\A i \in 1..n : s[i] <= t[i]) => Mean(s) <= Mean(t)
           /\ \A c \in Nat : (\A i \in 1..n : s[i] = c) => Mean(s) = c
<1>1. \A t \in [1..n -> Nat] : Mean(t) = Rounded(Total(n, t), n)
  <2>1. TAKE t \in [1..n -> Nat]
  <2>2. Len(t) = n
    OBVIOUS
  <2>. QED
    BY <2>2 DEF Mean
<1>2. Total(n, s) \in Nat
  BY TotalNat
<1>3. Mean(s) \in Nat
  BY <1>1, <1>2, RoundedNat
<1>4. ASSUME NEW t \in [1..n -> Nat], \A i \in 1..n : s[i] <= t[i] PROVE Mean(s) <= Mean(t)
  <2>1. s \in [1..n -> Int] /\ t \in [1..n -> Int]
    OBVIOUS
  <2>2. Total(n, s) <= Total(n, t)
    BY <1>4, <2>1, TotalMonotone
  <2>3. Total(n, t) \in Nat
    BY TotalNat
  <2>. QED
    BY <1>1, <1>2, <2>2, <2>3, RoundedMonotone
<1>5. ASSUME NEW c \in Nat, \A i \in 1..n : s[i] = c PROVE Mean(s) = c
  <2>1. c \in Int /\ s \in [1..n -> Int]
    OBVIOUS
  <2>2. Total(n, s) = c * n
    BY <1>5, <2>1, TotalConstant
  <2>3. Mean(s) = Rounded(c * n, n)
    BY <1>1, <2>2
  <2>. QED
    BY <2>1, <2>3, RoundedWhole
<1>. QED
  BY <1>3, <1>4, <1>5

(* What the lower bound of a bootstrap takes from its samples.             *)
LEMMA LowerBoundFacts ==
    ASSUME NEW s \in [1..Len(Draws) -> Int]
    PROVE  /\ \E d \in 1..Len(Draws) : LowerBound(s) = s[d]
           /\ \A t \in [1..Len(Draws) -> Int] :
                 (\A d \in 1..Len(Draws) : s[d] <= t[d]) => LowerBound(s) <= LowerBound(t)
<1>1. Len(Draws) \in Nat /\ TailIndex + 1 \in 1..Len(Draws)
  BY ScoringAssumption
<1>2. \E d \in 1..Len(Draws) : Ascending(s)[TailIndex + 1] = s[d]
  BY <1>1, AtPlace
<1>3. ASSUME NEW t \in [1..Len(Draws) -> Int], \A d \in 1..Len(Draws) : s[d] <= t[d]
     PROVE  Ascending(s)[TailIndex + 1] <= Ascending(t)[TailIndex + 1]
  BY <1>1, <1>3, PlacesKeepOrder
<1>. QED
  BY <1>2, <1>3 DEF LowerBound

-----------------------------------------------------------------------------
(* Everything one run of quality cases passed, another passed too.         *)
PassesAll(runs, others) == \A r \in 1..Rounds : runs[r] \subseteq others[r]

(* What the policy is loaded with, in the form the lemmas below use.       *)
LEMMA ScoringFacts ==
    /\ Ppm \in Nat \ {0} /\ Rounds \in Nat \ {0} /\ AggregateMargin \in Nat /\ FamilyMargin \in Nat
    /\ Len(CasesOf) \in Nat \ {0} /\ Len(Draws) \in Nat \ {0}
    /\ \A f \in Families : Len(CasesOf[f]) \in Nat \ {0} /\ Observations(f) \in Nat \ {0}
    /\ AllObservations \in Nat \ {0}
<1>1. /\ Ppm \in Nat \ {0} /\ Rounds \in Nat \ {0} /\ AggregateMargin \in Nat /\ FamilyMargin \in Nat
      /\ Len(CasesOf) \in Nat \ {0} /\ Len(Draws) \in Nat \ {0}
  BY ScoringAssumption
<1>2. ASSUME NEW f \in Families PROVE Len(CasesOf[f]) \in Nat \ {0} /\ Observations(f) \in Nat \ {0}
  <2>1. Len(CasesOf[f]) \in Nat \ {0}
    BY ScoringAssumption
  <2>. QED
    BY <1>1, <2>1 DEF Observations
<1>3. AllObservations \in Nat \ {0}
  <2>. DEFINE o == [f \in Families |-> Observations(f)]
  <2>1. o \in [1..Len(CasesOf) -> Nat] /\ 1 \in 1..Len(CasesOf) /\ o[1] # 0
    BY <1>1, <1>2 DEF Families
  <2>. HIDE DEF o
  <2>2. Total(Len(CasesOf), o) \in Nat /\ o[1] <= Total(Len(CasesOf), o)
    BY <1>1, <2>1, TotalNat, TotalCoversAddend
  <2>3. AllObservations = Total(Len(CasesOf), o)
    BY DEF AllObservations, o
  <2>4. o[1] \in Nat
    BY <2>1
  <2>. QED
    BY <2>1, <2>2, <2>3, <2>4
<1>. QED
  BY <1>1, <1>2, <1>3

(* A run gains nothing over itself, and more over it when it passes more.  *)
LEMMA GainFacts ==
    ASSUME NEW refs, NEW cands, NEW c
    PROVE  /\ Gain(refs, cands, c) \in Int
           /\ Gain(refs, refs, c) = 0
           /\ \A more : PassesAll(cands, more) => Gain(refs, cands, c) <= Gain(refs, more, c)
<1>. DEFINE g(runs) == [r \in 1..Rounds |-> (IF c \in runs[r] THEN 1 ELSE 0)
                                            - (IF c \in refs[r] THEN 1 ELSE 0)]
<1>1. Rounds \in Nat
  BY ScoringFacts
<1>2. \A runs : g(runs) \in [1..Rounds -> Int]
  OBVIOUS
<1>3. g(refs) = [r \in 1..Rounds |-> 0]
  OBVIOUS
<1>4. \A more : PassesAll(cands, more) => \A r \in 1..Rounds : g(cands)[r] <= g(more)[r]
  <2>1. TAKE more
  <2>2. SUFFICES ASSUME PassesAll(cands, more), NEW r \in 1..Rounds
                 PROVE  g(cands)[r] <= g(more)[r]
    OBVIOUS
  <2>3. c \in cands[r] => c \in more[r]
    BY <2>2 DEF PassesAll
  <2>. QED
    BY <2>3
<1>5. \A runs : Gain(refs, runs, c) = Total(Rounds, g(runs))
  BY DEF Gain
<1>6. Total(Rounds, g(refs)) = 0
  BY <1>1, <1>3, TotalZero
<1>. HIDE DEF g
<1>. QED
  BY <1>1, <1>2, <1>4, <1>5, <1>6, TotalType, TotalMonotone

(* The same for the sum of the gains of any choice of cases.               *)
LEMMA ChoiceFacts ==
    ASSUME NEW n \in Nat, NEW case, NEW refs, NEW cands
    PROVE  LET Sum(runs) == Total(n, [i \in 1..n |-> Gain(refs, runs, case[i])])
           IN  /\ Sum(cands) \in Int
               /\ Sum(refs) = 0
               /\ \A more : PassesAll(cands, more) => Sum(cands) <= Sum(more)
<1>. DEFINE g(runs) == [i \in 1..n |-> Gain(refs, runs, case[i])]
<1>1. \A runs : g(runs) \in [1..n -> Int]
  BY GainFacts
<1>2. g(refs) = [i \in 1..n |-> 0]
  BY GainFacts
<1>3. \A more : PassesAll(cands, more) => \A i \in 1..n : g(cands)[i] <= g(more)[i]
  BY GainFacts
<1>4. Total(n, g(refs)) = 0
  BY <1>2, TotalZero
<1>5. /\ Total(n, g(cands)) \in Int
      /\ \A more : PassesAll(cands, more) => Total(n, g(cands)) <= Total(n, g(more))
  <2>. HIDE DEF g
  <2>. QED
    BY <1>1, <1>3, TotalType, TotalMonotone
<1>. QED
  BY <1>4, <1>5

(* The gain of a family.                                                   *)
LEMMA FamilyGainFacts ==
    ASSUME NEW f \in Families, NEW refs, NEW cands
    PROVE  /\ FamilyGain(refs, cands, f) \in Int
           /\ FamilyGain(refs, refs, f) = 0
           /\ \A more : PassesAll(cands, more) => FamilyGain(refs, cands, f) <= FamilyGain(refs, more, f)
<1>1. Len(CasesOf[f]) \in Nat
  BY ScoringFacts
<1>. QED
  BY <1>1, ChoiceFacts DEF FamilyGain

(* The gain of a family in a resample.                                     *)
LEMMA DrawnFacts ==
    ASSUME NEW f \in Families, NEW d \in 1..Len(Draws), NEW refs, NEW cands
    PROVE  /\ Drawn(refs, cands, f, Draws[d]) \in Int
           /\ Drawn(refs, refs, f, Draws[d]) = 0
           /\ \A more : PassesAll(cands, more) =>
                 Drawn(refs, cands, f, Draws[d]) <= Drawn(refs, more, f, Draws[d])
<1>. DEFINE n == Len(CasesOf[f])
            case == [i \in 1..n |-> CasesOf[f][Draws[d][f][i]]]
<1>1. n \in Nat
  BY ScoringFacts
<1>2. \A runs : Drawn(refs, runs, f, Draws[d]) = Total(n, [i \in 1..n |-> Gain(refs, runs, case[i])])
  <2>1. TAKE runs
  <2>2. [i \in 1..n |-> Gain(refs, runs, case[i])]
          = [i \in 1..n |-> Gain(refs, runs, CasesOf[f][Draws[d][f][i]])]
    OBVIOUS
  <2>. QED
    BY <2>2 DEF Drawn
<1>. HIDE DEF n, case
<1>3. /\ Total(n, [i \in 1..n |-> Gain(refs, cands, case[i])]) \in Int
      /\ Total(n, [i \in 1..n |-> Gain(refs, refs, case[i])]) = 0
      /\ \A more : PassesAll(cands, more) =>
            Total(n, [i \in 1..n |-> Gain(refs, cands, case[i])])
              <= Total(n, [i \in 1..n |-> Gain(refs, more, case[i])])
  BY <1>1, ChoiceFacts
<1>. QED
  BY <1>2, <1>3

(* The sums over all families.                                             *)
LEMMA OverFamilies ==
    ASSUME NEW s, NEW t, \A f \in Families : s[f] \in Int /\ t[f] \in Int /\ s[f] <= t[f]
    PROVE  /\ Total(Len(CasesOf), [f \in Families |-> s[f]]) \in Int
           /\ Total(Len(CasesOf), [f \in Families |-> t[f]]) \in Int
           /\ Total(Len(CasesOf), [f \in Families |-> s[f]]) <= Total(Len(CasesOf), [f \in Families |-> t[f]])
<1>. DEFINE x == [f \in Families |-> s[f]]
            y == [f \in Families |-> t[f]]
<1>1. /\ x \in [1..Len(CasesOf) -> Int] /\ y \in [1..Len(CasesOf) -> Int]
      /\ \A f \in 1..Len(CasesOf) : x[f] <= y[f]
  BY DEF Families
<1>. HIDE DEF x, y
<1>2. /\ Total(Len(CasesOf), x) \in Int /\ Total(Len(CasesOf), y) \in Int
      /\ Total(Len(CasesOf), x) <= Total(Len(CasesOf), y)
  BY <1>1, ScoringFacts, TotalType, TotalMonotone
<1>. QED
  BY <1>2 DEF x, y

-----------------------------------------------------------------------------
(* What one run of cases scores where it is no worse than another.         *)
LEMMA AggregateFacts ==
    ASSUME NEW refs, NEW cands, NEW more, PassesAll(cands, more)
    PROVE  /\ AggregateDelta(refs, cands) \in Int /\ AggregateDelta(refs, more) \in Int
           /\ AggregateDelta(refs, cands) <= AggregateDelta(refs, more)
           /\ AggregateLower(refs, cands) \in Int /\ AggregateLower(refs, more) \in Int
           /\ AggregateLower(refs, cands) <= AggregateLower(refs, more)
<1>1. AllObservations \in Nat \ {0}
  BY ScoringFacts
<1>. DEFINE G(runs) == Total(Len(CasesOf), [f \in Families |-> FamilyGain(refs, runs, f)])
            D(runs, d) == Total(Len(CasesOf), [f \in Families |-> Drawn(refs, runs, f, Draws[d])])
            S(runs) == [d \in 1..Len(Draws) |-> Ratio(D(runs, d), AllObservations)]
<1>2. G(cands) \in Int /\ G(more) \in Int /\ G(cands) <= G(more)
  <2>. DEFINE s == [f \in Families |-> FamilyGain(refs, cands, f)]
              t == [f \in Families |-> FamilyGain(refs, more, f)]
  <2>1. \A f \in Families : s[f] \in Int /\ t[f] \in Int /\ s[f] <= t[f]
    BY FamilyGainFacts
  <2>2. s = [f \in Families |-> s[f]] /\ t = [f \in Families |-> t[f]]
    OBVIOUS
  <2>3. G(cands) = Total(Len(CasesOf), s) /\ G(more) = Total(Len(CasesOf), t)
    OBVIOUS
  <2>. HIDE DEF s, t, G
  <2>4. /\ Total(Len(CasesOf), [f \in Families |-> s[f]]) \in Int
        /\ Total(Len(CasesOf), [f \in Families |-> t[f]]) \in Int
        /\ Total(Len(CasesOf), [f \in Families |-> s[f]]) <= Total(Len(CasesOf), [f \in Families |-> t[f]])
    BY <2>1, OverFamilies
  <2>. QED
    BY <2>2, <2>3, <2>4
<1>3. ASSUME NEW d \in 1..Len(Draws)
     PROVE  D(cands, d) \in Int /\ D(more, d) \in Int /\ D(cands, d) <= D(more, d)
  <2>. DEFINE s == [f \in Families |-> Drawn(refs, cands, f, Draws[d])]
              t == [f \in Families |-> Drawn(refs, more, f, Draws[d])]
  <2>1. \A f \in Families : s[f] \in Int /\ t[f] \in Int /\ s[f] <= t[f]
    BY DrawnFacts
  <2>2. s = [f \in Families |-> s[f]] /\ t = [f \in Families |-> t[f]]
    OBVIOUS
  <2>3. D(cands, d) = Total(Len(CasesOf), s) /\ D(more, d) = Total(Len(CasesOf), t)
    OBVIOUS
  <2>. HIDE DEF s, t, D
  <2>4. /\ Total(Len(CasesOf), [f \in Families |-> s[f]]) \in Int
        /\ Total(Len(CasesOf), [f \in Families |-> t[f]]) \in Int
        /\ Total(Len(CasesOf), [f \in Families |-> s[f]]) <= Total(Len(CasesOf), [f \in Families |-> t[f]])
    BY <2>1, OverFamilies
  <2>. QED
    BY <2>2, <2>3, <2>4
<1>4. /\ Ratio(G(cands), AllObservations) \in Int /\ Ratio(G(more), AllObservations) \in Int
      /\ Ratio(G(cands), AllObservations) <= Ratio(G(more), AllObservations)
  <2>. HIDE DEF G
  <2>. QED
    BY <1>1, <1>2, RatioFacts
<1>5. /\ S(cands) \in [1..Len(Draws) -> Int] /\ S(more) \in [1..Len(Draws) -> Int]
      /\ \A d \in 1..Len(Draws) : S(cands)[d] <= S(more)[d]
  <2>. HIDE DEF D
  <2>1. \A d \in 1..Len(Draws) :
           /\ Ratio(D(cands, d), AllObservations) \in Int /\ Ratio(D(more, d), AllObservations) \in Int
           /\ Ratio(D(cands, d), AllObservations) <= Ratio(D(more, d), AllObservations)
    BY <1>1, <1>3, RatioFacts
  <2>. QED
    BY <2>1
<1>6. /\ LowerBound(S(cands)) \in Int /\ LowerBound(S(more)) \in Int
      /\ LowerBound(S(cands)) <= LowerBound(S(more))
  <2>. HIDE DEF S
  <2>. QED
    BY <1>5, LowerBoundFacts
<1>. QED
  BY <1>4, <1>6 DEF AggregateDelta, AggregateLower

(* And in each family.                                                     *)
LEMMA FamilyFacts ==
    ASSUME NEW f \in Families, NEW refs, NEW cands, NEW more, PassesAll(cands, more)
    PROVE  /\ Ratio(FamilyGain(refs, cands, f), Observations(f)) \in Int
           /\ Ratio(FamilyGain(refs, more, f), Observations(f)) \in Int
           /\ Ratio(FamilyGain(refs, cands, f), Observations(f)) <= Ratio(FamilyGain(refs, more, f), Observations(f))
           /\ FamilyLower(refs, cands, f) \in Int /\ FamilyLower(refs, more, f) \in Int
           /\ FamilyLower(refs, cands, f) <= FamilyLower(refs, more, f)
<1>1. Observations(f) \in Nat \ {0}
  BY ScoringFacts
<1>. DEFINE S(runs) == [d \in 1..Len(Draws) |-> Ratio(Drawn(refs, runs, f, Draws[d]), Observations(f))]
<1>2. /\ Ratio(FamilyGain(refs, cands, f), Observations(f)) \in Int
      /\ Ratio(FamilyGain(refs, more, f), Observations(f)) \in Int
      /\ Ratio(FamilyGain(refs, cands, f), Observations(f)) <= Ratio(FamilyGain(refs, more, f), Observations(f))
  <2>1. /\ FamilyGain(refs, cands, f) \in Int /\ FamilyGain(refs, more, f) \in Int
        /\ FamilyGain(refs, cands, f) <= FamilyGain(refs, more, f)
    BY FamilyGainFacts
  <2>. QED
    BY <1>1, <2>1, RatioFacts
<1>3. /\ S(cands) \in [1..Len(Draws) -> Int] /\ S(more) \in [1..Len(Draws) -> Int]
      /\ \A d \in 1..Len(Draws) : S(cands)[d] <= S(more)[d]
  <2>1. ASSUME NEW d \in 1..Len(Draws)
        PROVE  /\ Ratio(Drawn(refs, cands, f, Draws[d]), Observations(f)) \in Int
               /\ Ratio(Drawn(refs, more, f, Draws[d]), Observations(f)) \in Int
               /\ Ratio(Drawn(refs, cands, f, Draws[d]), Observations(f))
                     <= Ratio(Drawn(refs, more, f, Draws[d]), Observations(f))
    <3>1. /\ Drawn(refs, cands, f, Draws[d]) \in Int /\ Drawn(refs, more, f, Draws[d]) \in Int
          /\ Drawn(refs, cands, f, Draws[d]) <= Drawn(refs, more, f, Draws[d])
      BY DrawnFacts
    <3>. QED
      BY <1>1, <3>1, RatioFacts
  <2>. QED
    BY <2>1
<1>4. /\ LowerBound(S(cands)) \in Int /\ LowerBound(S(more)) \in Int
      /\ LowerBound(S(cands)) <= LowerBound(S(more))
  <2>. HIDE DEF S
  <2>. QED
    BY <1>3, LowerBoundFacts
<1>. QED
  BY <1>2, <1>4 DEF FamilyLower

(* A run that passes more stays eligible.                                  *)
LEMMA QualityGrows ==
    ASSUME NEW refs, NEW cands, NEW more, PassesAll(cands, more)
    PROVE  /\ QualityEligible(refs, cands) => QualityEligible(refs, more)
           /\ AggregateDelta(refs, cands) <= AggregateDelta(refs, more)
<1>1. -AggregateMargin \in Int /\ -FamilyMargin \in Int
  BY ScoringFacts
<1>2. /\ AggregateDelta(refs, cands) \in Int /\ AggregateDelta(refs, more) \in Int
      /\ AggregateDelta(refs, cands) <= AggregateDelta(refs, more)
      /\ AggregateLower(refs, cands) \in Int /\ AggregateLower(refs, more) \in Int
      /\ AggregateLower(refs, cands) <= AggregateLower(refs, more)
  BY AggregateFacts
<1>3. \A f \in Families : FamilyPasses(refs, cands, f) => FamilyPasses(refs, more, f)
  <2>1. TAKE f \in Families
  <2>2. /\ Ratio(FamilyGain(refs, cands, f), Observations(f)) \in Int
        /\ Ratio(FamilyGain(refs, more, f), Observations(f)) \in Int
        /\ Ratio(FamilyGain(refs, cands, f), Observations(f)) <= Ratio(FamilyGain(refs, more, f), Observations(f))
        /\ FamilyLower(refs, cands, f) \in Int /\ FamilyLower(refs, more, f) \in Int
        /\ FamilyLower(refs, cands, f) <= FamilyLower(refs, more, f)
    BY FamilyFacts
  <2>. QED
    BY <1>1, <2>2 DEF FamilyPasses
<1>. QED
  BY <1>1, <1>2, <1>3 DEF QualityEligible

(* The reference is eligible against itself.                               *)
LEMMA ReferenceIsEligible ==
    ASSUME NEW refs
    PROVE  QualityEligible(refs, refs)
<1>1. PassesAll(refs, refs)
  BY DEF PassesAll
<1>2. -AggregateMargin <= 0 /\ -FamilyMargin <= 0 /\ -AggregateMargin \in Int /\ -FamilyMargin \in Int
  BY ScoringFacts
<1>0. \A d \in Nat \ {0} : Ratio(0, d) \in Int /\ Ratio(0, d) >= 0
  BY RatioFacts, 0 \in Int
<1>3. \A f \in Families : Ratio(0, Observations(f)) \in Int /\ Ratio(0, Observations(f)) >= 0
  BY <1>0, ScoringFacts
<1>4. Ratio(0, AllObservations) \in Int /\ Ratio(0, AllObservations) >= 0
  BY <1>0, ScoringFacts
<1>5. Total(Len(CasesOf), [f \in Families |-> 0]) = 0
  BY ScoringFacts, TotalZero DEF Families
<1>6. AggregateDelta(refs, refs) >= -AggregateMargin
  <2>1. [f \in Families |-> FamilyGain(refs, refs, f)] = [f \in Families |-> 0]
    BY FamilyGainFacts
  <2>2. AggregateDelta(refs, refs) = Ratio(0, AllObservations)
    BY <1>5, <2>1 DEF AggregateDelta
  <2>. QED
    BY <1>2, <1>4, <2>2
<1>7. AggregateLower(refs, refs) >= -AggregateMargin
  <2>. DEFINE s == [d \in 1..Len(Draws) |->
                       Ratio(Total(Len(CasesOf), [f \in Families |-> Drawn(refs, refs, f, Draws[d])]),
                             AllObservations)]
  <2>1. \A d \in 1..Len(Draws) : s[d] = Ratio(0, AllObservations)
    <3>1. TAKE d \in 1..Len(Draws)
    <3>2. [f \in Families |-> Drawn(refs, refs, f, Draws[d])] = [f \in Families |-> 0]
      BY DrawnFacts
    <3>. QED
      BY <1>5, <3>2
  <2>2. s \in [1..Len(Draws) -> Int]
    BY <1>4, <2>1
  <2>3. AggregateLower(refs, refs) = LowerBound(s)
    BY DEF AggregateLower
  <2>. HIDE DEF s
  <2>4. LowerBound(s) = Ratio(0, AllObservations)
    BY <2>1, <2>2, LowerBoundFacts
  <2>. QED
    BY <1>2, <1>4, <2>3, <2>4
<1>8. ASSUME NEW f \in Families PROVE FamilyPasses(refs, refs, f)
  <2>. DEFINE s == [d \in 1..Len(Draws) |-> Ratio(Drawn(refs, refs, f, Draws[d]), Observations(f))]
  <2>1. \A d \in 1..Len(Draws) : s[d] = Ratio(0, Observations(f))
    BY DrawnFacts
  <2>2. s \in [1..Len(Draws) -> Int]
    BY <1>3, <2>1
  <2>3. FamilyLower(refs, refs, f) = LowerBound(s)
    BY DEF FamilyLower
  <2>. HIDE DEF s
  <2>4. LowerBound(s) = Ratio(0, Observations(f))
    BY <2>1, <2>2, LowerBoundFacts
  <2>5. Ratio(FamilyGain(refs, refs, f), Observations(f)) = Ratio(0, Observations(f))
    BY FamilyGainFacts
  <2>. QED
    BY <1>2, <1>3, <2>3, <2>4, <2>5 DEF FamilyPasses
<1>. QED
  BY <1>6, <1>7, <1>8 DEF QualityEligible

(* An eligible candidate lost no more than the margins allow, and one that *)
(* passes whatever the reference passes is eligible.                       *)
LEMMA QualitySound ==
    ASSUME NEW refs, NEW cands
    PROVE  QualityIsSound(refs, cands)
<1>1. ASSUME QualityEligible(refs, cands), NEW f \in Families
     PROVE  -2 * FamilyGain(refs, cands, f) * Ppm <= (2 * FamilyMargin + 1) * Observations(f)
  <2>. DEFINE g == FamilyGain(refs, cands, f)
              n == Observations(f)
              m == FamilyMargin
  <2>1. g \in Int /\ n \in Nat \ {0} /\ m \in Nat /\ Ppm \in Nat
    BY FamilyGainFacts, ScoringFacts
  <2>2. Ratio(g, n) >= -m
    BY <1>1 DEF QualityEligible, FamilyPasses
  <2>. HIDE DEF g, n, m
  <2>3. -m \in Int /\ \A a \in Int : Ratio(g, n) >= a => (2 * a - 1) * n <= 2 * g * Ppm
    BY <2>1, RatioFacts
  <2>4. (2 * (-m) - 1) * n <= 2 * g * Ppm
    BY <2>2, <2>3
  <2>5. (2 * (-m) - 1) * n = -((2 * m + 1) * n) /\ -2 * g * Ppm = -(2 * g * Ppm)
    BY <2>1
  <2>6. (2 * m + 1) * n \in Int /\ 2 * g * Ppm \in Int
    BY <2>1
  <2>7. -2 * g * Ppm <= (2 * m + 1) * n
    BY <2>4, <2>5, <2>6
  <2>. QED
    BY <2>7 DEF g, n, m
<1>2. ASSUME \A r \in 1..Rounds : refs[r] \subseteq cands[r] PROVE QualityEligible(refs, cands)
  BY <1>2, QualityGrows, ReferenceIsEligible DEF PassesAll
<1>. QED
  BY <1>1, <1>2 DEF QualityIsSound

-----------------------------------------------------------------------------
(* What a benchmark point is made of, of a run or of a bundle.             *)
IsPoint(p) ==
    /\ p.requests \in Seq(Latency) /\ p.requests # <<>>
    /\ p.direct \in Nat \cup {-1} /\ p.seconds \in Nat \ {0}

(* Both kinds of points are points.                                        *)
LEMMA ArePoints ==
    /\ \A p \in RunPoints : IsPoint(p)
    /\ \A p \in BundlePoints : IsPoint(p) /\ p.p95 \in Latency
  BY DEF RunPoints, BundlePoints, IsPoint

(* The requests of a point, the completed ones and the good ones among     *)
(* them.                                                                   *)
LEMMA PointFacts ==
    ASSUME NEW p, IsPoint(p), NEW limit
    PROVE  /\ Len(p.requests) \in Nat \ {0} /\ DOMAIN p.requests = 1..Len(p.requests)
           /\ \A i \in 1..Len(p.requests) : p.requests[i] \in Latency
           /\ Completed(p) \subseteq 1..Len(p.requests) /\ IsFiniteSet(Completed(p))
           /\ GoodAt(p, limit) \subseteq Completed(p) /\ IsFiniteSet(GoodAt(p, limit))
           /\ Cardinality(Completed(p)) \in Nat /\ Cardinality(GoodAt(p, limit)) \in Nat
           /\ Completed(p) # {} => Cardinality(Completed(p)) \in Nat \ {0}
           /\ Cardinality(Completed(p)) = Len(p.requests) => Completed(p) = 1..Len(p.requests)
<1>1. /\ Len(p.requests) \in Nat \ {0} /\ DOMAIN p.requests = 1..Len(p.requests)
      /\ \A i \in 1..Len(p.requests) : p.requests[i] \in Latency
  BY DEF IsPoint
<1>2. Completed(p) \subseteq 1..Len(p.requests) /\ GoodAt(p, limit) \subseteq Completed(p)
  BY <1>1 DEF Completed, GoodAt
<1>3. IsFiniteSet(1..Len(p.requests)) /\ Cardinality(1..Len(p.requests)) = Len(p.requests)
  BY <1>1, FS_Interval
<1>4. IsFiniteSet(Completed(p)) /\ Cardinality(Completed(p)) \in Nat
  BY <1>2, <1>3, FS_Subset, FS_CardinalityType
<1>5. IsFiniteSet(GoodAt(p, limit)) /\ Cardinality(GoodAt(p, limit)) \in Nat
  BY <1>2, <1>4, FS_Subset, FS_CardinalityType
<1>6. Completed(p) # {} => Cardinality(Completed(p)) # 0
  BY <1>4, FS_EmptySet
<1>7. Cardinality(Completed(p)) = Len(p.requests) => Completed(p) = 1..Len(p.requests)
  BY <1>2, <1>3, FS_Subset
<1>. QED
  BY <1>1, <1>2, <1>4, <1>5, <1>6, <1>7

(* The buckets have a highest rate each, and it is measured.               *)
LEMMA BucketFacts ==
    /\ Len(RatesOf) \in Nat \ {0} /\ Buckets = 1..Len(RatesOf)
    /\ Attainment \in Nat \ {0} /\ Guard \in Nat \ {0}
    /\ \A b \in Buckets : Selected(b) \in Points /\ Selected(b)[1] = b
    /\ \A p \in Points : p[1] \in Buckets
<1>1. /\ Len(RatesOf) \in Nat \ {0} /\ Buckets = 1..Len(RatesOf)
      /\ Attainment \in Nat \ {0} /\ Guard \in Nat \ {0}
  BY ScoringAssumption DEF Buckets
<1>2. ASSUME NEW b \in Buckets PROVE Selected(b) \in Points /\ Selected(b)[1] = b
  <2>. DEFINE R == RatesOf[b]
              f == [r \in R |-> r]
  <2>1. R # {} /\ R \subseteq Nat /\ IsFiniteSet(R)
    BY ScoringAssumption
  <2>2. f \in [R -> Int] /\ R = {f[r] : r \in R}
    <3>1. \A r \in R : r \in Int /\ f[r] = r
      BY <2>1
    <3>. QED
      BY <3>1
  <2>3. Max(R) \in R
    <3>. HIDE DEF R, f
    <3>. QED
      BY <2>1, <2>2, MaxOver
  <2>. QED
    BY <2>3 DEF Selected, Points
<1>3. \A p \in Points : p[1] \in Buckets
  BY DEF Points
<1>. QED
  BY <1>1, <1>2, <1>3

(* What a replay reports of a point that is not refused.                   *)
LEMMA ClassifiedFacts ==
    ASSUME NEW p, IsPoint(p), Completed(p) # {}, NEW count \in Nat
    PROVE  /\ Classified(p, count).prompts = Len(p.requests)
           /\ Classified(p, count).completed = Cardinality(Completed(p))
           /\ Classified(p, count).attainment = Ratio(count, Cardinality(Completed(p)))
           /\ Classified(p, count).attainment \in Int
           /\ Classified(p, count).goodput = Ratio(count, p.seconds)
           /\ Classified(p, count).goodput \in Nat
           /\ Classified(p, count).direct <=> p.direct # -1
<1>1. Cardinality(Completed(p)) \in Nat \ {0} /\ p.seconds \in Nat \ {0} /\ count \in Int /\ count >= 0
  BY PointFacts DEF IsPoint
<1>2. Ratio(count, Cardinality(Completed(p))) \in Int /\ Ratio(count, p.seconds) \in Int
      /\ Ratio(count, p.seconds) >= 0
  BY <1>1, RatioFacts
<1>3. Classified(p, count).direct = (p.direct # -1)
  BY DEF Classified
<1>4. Classified(p, count).direct <=> p.direct # -1
  BY <1>3, Zenon
<1>5. /\ Classified(p, count).prompts = Len(p.requests)
      /\ Classified(p, count).completed = Cardinality(Completed(p))
      /\ Classified(p, count).attainment = Ratio(count, Cardinality(Completed(p)))
      /\ Classified(p, count).goodput = Ratio(count, p.seconds)
  BY DEF Classified
<1>6. /\ Classified(p, count).attainment \in Int
      /\ Classified(p, count).goodput \in Nat
  BY <1>2, <1>5
<1>. QED
  BY <1>4, <1>5, <1>6

(* What the replay of an accepted point reports.                           *)
LEMMA ReplayFacts ==
    ASSUME NEW p, IsPoint(p), NEW limit, Replayable(p, limit)
    PROVE  /\ Completed(p) # {}
           /\ \E count \in Nat : /\ Replay(p, limit) = Classified(p, count)
                                 /\ p.direct # -1 => count = p.direct
                                 /\ p.direct = -1 => count = Cardinality(GoodAt(p, limit))
           /\ Replay(p, limit).goodput \in Nat /\ Replay(p, limit).attainment \in Int
<1>1. Completed(p) # {}
  BY DEF Replayable
<1>2. PICK count \in Nat : /\ Replay(p, limit) = Classified(p, count)
                           /\ p.direct # -1 => count = p.direct
                           /\ p.direct = -1 => count = Cardinality(GoodAt(p, limit))
  <2>1. p.direct \in Nat \cup {-1} /\ Cardinality(GoodAt(p, limit)) \in Nat
    BY PointFacts DEF IsPoint
  <2>. QED
    BY <2>1 DEF Replay
<1>. QED
  BY <1>1, <1>2, ClassifiedFacts

-----------------------------------------------------------------------------
(* Moving a latency by less than its distance from the limit leaves it on  *)
(* the same side.                                                          *)
LEMMA SameSide ==
    ASSUME NEW a \in Nat, NEW limit \in Nat, NEW t \in -Guard..Guard, Distance(a, limit) > Guard
    PROVE  a + t <= limit <=> a <= limit
<1>1. Guard \in Nat
  BY BucketFacts
<1>. QED
  BY <1>1 DEF Distance

(* A distance is a natural number.                                         *)
LEMMA DistanceType ==
    ASSUME NEW a \in Nat, NEW b \in Nat
    PROVE  Distance(a, b) \in Nat
  BY DEF Distance

(* A replay by latency alone survives the guard.                           *)
LEMMA ReplaySafe ==
    ASSUME NEW p \in RunPoints, NEW limit \in Limits
    PROVE  ReplayIsSafe(p, limit)
<1>. DEFINE q(n, t, o) == [p EXCEPT !.requests[n] = [ttft |-> @.ttft + t, tpot |-> @.tpot + o]]
<1>1. SUFFICES ASSUME Replayable(p, limit), p.direct = -1,
                      NEW n \in Completed(p), NEW t \in -Guard..Guard, NEW o \in -Guard..Guard,
                      p.requests[n].ttft + t > 0
               PROVE  GoodAt(q(n, t, o), limit) = GoodAt(p, limit)
  BY DEF ReplayIsSafe
<1>2. IsPoint(p)
  BY ArePoints
<1>. DEFINE N == Len(p.requests)
            x == q(n, t, o)
            D == UNION {{Distance(p.requests[i].ttft, limit.ttft), Distance(p.requests[i].tpot, limit.tpot)} :
                            i \in Completed(p)}
<1>3. /\ N \in Nat \ {0} /\ DOMAIN p.requests = 1..N /\ n \in 1..N /\ Completed(p) \subseteq 1..N
      /\ \A i \in 1..N : p.requests[i] \in Latency
  BY <1>2, PointFacts
<1>4. limit.ttft \in Nat /\ limit.tpot \in Nat
  BY DEF Limits
<1>5. \A i \in 1..N : p.requests[i].ttft \in Nat /\ p.requests[i].tpot \in Nat
  BY <1>3 DEF Latency
<1>6. MarginOf(p, limit) > Guard
  BY <1>1 DEF Replayable
<1>7. \A d \in D : d > Guard
  <2>1. D \subseteq Nat /\ D # {}
    <3>1. \A i \in Completed(p) : /\ Distance(p.requests[i].ttft, limit.ttft) \in Nat
                                 /\ Distance(p.requests[i].tpot, limit.tpot) \in Nat
      BY <1>3, <1>4, <1>5, DistanceType
    <3>2. Distance(p.requests[n].ttft, limit.ttft) \in D
      BY <1>1
    <3>. QED
      BY <3>1, <3>2
  <2>2. MarginOf(p, limit) = Min(D)
    BY DEF MarginOf
  <2>. HIDE DEF D
  <2>3. PICK d \in D : \A e \in D : d <= e
    BY <2>1, LeastNatural
  <2>4. PICK m : m = Min(D)
    OBVIOUS
  <2>5. m \in D /\ \A e \in D : m =< e
    BY <2>3, <2>4 DEF Min
  <2>6. Guard \in Nat
    BY BucketFacts
  <2>. QED
    BY <1>6, <2>1, <2>2, <2>4, <2>5, <2>6
<1>8. Distance(p.requests[n].ttft, limit.ttft) > Guard /\ Distance(p.requests[n].tpot, limit.tpot) > Guard
  BY <1>7
<1>9. /\ p.requests[n].ttft + t <= limit.ttft <=> p.requests[n].ttft <= limit.ttft
      /\ p.requests[n].tpot + o <= limit.tpot <=> p.requests[n].tpot <= limit.tpot
  BY <1>3, <1>4, <1>5, <1>8, SameSide
<1>10. x.requests = [p.requests EXCEPT ![n] = [ttft |-> p.requests[n].ttft + t, tpot |-> p.requests[n].tpot + o]]
  BY DEF RunPoints
<1>11. /\ DOMAIN x.requests = 1..N
       /\ x.requests[n].ttft = p.requests[n].ttft + t /\ x.requests[n].tpot = p.requests[n].tpot + o
       /\ \A i \in 1..N : i # n => x.requests[i] = p.requests[i]
  BY <1>3, <1>10
<1>. HIDE DEF x, q, N, D
<1>12. Completed(x) = Completed(p)
  BY <1>1, <1>3, <1>11 DEF Completed
<1>13. GoodAt(x, limit) = GoodAt(p, limit)
  BY <1>3, <1>9, <1>11, <1>12 DEF GoodAt
<1>. QED
  BY <1>13 DEF x

-----------------------------------------------------------------------------
(* The score of a repetition whose replays are numbers.                    *)
LEMMA ScoreFacts ==
    ASSUME NEW reference, \A b \in Buckets : reference[b] \in Nat \ {0},
           NEW replays, \A b \in Buckets : replays[Selected(b)].goodput \in Nat, NEW role
    PROVE  LET ratios == [b \in 1..Len(RatesOf) |-> Ratio(replays[Selected(b)].goodput, reference[b])]
               score  == ScoreRepetition(reference, replays, role)
           IN  /\ ratios \in [1..Len(RatesOf) -> Nat]
               /\ score.eligible = \A p \in Points : PointAdmitted(replays[p], role)
               /\ score.eligible => score.scalar = Mean(ratios)
               /\ ~score.eligible => score.scalar = 0
               /\ score.scalar \in Nat
               /\ score = [eligible |-> score.eligible, scalar |-> score.scalar]
<1>. DEFINE ratios == [b \in 1..Len(RatesOf) |-> Ratio(replays[Selected(b)].goodput, reference[b])]
            score  == ScoreRepetition(reference, replays, role)
<1>1. ratios \in [1..Len(RatesOf) -> Nat]
  <2>1. ASSUME NEW b \in Buckets PROVE Ratio(replays[Selected(b)].goodput, reference[b]) \in Nat
    <3>1. replays[Selected(b)].goodput \in Int /\ replays[Selected(b)].goodput >= 0
      OBVIOUS
    <3>2. reference[b] \in Nat \ {0}
      OBVIOUS
    <3>3. \A n \in Int, d \in Nat \ {0} : Ratio(n, d) \in Int /\ (n >= 0 => Ratio(n, d) >= 0)
      BY RatioFacts
    <3>4. Ratio(replays[Selected(b)].goodput, reference[b]) \in Int
          /\ Ratio(replays[Selected(b)].goodput, reference[b]) >= 0
      BY <3>1, <3>2, <3>3
    <3>. QED
      BY <3>4
  <2>. QED
    BY <2>1, BucketFacts
<1>2. Mean(ratios) \in Nat
  <2>. HIDE DEF ratios
  <2>. QED
    BY <1>1, MeanFacts, BucketFacts
<1>3. ratios = [b \in Buckets |-> Ratio(replays[Selected(b)].goodput, reference[b])]
  BY BucketFacts
<1>4. score = [eligible |-> \A p \in Points : PointAdmitted(replays[p], role),
               scalar   |-> IF \A p \in Points : PointAdmitted(replays[p], role) THEN Mean(ratios) ELSE 0]
  BY <1>3 DEF ScoreRepetition
<1>. HIDE DEF ratios, score
<1>5. /\ score.eligible = \A p \in Points : PointAdmitted(replays[p], role)
      /\ score.eligible => score.scalar = Mean(ratios)
      /\ ~score.eligible => score.scalar = 0
      /\ score.scalar \in Nat
      /\ score = [eligible |-> score.eligible, scalar |-> score.scalar]
  BY <1>2, <1>4
<1>. QED
  BY <1>1, <1>5 DEF ratios, score


-----------------------------------------------------------------------------
(* A measurable pair replays to numbers, over a positive reference.        *)
LEMMA MeasurableFacts ==
    ASSUME NEW limit, NEW points \in [Roles -> [Points -> RunPoints]], PairMeasurable(limit, points),
           NEW own, own = [b \in Buckets |-> Replay(points["reference"][Selected(b)], limit[b]).goodput],
           NEW role \in Roles,
           NEW replays, replays = [p \in Points |-> Replay(points[role][p], limit[p[1]])]
    PROVE  /\ \A b \in Buckets : own[b] \in Nat \ {0}
           /\ \A p \in Points : /\ IsPoint(points[role][p]) /\ Replayable(points[role][p], limit[p[1]])
                                /\ replays[p].goodput \in Nat /\ replays[p].attainment \in Int
           /\ \A b \in Buckets : replays[Selected(b)].goodput \in Nat
<1>1. DOMAIN points = Roles /\ "reference" \in Roles
  BY DEF Roles
<1>2. \A r \in Roles : \A p \in Points : IsPoint(points[r][p]) /\ Replayable(points[r][p], limit[p[1]])
  BY <1>1, ArePoints DEF PairMeasurable
<1>3. \A r \in Roles : \A p \in Points : /\ Replay(points[r][p], limit[p[1]]).goodput \in Nat
                                         /\ Replay(points[r][p], limit[p[1]]).attainment \in Int
  BY <1>2, ReplayFacts
<1>4. \A p \in Points : replays[p].goodput \in Nat /\ replays[p].attainment \in Int
  BY <1>3
<1>5. \A b \in Buckets : own[b] \in Nat \ {0}
  <2>1. TAKE b \in Buckets
  <2>2. Selected(b) \in Points /\ Selected(b)[1] = b
    BY BucketFacts
  <2>3. Replay(points["reference"][Selected(b)], limit[b]).goodput \in Nat
    BY <1>1, <1>3, <2>2
  <2>4. Replay(points["reference"][Selected(b)], limit[b]).goodput > 0
    BY DEF PairMeasurable
  <2>. QED
    BY <2>3, <2>4
<1>. QED
  BY <1>2, <1>4, <1>5, BucketFacts

(* Pair, in the terms of the lemma above.                                  *)
LEMMA PairFacts ==
    ASSUME NEW limit, NEW points \in [Roles -> [Points -> RunPoints]], PairMeasurable(limit, points)
    PROVE  LET own == [b \in Buckets |-> Replay(points["reference"][Selected(b)], limit[b]).goodput]
               R(role) == [p \in Points |-> Replay(points[role][p], limit[p[1]])]
           IN  /\ Pair(limit, points).eligible
                     = \A role \in Roles : ScoreRepetition(own, R(role), "candidate").eligible
               /\ \A role \in Roles :
                     Pair(limit, points).scores[role] = ScoreRepetition(own, R(role), "candidate")
<1>. DEFINE own == [b \in Buckets |-> Replay(points["reference"][Selected(b)], limit[b]).goodput]
            R(role) == [p \in Points |-> Replay(points[role][p], limit[p[1]])]
            all == [role \in Roles |-> R(role)]
            own2 == [b \in Buckets |-> all["reference"][Selected(b)].goodput]
            scores == [role \in Roles |-> ScoreRepetition(own2, all[role], "candidate")]
<1>1. DOMAIN points = Roles /\ "reference" \in Roles
  BY DEF Roles
<1>2. own2 = own
  <2>1. \A b \in Buckets : all["reference"][Selected(b)].goodput
                             = Replay(points["reference"][Selected(b)], limit[b]).goodput
    BY <1>1, BucketFacts
  <2>. QED
    BY <2>1
<1>3. Pair(limit, points) = [eligible |-> \A role \in Roles : scores[role].eligible, scores |-> scores]
  BY <1>1 DEF Pair
<1>4. \A role \in Roles : scores[role] = ScoreRepetition(own, R(role), "candidate")
  <2>. HIDE DEF own2, own
  <2>. QED
    BY <1>2
<1>. HIDE DEF scores, own, own2, R, all
<1>5. /\ Pair(limit, points).eligible = \A role \in Roles : ScoreRepetition(own, R(role), "candidate").eligible
      /\ \A role \in Roles : Pair(limit, points).scores[role] = ScoreRepetition(own, R(role), "candidate")
  BY <1>3, <1>4
<1>. QED
  BY <1>5 DEF own, R

(* An eligible pair met the limits, and the reference scores one against   *)
(* itself.                                                                 *)
LEMMA PairSound ==
    ASSUME NEW limit, NEW points \in [Roles -> [Points -> RunPoints]]
    PROVE  PairIsSound(limit, points)
<1>1. SUFFICES ASSUME PairMeasurable(limit, points), Pair(limit, points).eligible
               PROVE  /\ Pair(limit, points).scores["reference"].scalar = Ppm
                      /\ \A role \in DOMAIN points : \A p \in Points :
                            /\ Completed(points[role][p]) = DOMAIN points[role][p].requests
                            /\ 2 * points[role][p].direct * Ppm
                                  >= (2 * Attainment - 1) * Len(points[role][p].requests)
  BY DEF PairIsSound
<1>. DEFINE own == [b \in Buckets |-> Replay(points["reference"][Selected(b)], limit[b]).goodput]
            R(role) == [p \in Points |-> Replay(points[role][p], limit[p[1]])]
            S(role) == ScoreRepetition(own, R(role), "candidate")
<1>2. DOMAIN points = Roles /\ "reference" \in Roles
  BY DEF Roles
<1>3. \A role \in Roles : /\ S(role).eligible
                          /\ Pair(limit, points).scores[role] = S(role)
  BY <1>1, PairFacts
<1>4. \A b \in Buckets : own[b] \in Nat \ {0}
  BY <1>1, <1>2, MeasurableFacts
<1>5. \A role \in Roles :
         /\ \A p \in Points : IsPoint(points[role][p]) /\ Replayable(points[role][p], limit[p[1]])
         /\ \A b \in Buckets : R(role)[Selected(b)].goodput \in Nat
  BY <1>1, MeasurableFacts
<1>6. S("reference").scalar = Ppm
  <2>. DEFINE ratios == [b \in 1..Len(RatesOf) |-> Ratio(R("reference")[Selected(b)].goodput, own[b])]
  <2>1. ratios \in [1..Len(RatesOf) -> Nat] /\ S("reference").scalar = Mean(ratios)
    <3>. HIDE DEF R, own
    <3>. QED
      BY <1>2, <1>3, <1>4, <1>5, ScoreFacts
  <2>2. \A b \in Buckets : ratios[b] = Ppm
    <3>1. TAKE b \in Buckets
    <3>2. own[b] = R("reference")[Selected(b)].goodput
      BY BucketFacts
    <3>3. Ratio(own[b], own[b]) = Ppm
      <4>. HIDE DEF own
      <4>. QED
        BY <1>4, RatioFacts
    <3>. QED
      BY <3>2, <3>3, BucketFacts
  <2>. HIDE DEF ratios
  <2>3. Mean(ratios) = Ppm
    <3>1. /\ Len(RatesOf) \in Nat \ {0} /\ Ppm \in Nat
          /\ \A b \in 1..Len(RatesOf) : ratios[b] = Ppm
      BY <2>2, BucketFacts, ScoringFacts
    <3>. QED
      BY <2>1, <3>1, MeanFacts
  <2>. QED
    BY <2>1, <2>3
<1>7. ASSUME NEW role \in Roles, NEW p \in Points
      PROVE  /\ Completed(points[role][p]) = DOMAIN points[role][p].requests
             /\ 2 * points[role][p].direct * Ppm >= (2 * Attainment - 1) * Len(points[role][p].requests)
  <2>. DEFINE x == points[role][p]
              l == limit[p[1]]
  <2>1. IsPoint(x) /\ Replayable(x, l)
    BY <1>5
  <2>2. PointAdmitted(Replay(x, l), "candidate")
    <3>1. \A r \in Points : PointAdmitted(R(role)[r], "candidate")
      <4>. HIDE DEF R, own
      <4>. QED
        BY <1>3, <1>4, <1>5, ScoreFacts
    <3>. QED
      BY <3>1
  <2>. HIDE DEF x, l
  <2>3. PICK count \in Nat : /\ Replay(x, l) = Classified(x, count)
                             /\ x.direct # -1 => count = x.direct
    BY <2>1, ReplayFacts
  <2>4. Completed(x) # {}
    BY <2>1, ReplayFacts
  <2>5. /\ Cardinality(Completed(x)) = Len(x.requests)
        /\ Ratio(count, Cardinality(Completed(x))) >= Attainment
        /\ x.direct # -1
    <3>1. /\ Classified(x, count).completed = Classified(x, count).prompts
          /\ Classified(x, count).attainment >= Attainment
          /\ Classified(x, count).direct
      BY <2>2, <2>3 DEF PointAdmitted
    <3>. QED
      BY <2>1, <2>4, <3>1, ClassifiedFacts
  <2>6. Completed(x) = DOMAIN x.requests /\ Len(x.requests) \in Nat \ {0}
    BY <2>1, <2>5, PointFacts
  <2>7. (2 * Attainment - 1) * Len(x.requests) <= 2 * count * Ppm
    <3>1. Attainment \in Int /\ count \in Int
      BY BucketFacts
    <3>. QED
      BY <2>5, <2>6, <3>1, RatioFacts
  <2>8. 2 * x.direct * Ppm >= (2 * Attainment - 1) * Len(x.requests)
    BY <2>3, <2>5, <2>7
  <2>. QED
    BY <2>6, <2>8 DEF x
<1>. HIDE DEF R, S, own
<1>. QED
  BY <1>2, <1>3, <1>6, <1>7


-----------------------------------------------------------------------------
(* The lowest and the highest of a list.                                   *)
LEMMA ExtremesOf ==
    ASSUME NEW n \in Nat \ {0}, NEW s \in [1..n -> Int]
    PROVE  /\ \E i \in 1..n : Min(ToSet(s)) = s[i]
           /\ \A i \in 1..n : Min(ToSet(s)) <= s[i]
           /\ \E i \in 1..n : Max(ToSet(s)) = s[i]
           /\ \A i \in 1..n : s[i] <= Max(ToSet(s))
<1>1. ToSet(s) = {s[i] : i \in 1..n} /\ 1..n # {} /\ IsFiniteSet(1..n)
  <2>1. DOMAIN s = 1..n /\ 1 \in 1..n /\ n \in Int /\ 1 \in Int
    OBVIOUS
  <2>2. IsFiniteSet(1..n)
    BY <2>1, FS_Interval
  <2>. QED
    BY <2>1, <2>2 DEF ToSet
<1>2. Min(ToSet(s)) \in ToSet(s) /\ \A x \in ToSet(s) : Min(ToSet(s)) <= x
  BY <1>1, MinOver
<1>3. Max(ToSet(s)) \in ToSet(s) /\ \A x \in ToSet(s) : x <= Max(ToSet(s))
  BY <1>1, MaxOver
<1>. QED
  BY <1>1, <1>2, <1>3

(* The indices of the values that are not below v.                         *)
NoLesser(s, v) == {i \in DOMAIN s : s[i] >= v}

(* Half of an odd number of values reach the middle one, and half do not   *)
(* exceed it.                                                              *)
LEMMA MedianFacts ==
    ASSUME NEW n \in Nat, n % 2 = 1, NEW s \in [1..n -> Int], NEW v, v = Median(s)
    PROVE  /\ \E i \in 1..n : v = s[i]
           /\ 2 * Cardinality(NoLesser(s, v)) > n
           /\ 2 * Cardinality(NoGreater(s, v)) > n
<1>. DEFINE h == n \div 2
<1>1. h \in Nat /\ n = 2 * h + 1 /\ h + 1 \in 1..n /\ Len(s) = n
  OBVIOUS
<1>2. v = Ascending(s)[h + 1]
  BY <1>1 DEF Median
<1>. HIDE DEF h
<1>3. /\ \E i \in 1..n : v = s[i]
      /\ Cardinality(Lesser(s, v)) < h + 1
      /\ Cardinality(NoGreater(s, v)) >= h + 1
  BY <1>1, <1>2, AtPlace
<1>4. v \in Int
  BY <1>3
<1>5. /\ NoLesser(s, v) = (1..n) \ Lesser(s, v)
      /\ (1..n) \cap Lesser(s, v) = Lesser(s, v)
  BY <1>4 DEF NoLesser, Lesser
<1>6. /\ Cardinality(Lesser(s, v)) \in Nat /\ Cardinality(NoGreater(s, v)) \in Nat
      /\ IsFiniteSet(1..n) /\ Cardinality(1..n) = n
  <2>1. IsFiniteSet(1..n) /\ Cardinality(1..n) = n
    BY <1>1, FS_Interval
  <2>. QED
    BY <2>1, PlacesCounted
<1>7. Cardinality((1..n) \ Lesser(s, v)) = n - Cardinality(Lesser(s, v))
  <2>1. Cardinality((1..n) \ Lesser(s, v)) = Cardinality(1..n) - Cardinality((1..n) \cap Lesser(s, v))
    BY <1>6, FS_Difference
  <2>. QED
    BY <1>5, <1>6, <2>1
<1>8. 2 * (n - Cardinality(Lesser(s, v))) > n /\ 2 * Cardinality(NoGreater(s, v)) > n
  BY <1>1, <1>3, <1>6
<1>. QED
  BY <1>3, <1>5, <1>7, <1>8

(* The middle value is one of them.                                        *)
LEMMA MedianIsMember ==
    ASSUME NEW n \in Nat, n % 2 = 1, NEW s \in [1..n -> Int]
    PROVE  \E i \in 1..n : Median(s) = s[i]
  BY MedianFacts

(* What a sequence is, index by index.                                     *)
LEMMA ListFacts ==
    ASSUME NEW S, NEW q \in Seq(S)
    PROVE  Len(q) \in Nat /\ DOMAIN q = 1..Len(q) /\ \A i \in 1..Len(q) : q[i] \in S
  OBVIOUS

(* The summary of a candidate is what its definition promises.             *)
LEMMA SummarySound ==
    ASSUME NEW scores \in Seq([eligible : BOOLEAN, scalar : Nat]), Len(scores) % 2 = 1,
           NEW references \in Seq(Nat \ {0}), references # <<>>
    PROVE  SummaryIsSound(scores, references)
<1>. DEFINE s == Summary(scores, references)
            N == Len(scores)
            M == Len(references)
            x == [i \in 1..N |-> scores[i].scalar]
            all == \A i \in 1..N : scores[i].eligible
            lo == Min(ToSet(x))
            hi == Max(ToSet(references))
<1>1. /\ N \in Nat \ {0} /\ DOMAIN scores = 1..N /\ x \in [1..N -> Int]
      /\ \A i \in 1..N : x[i] = scores[i].scalar /\ x[i] \in Nat
      /\ M \in Nat \ {0} /\ DOMAIN references = 1..M /\ references \in [1..M -> Int]
      /\ \A j \in 1..M : references[j] \in Nat \ {0}
  <2>0. N \in Nat /\ DOMAIN scores = 1..N /\ N % 2 = 1
    BY ListFacts
  <2>1. N \in Nat /\ DOMAIN scores = 1..N /\ N # 0
    <3>. HIDE DEF N
    <3>. QED
      BY <2>0
  <2>2. \A i \in 1..N : scores[i] \in [eligible : BOOLEAN, scalar : Nat]
    BY ListFacts
  <2>3. M \in Nat \ {0} /\ DOMAIN references = 1..M /\ references \in [1..M -> Nat \ {0}]
    OBVIOUS
  <2>. QED
    BY <2>1, <2>2, <2>3
<1>2. /\ s.eligible = all
      /\ s.primary = IF all THEN Median(x) ELSE 0
      /\ s.lower = IF all THEN (lo * Ppm) \div hi - Ppm ELSE -Ppm
  BY <1>1 DEF Summary
<1>3. Ppm \in Nat \ {0}
  BY ScoringFacts
<1>4. (\E i \in 1..N : ~scores[i].eligible) => ~Clears(s) /\ s.primary = 0
  BY <1>2 DEF Clears
<1>5. ASSUME s.eligible
      PROVE  /\ 2 * Cardinality({i \in 1..N : scores[i].scalar >= s.primary}) > N
             /\ 2 * Cardinality({i \in 1..N : scores[i].scalar <= s.primary}) > N
  <2>1. s.primary = Median(x)
    BY <1>2, <1>5
  <2>2. /\ {i \in 1..N : scores[i].scalar >= s.primary} = NoLesser(x, s.primary)
        /\ {i \in 1..N : scores[i].scalar <= s.primary} = NoGreater(x, s.primary)
    BY <1>1 DEF NoLesser, NoGreater
  <2>. HIDE DEF s, x
  <2>3. PICK v : v = s.primary
    OBVIOUS
  <2>4. N \in Nat /\ N % 2 = 1 /\ v = Median(x)
    BY <1>1, <2>1, <2>3
  <2>. HIDE DEF N
  <2>5. /\ 2 * Cardinality(NoLesser(x, v)) > N
        /\ 2 * Cardinality(NoGreater(x, v)) > N
    BY <1>1, <2>4, MedianFacts
  <2>. QED
    BY <2>2, <2>3, <2>5
<1>6. ASSUME Clears(s), NEW i \in 1..N, NEW j \in 1..M
      PROVE  scores[i].scalar > references[j]
  <2>1. all /\ (lo * Ppm) \div hi - Ppm > 0
    <3>1. s.eligible /\ s.lower > 0
      BY <1>6 DEF Clears
    <3>. HIDE DEF s, all, lo, hi
    <3>. QED
      BY <1>2, <3>1
  <2>2. /\ lo \in Nat /\ lo <= x[i]
        /\ hi \in Nat \ {0} /\ references[j] <= hi
    <3>. HIDE DEF x, N, M
    <3>1. (\E k \in 1..N : lo = x[k]) /\ \A k \in 1..N : lo <= x[k]
      BY <1>1, ExtremesOf
    <3>2. (\E k \in 1..M : hi = references[k]) /\ \A k \in 1..M : references[k] <= hi
      BY <1>1, ExtremesOf
    <3>. HIDE DEF lo, hi
    <3>. QED
      BY <1>1, <3>1, <3>2
  <2>. DEFINE q == (lo * Ppm) \div hi
  <2>. HIDE DEF lo, hi
  <2>3. lo * Ppm \in Int
    BY <1>3, <2>2
  <2>4. q \in Int /\ hi * q <= lo * Ppm
    <3>1. /\ q \in Int /\ (lo * Ppm) % hi \in 0..(hi - 1)
          /\ lo * Ppm = hi * q + ((lo * Ppm) % hi)
      BY <2>2, <2>3, Division
    <3>2. hi * q \in Int
      BY <2>2, <3>1
    <3>. HIDE DEF q
    <3>. QED
      BY <2>3, <3>1, <3>2
  <2>5. q >= Ppm + 1
    BY <1>3, <2>1, <2>4
  <2>. HIDE DEF q
  <2>6. hi * (Ppm + 1) <= hi * q /\ hi * (Ppm + 1) = Ppm * hi + hi
    BY <1>3, <2>2, <2>4, <2>5, Scaled
  <2>7. Ppm * hi < Ppm * lo
    <3>1. Ppm * hi \in Int /\ hi * q \in Int /\ Ppm * lo = lo * Ppm
      BY <1>3, <2>2, <2>4
    <3>. QED
      BY <2>2, <2>3, <2>4, <2>6, <3>1
  <2>8. hi < lo
    <3>1. hi \in Int /\ lo \in Int /\ Ppm \in Nat
      BY <1>3, <2>2
    <3>. QED
      BY <2>7, <3>1, ScaledBack
  <2>9. scores[i].scalar \in Nat /\ x[i] = scores[i].scalar /\ references[j] \in Nat
    BY <1>1
  <2>. HIDE DEF x
  <2>. QED
    BY <2>2, <2>8, <2>9
<1>. HIDE DEF s, all
<1>. QED
  BY <1>1, <1>4, <1>5, <1>6 DEF SummaryIsSound, s


-----------------------------------------------------------------------------
(* A quotient rounded up covers its dividend.                              *)
LEMMA CeilingCovers ==
    ASSUME NEW n \in Nat, NEW d \in Nat \ {0}
    PROVE  Ceiling(n, d) \in Int /\ n <= d * Ceiling(n, d)
<1>. DEFINE q == (n + d - 1) \div d
            r == (n + d - 1) % d
<1>1. n + d - 1 \in Int
  OBVIOUS
<1>2. q \in Int /\ r \in 0..(d - 1) /\ n + d - 1 = d * q + r
  BY <1>1, Division
<1>3. Ceiling(n, d) = q
  BY DEF Ceiling
<1>. HIDE DEF q, r
<1>4. d * q \in Int
  BY <1>2
<1>. QED
  BY <1>2, <1>3, <1>4

(* So is the limit derived from a latency.                                 *)
LEMMA DerivedCovers ==
    ASSUME NEW w \in Nat
    PROVE  DeriveSlo(w) \in Int /\ w <= DeriveSlo(w)
<1>1. Ppm \in Nat \ {0} /\ Grain \in Nat \ {0} /\ Headroom \in Nat /\ Headroom >= Ppm
  BY ScoringAssumption
<1>. DEFINE c == Ceiling(w * Headroom, Ppm * Grain)
<1>2. w * Headroom \in Nat /\ Ppm * Grain \in Nat \ {0}
  BY <1>1
<1>3. c \in Int /\ w * Headroom <= (Ppm * Grain) * c
  BY <1>2, CeilingCovers
<1>4. DeriveSlo(w) = c * Grain
  BY DEF DeriveSlo
<1>. HIDE DEF c
<1>5. c * Grain \in Int /\ (Ppm * Grain) * c = Ppm * (c * Grain)
  BY <1>1, <1>3
<1>6. w * Ppm <= w * Headroom /\ w * Ppm = Ppm * w
  BY <1>1, Scaled
<1>7. ~ c * Grain < w
  <2>. DEFINE e == c * Grain
  <2>1. SUFFICES ASSUME e < w PROVE FALSE
    OBVIOUS
  <2>2. e \in Int /\ w * Headroom <= Ppm * e
    BY <1>3, <1>5
  <2>. HIDE DEF e
  <2>3. Ppm * (e + 1) <= Ppm * w /\ Ppm * (e + 1) = Ppm * e + Ppm
    BY <1>1, <2>1, <2>2, Scaled
  <2>4. Ppm * e \in Int /\ Ppm * w \in Int /\ w * Headroom \in Int
    BY <1>1, <2>2
  <2>. QED
    BY <1>1, <1>6, <2>2, <2>3, <2>4
<1>. QED
  BY <1>4, <1>5, <1>7

(* The slowest run of a bucket is no faster than any of its points.        *)
LEMMA WorstCovers ==
    ASSUME NEW bundles \in Seq([Points -> BundlePoints]), NEW i \in 1..Len(bundles), NEW p \in Points,
           NEW m \in {"ttft", "tpot"}
    PROVE  /\ Worst(bundles, p[1], m) \in Nat
           /\ bundles[i][p].p95[m] <= Worst(bundles, p[1], m)
<1>. DEFINE b == p[1]
            N == Len(bundles)
            J == (1..N) \X ({b} \X RatesOf[b])
            f == [j \in J |-> bundles[j[1]][j[2]].p95[m]]
            S == {bundles[k][q].p95[m] : k \in DOMAIN bundles, q \in {b} \X RatesOf[b]}
<1>1. N \in Nat /\ DOMAIN bundles = 1..N /\ \A k \in 1..N : bundles[k] \in [Points -> BundlePoints]
  BY ListFacts
<1>2. b \in Buckets /\ p \in {b} \X RatesOf[b]
  BY DEF Points
<1>3. {b} \X RatesOf[b] \subseteq Points
  BY <1>2 DEF Points
<1>4. IsFiniteSet(J)
  <2>1. IsFiniteSet(RatesOf[b]) /\ IsFiniteSet({b}) /\ IsFiniteSet(1..N)
    <3>1. IsFiniteSet(RatesOf[b])
      BY <1>2, ScoringAssumption
    <3>2. IsFiniteSet({b})
      BY FS_Singleton
    <3>3. IsFiniteSet(1..N)
      BY <1>1, FS_Interval
    <3>. QED
      BY <3>1, <3>2, <3>3
  <2>2. IsFiniteSet({b} \X RatesOf[b])
    BY <2>1, FS_Product
  <2>. QED
    BY <2>1, <2>2, FS_Product
<1>5. \A k \in 1..N, q \in {b} \X RatesOf[b] : bundles[k][q].p95[m] \in Nat
  <2>1. TAKE k \in 1..N, q \in {b} \X RatesOf[b]
  <2>2. bundles[k][q] \in BundlePoints
    BY <1>1, <1>3
  <2>3. bundles[k][q].p95 \in Latency
    BY <2>2, ArePoints
  <2>. QED
    BY <2>3 DEF Latency
<1>6. f \in [J -> Int] /\ J # {} /\ <<i, p>> \in J
  BY <1>2, <1>5
<1>7. S = {f[j] : j \in J}
  <2>1. ASSUME NEW v \in S PROVE v \in {f[j] : j \in J}
    <3>1. PICK k \in 1..N, q \in {b} \X RatesOf[b] : v = bundles[k][q].p95[m]
      BY <1>1
    <3>2. <<k, q>> \in J /\ f[<<k, q>>] = v
      BY <3>1
    <3>. HIDE DEF f, J
    <3>. QED
      BY <3>2
  <2>2. ASSUME NEW j \in J PROVE f[j] \in S
    BY <1>1
  <2>. HIDE DEF f, J, S
  <2>. QED
    BY <2>1, <2>2
<1>8. Worst(bundles, p[1], m) = Max(S)
  BY DEF Worst
<1>9. f[<<i, p>>] = bundles[i][p].p95[m] /\ f[<<i, p>>] \in S
  BY <1>1, <1>2
<1>10. S \subseteq Nat
  BY <1>1, <1>5
<1>. HIDE DEF f, J, S
<1>11. Max(S) \in S /\ \A x \in S : x <= Max(S)
  BY <1>4, <1>6, <1>7, MaxOver
<1>. QED
  BY <1>8, <1>9, <1>10, <1>11


-----------------------------------------------------------------------------
(* The reference of every bucket: the median goodput of the bundles.       *)
Medians(bundles, limit) ==
    [b \in Buckets |-> Median([i \in DOMAIN bundles |->
                                  ClassifiedAt(bundles[i], limit)[Selected(b)].goodput])]

(* An admitted calibration: its limits, its references, and every point    *)
(* met.                                                                    *)
LEMMA CalibratedFacts ==
    ASSUME NEW bundles, Calibrated(bundles).admitted
    PROVE  /\ Calibrated(bundles).limit = DerivedLimits(bundles)
           /\ Calibrated(bundles).reference = Medians(bundles, DerivedLimits(bundles))
           /\ \A i \in DOMAIN bundles : \A p \in Points :
                 /\ ClassifiedAt(bundles[i], DerivedLimits(bundles))[p].completed
                      = ClassifiedAt(bundles[i], DerivedLimits(bundles))[p].prompts
                 /\ ClassifiedAt(bundles[i], DerivedLimits(bundles))[p].attainment >= Attainment
           /\ \A b \in Buckets : Medians(bundles, DerivedLimits(bundles))[b] > 0
<1>. DEFINE limit == DerivedLimits(bundles)
            class == [i \in DOMAIN bundles |-> ClassifiedAt(bundles[i], limit)]
            medians == [b \in Buckets |-> Median([i \in DOMAIN bundles |-> class[i][Selected(b)].goodput])]
            sound == /\ \A i \in DOMAIN bundles : \A p \in Points :
                           /\ bundles[i][p].direct # -1
                           /\ class[i][p].completed = class[i][p].prompts
                           /\ class[i][p].attainment >= Attainment
                     /\ \A b \in Buckets : medians[b] > 0
<1>1. Calibrated(bundles) = [admitted |-> sound, limit |-> limit, reference |-> medians]
  BY DEF Calibrated
<1>. HIDE DEF limit
<1>2. medians = Medians(bundles, limit)
  <2>1. \A b \in Buckets : [i \in DOMAIN bundles |-> class[i][Selected(b)].goodput]
                             = [i \in DOMAIN bundles |-> ClassifiedAt(bundles[i], limit)[Selected(b)].goodput]
    OBVIOUS
  <2>. QED
    BY <2>1 DEF Medians
<1>3. Calibrated(bundles).limit = limit /\ Calibrated(bundles).reference = medians
      /\ Calibrated(bundles).admitted = sound
  <2>. HIDE DEF sound, medians
  <2>. QED
    BY <1>1
<1>4. sound
  <2>. HIDE DEF sound, medians
  <2>. QED
    BY <1>3
<1>5. /\ \A i \in DOMAIN bundles : \A p \in Points :
            /\ ClassifiedAt(bundles[i], limit)[p].completed = ClassifiedAt(bundles[i], limit)[p].prompts
            /\ ClassifiedAt(bundles[i], limit)[p].attainment >= Attainment
      /\ \A b \in Buckets : medians[b] > 0
  <2>. HIDE DEF medians
  <2>. QED
    BY <1>4
<1>. HIDE DEF medians
<1>. QED
  BY <1>2, <1>3, <1>5 DEF limit

(* The bundles of an admitted calibration: every request was answered and  *)
(* the figures of every point are numbers.                                 *)
LEMMA AdmittedBundles ==
    ASSUME NEW bundles \in Seq([Points -> BundlePoints]), NEW i \in 1..Len(bundles), NEW p \in Points,
           NEW limit, NEW r, r = ClassifiedAt(bundles[i], limit)[p], r.completed = r.prompts
    PROVE  /\ IsPoint(bundles[i][p])
           /\ Completed(bundles[i][p]) = DOMAIN bundles[i][p].requests
           /\ r.goodput \in Nat
<1>. DEFINE x == bundles[i][p]
            n == Cardinality(GoodAt(x, limit[p[1]]))
<1>1. IsPoint(x)
  <2>1. bundles[i] \in [Points -> BundlePoints]
    BY ListFacts
  <2>2. bundles[i][p] \in BundlePoints
    BY <2>1
  <2>. QED
    BY <2>2, ArePoints
<1>2. r = Classified(x, n)
  BY DEF ClassifiedAt
<1>. HIDE DEF x
<1>3. n \in Nat
  BY <1>1, PointFacts
<1>. HIDE DEF n
<1>4. r.completed = Cardinality(Completed(x)) /\ r.prompts = Len(x.requests)
  BY <1>2 DEF Classified
<1>5. Completed(x) = 1..Len(x.requests) /\ Len(x.requests) \in Nat \ {0} /\ DOMAIN x.requests = 1..Len(x.requests)
  BY <1>1, <1>4, PointFacts
<1>6. Completed(x) # {}
  <2>1. 1 \in 1..Len(x.requests)
    BY <1>5
  <2>. QED
    BY <1>5, <2>1
<1>7. r.goodput \in Nat
  BY <1>1, <1>2, <1>3, <1>6, ClassifiedFacts
<1>. QED
  BY <1>1, <1>5, <1>7 DEF x

(* Scoring the bundles of an admitted calibration gives its own scalars.   *)
LEMMA CalibrationReproduced ==
    ASSUME NEW bundles \in Seq([Points -> BundlePoints]), Len(bundles) % 2 = 1
    PROVE  CalibrationIsReproduced(bundles)
<1>. DEFINE N == Len(bundles)
            limit == DerivedLimits(bundles)
            R(i) == ClassifiedAt(bundles[i], limit)
            goodputs(b) == [i \in 1..N |-> R(i)[Selected(b)].goodput]
            reference == Medians(bundles, limit)
            ratios(i) == [b \in 1..Len(RatesOf) |-> Ratio(R(i)[Selected(b)].goodput, reference[b])]
            scalars == [i \in 1..N |-> Mean(ratios(i))]
            score(i) == ScoreRepetition(reference, R(i), "reference")
            scores == [i \in 1..N |-> score(i)]
<1>1. SUFFICES ASSUME Calibrated(bundles).admitted PROVE CalibrationIsReproduced(bundles)
  BY DEF CalibrationIsReproduced
<1>2. N \in Nat \ {0} /\ DOMAIN bundles = 1..N /\ N % 2 = 1
  <2>1. N \in Nat /\ DOMAIN bundles = 1..N /\ N % 2 = 1
    BY ListFacts
  <2>. HIDE DEF N
  <2>. QED
    BY <2>1
<1>3. /\ Calibrated(bundles).limit = limit
      /\ Calibrated(bundles).reference = reference
      /\ \A i \in 1..N : \A p \in Points : R(i)[p].completed = R(i)[p].prompts /\ R(i)[p].attainment >= Attainment
      /\ \A b \in Buckets : reference[b] > 0
  BY <1>1, <1>2, CalibratedFacts
<1>4. \A i \in 1..N : \A p \in Points : /\ IsPoint(bundles[i][p])
                                        /\ Completed(bundles[i][p]) = DOMAIN bundles[i][p].requests
                                        /\ R(i)[p].goodput \in Nat
  BY <1>3, AdmittedBundles
<1>5. \A b \in Buckets : reference[b] \in Nat \ {0}
  <2>1. TAKE b \in Buckets
  <2>2. goodputs(b) \in [1..N -> Int] /\ \A i \in 1..N : goodputs(b)[i] \in Nat
    BY <1>4, BucketFacts
  <2>3. reference[b] = Median(goodputs(b))
    BY <1>2 DEF Medians
  <2>4. PICK i \in 1..N : reference[b] = goodputs(b)[i]
    <3>. HIDE DEF goodputs, reference, N
    <3>. QED
      BY <1>2, <2>2, <2>3, MedianIsMember
  <2>5. reference[b] > 0
    BY <1>3
  <2>. HIDE DEF goodputs, reference, R
  <2>. QED
    BY <2>2, <2>4, <2>5
<1>6. ASSUME NEW i \in 1..N, NEW p \in Points
      PROVE  {n \in DOMAIN bundles[i][p].requests :
                 \A m \in {"ttft", "tpot"} : bundles[i][p].requests[n][m] <= bundles[i][p].p95[m]}
               \subseteq GoodAt(bundles[i][p], limit[p[1]])
  <2>. DEFINE x == bundles[i][p]
              l == limit[p[1]]
              w(m) == Worst(bundles, p[1], m)
  <2>1. p[1] \in Buckets
    BY BucketFacts
  <2>2. l.ttft = DeriveSlo(w("ttft")) /\ l.tpot = DeriveSlo(w("tpot"))
    BY <2>1 DEF DerivedLimits
  <2>3. \A m \in {"ttft", "tpot"} : w(m) \in Nat /\ x.p95[m] <= w(m)
    BY WorstCovers
  <2>4. \A m \in {"ttft", "tpot"} : DeriveSlo(w(m)) \in Int /\ w(m) <= DeriveSlo(w(m))
    BY <2>3, DerivedCovers
  <2>5. x.p95 \in Latency /\ IsPoint(x)
    <3>1. bundles[i] \in [Points -> BundlePoints]
      BY ListFacts
    <3>. QED
      BY <3>1, ArePoints
  <2>6. Completed(x) = DOMAIN x.requests /\ \A n \in DOMAIN x.requests : x.requests[n] \in Latency
    BY <1>4, <2>5, PointFacts
  <2>. HIDE DEF x, l, w
  <2>7. ASSUME NEW n \in DOMAIN x.requests, \A m \in {"ttft", "tpot"} : x.requests[n][m] <= x.p95[m]
        PROVE  n \in GoodAt(x, l)
    <3>1. x.requests[n] \in Latency
      BY <2>6
    <3>2. /\ x.requests[n].ttft \in Nat /\ x.requests[n].tpot \in Nat
          /\ x.p95.ttft \in Nat /\ x.p95.tpot \in Nat
      BY <2>5, <3>1 DEF Latency
    <3>3. x.requests[n].ttft <= x.p95.ttft /\ x.requests[n].tpot <= x.p95.tpot
      BY <2>7
    <3>4. x.requests[n].ttft <= l.ttft
      BY <2>2, <2>3, <2>4, <3>2, <3>3
    <3>5. x.requests[n].tpot <= l.tpot
      BY <2>2, <2>3, <2>4, <3>2, <3>3
    <3>. QED
      BY <2>6, <3>4, <3>5 DEF GoodAt
  <2>8. {n \in DOMAIN x.requests : \A m \in {"ttft", "tpot"} : x.requests[n][m] <= x.p95[m]}
          \subseteq GoodAt(x, l)
    BY <2>7
  <2>. QED
    BY <2>8 DEF x, l
<1>7. ASSUME NEW i \in 1..N
      PROVE  /\ ratios(i) \in [1..Len(RatesOf) -> Nat]
             /\ Mean(ratios(i)) \in Nat
             /\ score(i) = [eligible |-> TRUE, scalar |-> Mean(ratios(i))]
  <2>1. /\ \A b \in Buckets : reference[b] \in Nat \ {0}
        /\ \A b \in Buckets : R(i)[Selected(b)].goodput \in Nat
    BY <1>4, <1>5, BucketFacts
  <2>2. \A p \in Points : PointAdmitted(R(i)[p], "reference")
    BY <1>3 DEF PointAdmitted
  <2>3. /\ ratios(i) \in [1..Len(RatesOf) -> Nat]
        /\ score(i).eligible = \A p \in Points : PointAdmitted(R(i)[p], "reference")
        /\ score(i).eligible => score(i).scalar = Mean(ratios(i))
        /\ score(i) = [eligible |-> score(i).eligible, scalar |-> score(i).scalar]
    <3>. HIDE DEF R, reference
    <3>. QED
      BY <2>1, ScoreFacts
  <2>4. score(i).eligible = TRUE
    <3>. HIDE DEF R, reference, score, ratios
    <3>. QED
      BY <2>2, <2>3
  <2>5. Mean(ratios(i)) \in Nat
    <3>. HIDE DEF ratios
    <3>. QED
      BY <2>3, MeanFacts, BucketFacts
  <2>. HIDE DEF R, reference, score, ratios
  <2>. QED
    BY <2>3, <2>4, <2>5
<1>8. RepetitionScalars(bundles) = scalars
  <2>1. \A i \in 1..N : ratios(i) = [b \in Buckets |-> Ratio(R(i)[Selected(b)].goodput, reference[b])]
    BY BucketFacts
  <2>2. RepetitionScalars(bundles) = [i \in 1..N |-> Mean([b \in Buckets |-> Ratio(R(i)[Selected(b)].goodput, reference[b])])]
    <3>. HIDE DEF reference, limit
    <3>. QED
      BY <1>2, <1>3 DEF RepetitionScalars
  <2>. HIDE DEF reference, limit, R, ratios
  <2>. QED
    BY <2>1, <2>2
<1>9. ASSUME Promotable(scalars) PROVE ~Clears(Summary(scores, scalars))
  <2>. DEFINE s == Summary(scores, scalars)
              lo == Min(ToSet(scalars))
              hi == Max(ToSet(scalars))
  <2>1. /\ DOMAIN scores = 1..N /\ \A i \in 1..N : scores[i].eligible
        /\ [i \in DOMAIN scores |-> scores[i].scalar] = scalars
    <3>. HIDE DEF ratios, score
    <3>. QED
      BY <1>7
  <2>2. s.lower = (lo * Ppm) \div hi - Ppm
    <3>. HIDE DEF scores, scalars
    <3>. QED
      BY <2>1 DEF Summary
  <2>3. scalars \in [1..N -> Int] /\ \A i \in 1..N : scalars[i] \in Nat
    <3>1. \A i \in 1..N : Mean(ratios(i)) \in Nat
      BY <1>7
    <3>. HIDE DEF ratios
    <3>. QED
      BY <3>1
  <2>4. \A i \in 1..N : scalars[i] >= 1
    <3>. HIDE DEF ratios
    <3>. QED
      BY <1>9 DEF Promotable
  <2>5. lo \in Nat /\ hi \in Nat \ {0} /\ lo <= hi
    <3>. HIDE DEF scalars, N
    <3>1. (\E k \in 1..N : lo = scalars[k]) /\ \A k \in 1..N : lo <= scalars[k]
      BY <1>2, <2>3, ExtremesOf
    <3>2. (\E k \in 1..N : hi = scalars[k]) /\ \A k \in 1..N : scalars[k] <= hi
      BY <1>2, <2>3, ExtremesOf
    <3>. HIDE DEF lo, hi
    <3>. QED
      BY <1>2, <2>3, <2>4, <3>1, <3>2
  <2>. DEFINE q == (lo * Ppm) \div hi
  <2>. HIDE DEF lo, hi, scores, scalars
  <2>6. Ppm \in Nat \ {0} /\ lo * Ppm \in Int
    BY <2>5, ScoringFacts
  <2>7. q \in Int /\ hi * q <= lo * Ppm
    <3>1. /\ q \in Int /\ (lo * Ppm) % hi \in 0..(hi - 1)
          /\ lo * Ppm = hi * q + ((lo * Ppm) % hi)
      BY <2>5, <2>6, Division
    <3>2. hi * q \in Int
      BY <2>5, <3>1
    <3>. HIDE DEF q
    <3>. QED
      BY <2>6, <3>1, <3>2
  <2>. HIDE DEF q
  <2>8. lo * Ppm <= hi * Ppm
    BY <2>5, <2>6, Scaled
  <2>9. ~ q > Ppm
    <3>1. SUFFICES ASSUME q >= Ppm + 1 PROVE FALSE
      BY <2>6, <2>7
    <3>2. hi * (Ppm + 1) <= hi * q /\ hi * (Ppm + 1) = hi * Ppm + hi
      BY <2>5, <2>6, <2>7, <3>1, Scaled
    <3>3. hi * q \in Int /\ hi * Ppm \in Int
      BY <2>5, <2>6, <2>7
    <3>. QED
      BY <2>5, <2>6, <2>7, <2>8, <3>2, <3>3
  <2>10. s.lower = q - Ppm
    BY <2>2 DEF q
  <2>. HIDE DEF s
  <2>11. ~Clears(s)
    BY <2>6, <2>7, <2>9, <2>10 DEF Clears
  <2>. QED
    BY <2>11 DEF s
<1>10. [i \in DOMAIN bundles |->
           ScoreRepetition(Calibrated(bundles).reference,
                           ClassifiedAt(bundles[i], Calibrated(bundles).limit), "reference")] = scores
  <2>. HIDE DEF reference, limit
  <2>. QED
    BY <1>2, <1>3
<1>11. \A i \in 1..N : scores[i] = [eligible |-> TRUE, scalar |-> scalars[i]]
  <2>. HIDE DEF ratios, score
  <2>. QED
    BY <1>7
<1>. HIDE DEF limit, reference, R, ratios, score, scores, scalars
<1>. QED
  BY <1>2, <1>3, <1>6, <1>8, <1>9, <1>10, <1>11 DEF CalibrationIsReproduced


-----------------------------------------------------------------------------
(* A replay that is admitted and fast stays so when it is replaced by one  *)
(* that is no worse.                                                       *)
NoWorse(a, b) ==
    /\ a.prompts = b.prompts /\ a.completed = b.completed
    /\ a.attainment \in Int /\ b.attainment \in Int /\ a.attainment <= b.attainment
    /\ a.goodput \in Nat /\ b.goodput \in Nat /\ a.goodput <= b.goodput
    /\ a.direct => b.direct

(* A better repetition scores no less.                                     *)
LEMMA ScoreGrows ==
    ASSUME NEW reference, \A b \in Buckets : reference[b] \in Nat \ {0},
           NEW old, NEW new, \A p \in Points : NoWorse(old[p], new[p])
    PROVE  LET before == ScoreRepetition(reference, old, "candidate")
               after  == ScoreRepetition(reference, new, "candidate")
           IN  /\ before.eligible => after.eligible
               /\ before.scalar \in Nat /\ after.scalar \in Nat
               /\ before.scalar <= after.scalar
<1>. DEFINE before == ScoreRepetition(reference, old, "candidate")
            after  == ScoreRepetition(reference, new, "candidate")
            x == [b \in 1..Len(RatesOf) |-> Ratio(old[Selected(b)].goodput, reference[b])]
            y == [b \in 1..Len(RatesOf) |-> Ratio(new[Selected(b)].goodput, reference[b])]
<1>1. \A b \in Buckets : /\ old[Selected(b)].goodput \in Nat /\ new[Selected(b)].goodput \in Nat
                         /\ old[Selected(b)].goodput <= new[Selected(b)].goodput
  BY BucketFacts DEF NoWorse
<1>2. /\ x \in [1..Len(RatesOf) -> Nat]
      /\ before.eligible = \A p \in Points : PointAdmitted(old[p], "candidate")
      /\ before.eligible => before.scalar = Mean(x)
      /\ ~before.eligible => before.scalar = 0
      /\ before.scalar \in Nat
  BY <1>1, ScoreFacts
<1>3. /\ y \in [1..Len(RatesOf) -> Nat]
      /\ after.eligible = \A p \in Points : PointAdmitted(new[p], "candidate")
      /\ after.eligible => after.scalar = Mean(y)
      /\ after.scalar \in Nat
  BY <1>1, ScoreFacts
<1>4. ASSUME NEW p \in Points, PointAdmitted(old[p], "candidate")
      PROVE  PointAdmitted(new[p], "candidate")
  <2>1. NoWorse(old[p], new[p])
    OBVIOUS
  <2>2. Attainment \in Int
    BY BucketFacts
  <2>3. /\ new[p].completed = new[p].prompts /\ new[p].attainment >= Attainment
    BY <1>4, <2>1, <2>2 DEF NoWorse, PointAdmitted
  <2>4. new[p].direct
    BY <1>4, <2>1, Zenon DEF NoWorse, PointAdmitted
  <2>. QED
    BY <2>3, <2>4, Zenon DEF PointAdmitted
<1>5. \A b \in 1..Len(RatesOf) : x[b] <= y[b]
  <2>1. TAKE b \in 1..Len(RatesOf)
  <2>2. PICK u, v, d : u = old[Selected(b)].goodput /\ v = new[Selected(b)].goodput /\ d = reference[b]
    OBVIOUS
  <2>3. u \in Int /\ v \in Int /\ u <= v /\ d \in Nat \ {0}
    BY <1>1, <2>2, BucketFacts
  <2>4. Ratio(u, d) <= Ratio(v, d)
    BY <2>3, RatioFacts
  <2>. QED
    BY <2>2, <2>4
<1>. HIDE DEF before, after, x, y
<1>6. Mean(x) <= Mean(y)
  BY <1>2, <1>3, <1>5, MeanFacts, BucketFacts
<1>7. before.eligible => after.eligible
  <2>1. (\A p \in Points : PointAdmitted(old[p], "candidate")) => \A p \in Points : PointAdmitted(new[p], "candidate")
    BY <1>4
  <2>. QED
    BY <1>2, <1>3, <2>1
<1>8. before.scalar <= after.scalar
  <2>1. CASE before.eligible
    BY <1>2, <1>3, <1>6, <1>7, <2>1
  <2>2. CASE ~before.eligible
    BY <1>2, <1>3, <2>2
  <2>. QED
    BY <2>1, <2>2
<1>. QED
  BY <1>2, <1>3, <1>7, <1>8 DEF before, after

(* A pair that is better at one point of the candidate.                    *)
LEMMA PairGrows ==
    ASSUME NEW limit, NEW points \in [Roles -> [Points -> RunPoints]], PairMeasurable(limit, points),
           NEW better \in [Roles -> [Points -> RunPoints]],
           better["reference"] = points["reference"],
           \A p \in Points : /\ Replayable(better["candidate"][p], limit[p[1]])
                             /\ NoWorse(Replay(points["candidate"][p], limit[p[1]]),
                                        Replay(better["candidate"][p], limit[p[1]]))
    PROVE  /\ Pair(limit, points).eligible => Pair(limit, better).eligible
           /\ Pair(limit, points).scores["candidate"].scalar <= Pair(limit, better).scores["candidate"].scalar
<1>. DEFINE own(ps) == [b \in Buckets |-> Replay(ps["reference"][Selected(b)], limit[b]).goodput]
            R(ps, role) == [p \in Points |-> Replay(ps[role][p], limit[p[1]])]
            S(ps, role) == ScoreRepetition(own(ps), R(ps, role), "candidate")
<1>1. DOMAIN points = Roles /\ DOMAIN better = Roles /\ Roles = {"reference", "candidate"}
  BY DEF Roles
<1>2. PairMeasurable(limit, better)
  BY <1>1 DEF PairMeasurable
<1>3. own(better) = own(points) /\ R(better, "reference") = R(points, "reference")
  OBVIOUS
<1>4. \A b \in Buckets : own(points)[b] \in Nat \ {0}
  BY <1>1, MeasurableFacts
<1>5. /\ Pair(limit, points).eligible = \A role \in Roles : S(points, role).eligible
      /\ \A role \in Roles : Pair(limit, points).scores[role] = S(points, role)
  BY PairFacts
<1>6. /\ Pair(limit, better).eligible = \A role \in Roles : S(better, role).eligible
      /\ \A role \in Roles : Pair(limit, better).scores[role] = S(better, role)
  BY <1>2, PairFacts
<1>7. \A p \in Points : NoWorse(R(points, "candidate")[p], R(better, "candidate")[p])
  OBVIOUS
<1>. HIDE DEF own, R
<1>8. /\ S(points, "candidate").eligible => S(better, "candidate").eligible
      /\ S(points, "candidate").scalar <= S(better, "candidate").scalar
  BY <1>3, <1>4, <1>7, ScoreGrows
<1>9. S(points, "reference") = S(better, "reference")
  BY <1>3
<1>. HIDE DEF S
<1>. QED
  BY <1>1, <1>5, <1>6, <1>8, <1>9

(* One request answered sooner, where the server's count was exact.        *)
LEMMA FasterFacts ==
    ASSUME NEW old \in RunPoints, NEW n \in DOMAIN old.requests, NEW limit \in Limits,
           old.requests[n].ttft > 1, old.direct = Cardinality(GoodAt(old, limit)),
           NEW new, new = Sooner(old, n, limit)
    PROVE  /\ new \in RunPoints
           /\ Replayable(old, limit) => /\ Replayable(new, limit)
                                        /\ NoWorse(Replay(old, limit), Replay(new, limit))
<1>. DEFINE N == Len(old.requests)
            t == old.requests[n].ttft
<1>0. PICK next : /\ next = [old EXCEPT !.requests[n].ttft = @ - 1]
                  /\ new = [next EXCEPT !.direct = Cardinality(GoodAt(next, limit))]
  BY DEF Sooner
<1>1. /\ IsPoint(old) /\ N \in Nat \ {0} /\ DOMAIN old.requests = 1..N
      /\ \A i \in 1..N : old.requests[i] \in Latency
  BY ArePoints, PointFacts
<1>2. old.requests[n] \in Latency /\ t \in Nat /\ t - 1 \in Nat /\ t - 1 > 0
  BY <1>1 DEF Latency
<1>3. /\ next.requests = [old.requests EXCEPT ![n].ttft = @ - 1]
      /\ next.seconds = old.seconds /\ next.direct = old.direct
  BY <1>0 DEF RunPoints
<1>4. new.requests = next.requests /\ new.seconds = old.seconds
      /\ new.direct = Cardinality(GoodAt(next, limit))
  BY <1>0, <1>3 DEF RunPoints
<1>5. /\ DOMAIN new.requests = 1..N
      /\ new.requests[n] = [ttft |-> t - 1, tpot |-> old.requests[n].tpot]
      /\ \A i \in 1..N : i # n => new.requests[i] = old.requests[i]
  BY <1>1, <1>2, <1>3, <1>4 DEF Latency
<1>6. \A i \in 1..N : new.requests[i] \in Latency
  <2>1. [ttft |-> t - 1, tpot |-> old.requests[n].tpot] \in Latency
    BY <1>2 DEF Latency
  <2>. HIDE DEF t
  <2>. QED
    BY <1>1, <1>5, <2>1
<1>7. new.requests \in Seq(Latency) /\ Len(new.requests) = N /\ new.requests # <<>>
  <2>1. new.requests = [i \in 1..N |-> new.requests[i]]
    BY <1>1, <1>3, <1>4
  <2>2. new.requests \in [1..N -> Latency]
    BY <1>6, <2>1
  <2>. HIDE DEF N
  <2>. QED
    BY <1>1, <2>2
<1>8. GoodAt(new, limit) = GoodAt(next, limit) /\ Completed(new) = Completed(next)
  BY <1>4 DEF GoodAt, Completed
<1>9. Completed(new) = Completed(old)
  BY <1>1, <1>2, <1>5 DEF Completed
<1>10. GoodAt(old, limit) \subseteq GoodAt(new, limit)
  <2>1. limit.ttft \in Nat
    BY DEF Limits
  <2>2. t <= limit.ttft => t - 1 <= limit.ttft
    BY <1>2, <2>1
  <2>3. Completed(old) \subseteq 1..N
    BY <1>1, PointFacts
  <2>4. new.requests[n].ttft = t - 1 /\ new.requests[n].tpot = old.requests[n].tpot
    BY <1>5
  <2>5. ASSUME NEW i \in GoodAt(old, limit) PROVE i \in GoodAt(new, limit)
    <3>1. /\ i \in Completed(new) /\ i \in 1..N
          /\ old.requests[i].ttft <= limit.ttft /\ old.requests[i].tpot <= limit.tpot
      BY <1>9, <2>3 DEF GoodAt
    <3>2. new.requests[i].ttft <= limit.ttft /\ new.requests[i].tpot <= limit.tpot
      BY <1>5, <2>2, <2>4, <3>1
    <3>. QED
      BY <3>1, <3>2 DEF GoodAt
  <2>. QED
    BY <2>5
<1>11. /\ IsFiniteSet(GoodAt(next, limit))
       /\ Cardinality(GoodAt(next, limit)) \in Nat /\ Cardinality(GoodAt(old, limit)) \in Nat
       /\ Cardinality(GoodAt(next, limit)) <= Cardinality(Completed(old))
       /\ Cardinality(GoodAt(old, limit)) <= Cardinality(GoodAt(next, limit))
  <2>1. /\ IsFiniteSet(Completed(old)) /\ Cardinality(GoodAt(old, limit)) \in Nat
        /\ GoodAt(next, limit) \subseteq Completed(old)
    BY <1>1, <1>8, <1>9, PointFacts DEF GoodAt
  <2>2. /\ IsFiniteSet(GoodAt(next, limit))
        /\ Cardinality(GoodAt(next, limit)) <= Cardinality(Completed(old))
    BY <2>1, FS_Subset
  <2>. QED
    BY <1>8, <1>10, <2>1, <2>2, FS_Subset, FS_CardinalityType
<1>12. new \in RunPoints /\ IsPoint(new)
  <2>1. new = [requests |-> new.requests, direct |-> new.direct, seconds |-> new.seconds]
    <3>1. next \in [requests : {next.requests}, direct : {next.direct}, seconds : {next.seconds}]
      BY <1>0 DEF RunPoints
    <3>. QED
      BY <1>0, <3>1
  <2>2. new.seconds \in Nat \ {0} /\ new.direct \in Nat \cup {-1}
    BY <1>4, <1>11 DEF RunPoints
  <2>3. new \in [requests : Seq(Latency), direct : Nat \cup {-1}, seconds : Nat \ {0}]
    BY <1>7, <2>1, <2>2
  <2>4. new \in RunPoints
    BY <1>7, <2>3 DEF RunPoints
  <2>. QED
    BY <2>4, ArePoints
<1>13. ASSUME Replayable(old, limit) PROVE Replayable(new, limit)
  <2>1. Completed(new) # {}
    BY <1>9, <1>13 DEF Replayable
  <2>2. new.direct # -1 /\ new.direct = Cardinality(GoodAt(new, limit))
        /\ new.direct \in 0..Cardinality(Completed(new))
    <3>1. Cardinality(Completed(old)) \in Nat
      BY <1>1, PointFacts
    <3>. QED
      BY <1>4, <1>8, <1>9, <1>11, <3>1
  <2>. QED
    BY <2>1, <2>2 DEF Replayable
<1>14. ASSUME Replayable(old, limit) PROVE NoWorse(Replay(old, limit), Replay(new, limit))
  <2>. DEFINE a == Cardinality(GoodAt(old, limit))
              b == Cardinality(GoodAt(next, limit))
              k == Cardinality(Completed(old))
  <2>1. Completed(old) # {} /\ Completed(new) # {}
    BY <1>9, <1>14 DEF Replayable
  <2>2. a \in Nat /\ b \in Nat /\ a <= b /\ k \in Nat \ {0} /\ old.seconds \in Nat \ {0}
    BY <1>1, <1>11, <2>1, PointFacts DEF IsPoint
  <2>3. Replay(old, limit) = Classified(old, a) /\ Replay(new, limit) = Classified(new, b)
        /\ old.direct # -1 /\ new.direct # -1
    BY <1>4, <2>2 DEF Replay
  <2>. HIDE DEF a, b
  <2>4. /\ Classified(old, a).prompts = N
        /\ Classified(old, a).completed = k
        /\ Classified(old, a).attainment = Ratio(a, k)
        /\ Classified(old, a).goodput = Ratio(a, old.seconds)
        /\ Classified(old, a).attainment \in Int /\ Classified(old, a).goodput \in Nat
    BY <1>1, <2>1, <2>2, ClassifiedFacts
  <2>5. /\ Classified(new, b).prompts = N
        /\ Classified(new, b).completed = k
        /\ Classified(new, b).attainment = Ratio(b, k)
        /\ Classified(new, b).goodput = Ratio(b, old.seconds)
        /\ Classified(new, b).attainment \in Int /\ Classified(new, b).goodput \in Nat
        /\ Classified(new, b).direct
    <3>1. /\ Classified(new, b).prompts = Len(new.requests)
          /\ Classified(new, b).completed = Cardinality(Completed(new))
          /\ Classified(new, b).attainment = Ratio(b, Cardinality(Completed(new)))
          /\ Classified(new, b).goodput = Ratio(b, new.seconds)
          /\ Classified(new, b).attainment \in Int /\ Classified(new, b).goodput \in Nat
          /\ Classified(new, b).direct <=> new.direct # -1
      BY <1>12, <2>1, <2>2, ClassifiedFacts
    <3>2. Classified(new, b).direct
      BY <2>3, <3>1, Zenon
    <3>3. Len(new.requests) = N /\ Completed(new) = Completed(old) /\ new.seconds = old.seconds
      BY <1>4, <1>7, <1>9
    <3>. QED
      BY <3>1, <3>2, <3>3
  <2>6. Ratio(a, k) <= Ratio(b, k) /\ Ratio(a, old.seconds) <= Ratio(b, old.seconds)
    <3>1. a \in Int /\ b \in Int
      BY <2>2
    <3>2. PICK c \in Nat \ {0} : c = k
      BY <2>2
    <3>3. PICK d \in Nat \ {0} : d = old.seconds
      BY <2>2
    <3>4. Ratio(a, c) <= Ratio(b, c) /\ Ratio(a, d) <= Ratio(b, d)
      BY <2>2, <3>1, RatioFacts
    <3>. QED
      BY <3>2, <3>3, <3>4
  <2>. HIDE DEF k, N
  <2>. QED
    BY <2>3, <2>4, <2>5, <2>6 DEF NoWorse
<1>. QED
  BY <1>12, <1>13, <1>14


-----------------------------------------------------------------------------
(* The studies are measurements the code takes, and stay so.               *)
ScoresInv == input \in Studies

(* The kind of a study says which set it is from.                          *)
LEMMA KindFacts ==
    ASSUME NEW x \in Studies
    PROVE  /\ x.kind = "quality"     => x \in QualityStudies
           /\ x.kind = "pair"        => x \in PairStudies
           /\ x.kind = "replay"      => x \in ReplayStudies
           /\ x.kind = "summary"     => x \in SummaryStudies
           /\ x.kind = "calibration" => x \in CalibrationStudies
<1>1. /\ x \in QualityStudies => x.kind = "quality"
      /\ x \in PairStudies => x.kind = "pair"
      /\ x \in ReplayStudies => x.kind = "replay"
  BY DEF QualityStudies, PairStudies, ReplayStudies
<1>2. /\ x \in SummaryStudies => x.kind = "summary"
      /\ x \in CalibrationStudies => x.kind = "calibration"
  BY DEF SummaryStudies, CalibrationStudies
<1>3. \/ x \in QualityStudies \/ x \in PairStudies \/ x \in ReplayStudies
      \/ x \in SummaryStudies \/ x \in CalibrationStudies
  BY DEF Studies
<1>. QED
  BY <1>1, <1>2, <1>3

(* A step of a quality study: more cases pass.                             *)
LEMMA QualityStep ==
    ASSUME ScoresInv, NEW r \in 1..Rounds, NEW f \in Families, NEW i \in 1..Len(CasesOf[f]),
           CasePasses(r, CasesOf[f][i])
    PROVE  /\ ScoresInv' /\ input.kind = "quality" /\ input'.kind = "quality"
           /\ input'.refs = input.refs /\ PassesAll(input.cands, input'.cands)
<1>. DEFINE c == CasesOf[f][i]
<1>1. /\ input.kind = "quality"
      /\ input' = [input EXCEPT !.cands[r] = @ \cup {c}]
  BY DEF CasePasses
<1>2. input \in QualityStudies
  BY <1>1, KindFacts DEF ScoresInv
<1>3. c \in CasePool
  BY DEF CasePool
<1>. HIDE DEF c
<1>4. /\ input.cands \in [1..Rounds -> SUBSET CasePool] /\ input.refs \in [1..Rounds -> SUBSET CasePool]
  BY <1>2 DEF QualityStudies
<1>5. /\ input'.refs = input.refs /\ input'.kind = "quality"
      /\ input'.cands = [input.cands EXCEPT ![r] = @ \cup {c}]
      /\ input' = [kind |-> "quality", refs |-> input.refs, cands |-> input'.cands]
  BY <1>1, <1>2 DEF QualityStudies
<1>6. input'.cands \in [1..Rounds -> SUBSET CasePool] /\ PassesAll(input.cands, input'.cands)
  BY <1>3, <1>4, <1>5 DEF PassesAll
<1>7. input' \in QualityStudies
  BY <1>4, <1>5, <1>6 DEF QualityStudies
<1>. QED
  BY <1>1, <1>5, <1>6, <1>7 DEF ScoresInv, Studies

(* And a pair whose candidate answers one request sooner.                  *)
LEMMA PairStep ==
    ASSUME ScoresInv, NEW p \in Points, NEW n \in DOMAIN input.points["candidate"][p].requests,
           RequestIsFaster(p, n)
    PROVE  /\ ScoresInv' /\ input.kind = "pair" /\ input'.kind = "pair"
           /\ input.points \in [Roles -> [Points -> RunPoints]]
           /\ input'.points \in [Roles -> [Points -> RunPoints]]
           /\ input'.limits = input.limits
           /\ input'.points["reference"] = input.points["reference"]
           /\ PairMeasurable(input.limits, input.points) =>
                 \A q \in Points :
                    /\ Replayable(input'.points["candidate"][q], input.limits[q[1]])
                    /\ NoWorse(Replay(input.points["candidate"][q], input.limits[q[1]]),
                               Replay(input'.points["candidate"][q], input.limits[q[1]]))
<1>1. PICK old, limit, new :
         /\ old = input.points["candidate"][p] /\ limit = input.limits[p[1]]
         /\ new = Sooner(old, n, limit)
  OBVIOUS
<1>2. /\ input.kind = "pair"
      /\ old.requests[n].ttft > 1 /\ old.direct = Cardinality(GoodAt(old, limit))
      /\ input' = [input EXCEPT !.points["candidate"][p] = new]
  BY <1>1 DEF RequestIsFaster
<1>3. input \in PairStudies
  BY <1>2, KindFacts DEF ScoresInv
<1>4. /\ input.points \in [Roles -> [Points -> RunPoints]] /\ input.limits \in [Buckets -> Limits]
      /\ "candidate" \in Roles /\ "reference" \in Roles
  BY <1>3 DEF PairStudies, Roles
<1>5. old \in RunPoints /\ limit \in Limits /\ n \in DOMAIN old.requests
  BY <1>1, <1>4, BucketFacts
<1>6. /\ new \in RunPoints
      /\ Replayable(old, limit) => Replayable(new, limit) /\ NoWorse(Replay(old, limit), Replay(new, limit))
  BY <1>1, <1>2, <1>5, FasterFacts
<1>7. /\ input'.limits = input.limits /\ input'.kind = "pair"
      /\ input'.points = [input.points EXCEPT !["candidate"][p] = new]
      /\ input' = [kind |-> "pair", limits |-> input.limits, points |-> input'.points]
  BY <1>2, <1>3 DEF PairStudies
<1>8. /\ input'.points \in [Roles -> [Points -> RunPoints]]
      /\ input'.points["reference"] = input.points["reference"]
      /\ input'.points["candidate"][p] = new
      /\ \A q \in Points : q # p => input'.points["candidate"][q] = input.points["candidate"][q]
  BY <1>4, <1>6, <1>7
<1>9. ScoresInv'
  <2>1. input' \in PairStudies
    BY <1>4, <1>7, <1>8 DEF PairStudies
  <2>. QED
    BY <2>1 DEF ScoresInv, Studies
<1>10. ASSUME PairMeasurable(input.limits, input.points), NEW q \in Points
       PROVE  /\ Replayable(input'.points["candidate"][q], input.limits[q[1]])
              /\ NoWorse(Replay(input.points["candidate"][q], input.limits[q[1]]),
                         Replay(input'.points["candidate"][q], input.limits[q[1]]))
  <2>1. Replayable(input.points["candidate"][q], input.limits[q[1]])
    BY <1>4, <1>10 DEF PairMeasurable
  <2>2. CASE q = p
    BY <1>1, <1>6, <1>8, <2>1, <2>2
  <2>3. CASE q # p
    <3>1. PICK r : r = Replay(input.points["candidate"][q], input.limits[q[1]])
      OBVIOUS
    <3>2. input.points["candidate"][q] \in RunPoints
      BY <1>4
    <3>3. r.goodput \in Nat /\ r.attainment \in Int
      BY <2>1, <3>1, <3>2, ArePoints, ReplayFacts
    <3>4. NoWorse(r, r)
      BY <3>3 DEF NoWorse
    <3>5. input'.points["candidate"][q] = input.points["candidate"][q]
      BY <1>8, <2>3
    <3>. QED
      BY <2>1, <3>1, <3>4, <3>5
  <2>. QED
    BY <2>2, <2>3
<1>. QED
  BY <1>2, <1>4, <1>7, <1>8, <1>9, <1>10

(* The studies of the constant are of these kinds.                         *)
LEMMA ScoresInvInit == ScoresInit => ScoresInv
  BY InputsAssumption DEF ScoresInit, ScoresInv

(* A step keeps a study one.                                               *)
LEMMA ScoresInvStep ==
    ASSUME ScoresInv, [ScoresNext]_input
    PROVE  ScoresInv'
<1>1. CASE UNCHANGED input
  BY <1>1 DEF ScoresInv
<1>2. ASSUME NEW r \in 1..Rounds, NEW f \in Families, NEW i \in 1..Len(CasesOf[f]),
             CasePasses(r, CasesOf[f][i])
      PROVE  ScoresInv'
  BY <1>2, QualityStep
<1>3. ASSUME NEW p \in Points, NEW n \in DOMAIN input.points["candidate"][p].requests, RequestIsFaster(p, n)
      PROVE  ScoresInv'
  BY <1>3, PairStep
<1>. QED
  BY <1>1, <1>2, <1>3 DEF ScoresNext

(* What holds of every kind holds of the study at hand.                    *)
LEMMA StudiesAreSound == ScoresInv => ScoresAreSound
<1>1. SUFFICES ASSUME ScoresInv PROVE ScoresAreSound
  OBVIOUS
<1>2. input \in Studies
  BY <1>1 DEF ScoresInv
<1>3. input.kind = "quality" => QualityIsSound(input.refs, input.cands)
  BY QualitySound
<1>4. input.kind = "replay" => ReplayIsSafe(input.point, input.limit)
  <2>1. input \in ReplayStudies => input.point \in RunPoints /\ input.limit \in Limits
    BY DEF ReplayStudies
  <2>. QED
    BY <1>2, <2>1, KindFacts, ReplaySafe
<1>5. input.kind = "pair" => PairIsSound(input.limits, input.points)
  <2>1. input \in PairStudies => input.points \in [Roles -> [Points -> RunPoints]]
    BY DEF PairStudies
  <2>. QED
    BY <1>2, <2>1, KindFacts, PairSound
<1>6. input.kind = "summary" => SummaryIsSound(input.scores, input.references)
  <2>1. input \in SummaryStudies =>
           /\ input.scores \in Seq([eligible : BOOLEAN, scalar : Nat]) /\ Len(input.scores) % 2 = 1
           /\ input.references \in Seq(Nat \ {0}) /\ input.references # <<>>
    BY DEF SummaryStudies
  <2>. QED
    BY <1>2, <2>1, KindFacts, SummarySound
<1>7. input.kind = "calibration" => CalibrationIsReproduced(input.bundles)
  <2>1. input \in CalibrationStudies =>
           input.bundles \in Seq([Points -> BundlePoints]) /\ Len(input.bundles) % 2 = 1
    BY DEF CalibrationStudies
  <2>. QED
    BY <1>2, <2>1, KindFacts, CalibrationReproduced
<1>. QED
  BY <1>3, <1>4, <1>5, <1>6, <1>7 DEF ScoresAreSound

(* Every step leaves the candidate no worse off.                           *)
LEMMA StepLosesNothing ==
    ASSUME ScoresInv, ScoresNext
    PROVE  LosesNothing
<1>1. ASSUME NEW r \in 1..Rounds, NEW f \in Families, NEW i \in 1..Len(CasesOf[f]),
             CasePasses(r, CasesOf[f][i])
      PROVE  LosesNothing
  <2>1. /\ input.kind = "quality" /\ input'.refs = input.refs
        /\ PassesAll(input.cands, input'.cands)
    BY <1>1, QualityStep
  <2>2. /\ QualityEligible(input.refs, input.cands) => QualityEligible(input.refs, input'.cands)
        /\ AggregateDelta(input.refs, input.cands) <= AggregateDelta(input.refs, input'.cands)
        /\ AggregateDelta(input.refs, input.cands) \in Int /\ AggregateDelta(input.refs, input'.cands) \in Int
    BY <2>1, QualityGrows, AggregateFacts
  <2>. QED
    BY <2>1, <2>2 DEF LosesNothing
<1>2. ASSUME NEW p \in Points, NEW n \in DOMAIN input.points["candidate"][p].requests, RequestIsFaster(p, n)
      PROVE  LosesNothing
  <2>1. /\ input.kind = "pair" /\ input'.limits = input.limits
        /\ input.points \in [Roles -> [Points -> RunPoints]]
        /\ input'.points \in [Roles -> [Points -> RunPoints]]
        /\ input'.points["reference"] = input.points["reference"]
        /\ PairMeasurable(input.limits, input.points) =>
              \A q \in Points :
                 /\ Replayable(input'.points["candidate"][q], input.limits[q[1]])
                 /\ NoWorse(Replay(input.points["candidate"][q], input.limits[q[1]]),
                            Replay(input'.points["candidate"][q], input.limits[q[1]]))
    BY <1>2, PairStep
  <2>2. ASSUME PairMeasurable(input.limits, input.points)
        PROVE  /\ Pair(input.limits, input.points).eligible => Pair(input.limits, input'.points).eligible
               /\ Pair(input.limits, input.points).scores["candidate"].scalar
                     <= Pair(input.limits, input'.points).scores["candidate"].scalar
    BY <2>1, <2>2, PairGrows
  <2>. QED
    BY <2>1, <2>2 DEF LosesNothing
<1>. QED
  BY <1>1, <1>2 DEF ScoresNext

(* Every study is one the code could be given.                             *)
THEOREM StudiesStayTyped == ScoresSpec => []ScoresInv
<1>1. ScoresInv /\ [ScoresNext]_input => ScoresInv'
  BY ScoresInvStep
<1>. QED
  BY <1>1, ScoresInvInit, PTL DEF ScoresSpec

(* Verdicts mean what they say, for all measurements.                      *)
THEOREM ScoresStaySound == ScoresSpec => []ScoresAreSound
  BY StudiesStayTyped, StudiesAreSound, PTL

(* Doing better never costs a candidate its verdict or its score.          *)
THEOREM BetterNeverLoses == ScoresSpec => BetterScoresNoLess
<1>1. ScoresInv /\ [ScoresNext]_input => [LosesNothing]_input
  BY StepLosesNothing
<1>. QED
  BY <1>1, StudiesStayTyped, PTL DEF ScoresSpec, BetterScoresNoLess
=============================================================================
