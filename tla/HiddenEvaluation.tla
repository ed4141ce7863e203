-------------------------- MODULE HiddenEvaluation --------------------------
(***************************************************************************)
(* The evaluators behind one hidden evaluation: SplitScopeEvaluator over    *)
(* CompositeHiddenEvaluator over a correctness run, PairedQualitySeries-    *)
(* Evaluator and PerformanceSeriesEvaluator, each with a database of        *)
(* receipts, over the compute backend that executes the runs.               *)
(*                                                                         *)
(* One evaluation key, whose requests have been sealed for the selected     *)
(* candidate.  Any number of threads and processes may run                  *)
(* hidden_evaluate() and resolve(), one of them with another candidate, and *)
(* a process may die at every step: its memory of the seconds used is lost, *)
(* the receipts and the executions stay.  An identifier of a receipt is the *)
(* digest of all it binds, so here a receipt is its row.                    *)
(***************************************************************************)
EXTENDS ServingScores, RosterTotals

CONSTANTS EvalCallers,       \* threads that evaluate the key
          Entries,           \* candidates they may hold
          Sealed,            \* the candidate whose requests were prepared
          Stock,             \* the reference candidate
          RoleOrders,        \* role_order_by_repetition
          PerformanceRuns,   \* repetitions of the performance series
          Measurements(_),       \* slot -> the measurements its run may give
          StockScalars,      \* reference_repetition_scalar_ppm
          MaxEvalFaults      \* bound on deadlines, failed runs and deaths

Nobody  == "nobody"
Unknown == -1
NoValue == [eligible |-> FALSE, passed |-> {}, scalar |-> Unknown, seconds |-> 0]

(* Every repetition of the quality series runs both roles, in either order; *)
(* a measurement takes whole seconds.                                       *)
ASSUME EvaluationAssumption ==
    /\ Nobody \notin Entries \cup {Sealed, Stock}
    /\ RoleOrders \in Seq({<<"reference", "candidate">>, <<"candidate", "reference">>})
    /\ Len(RoleOrders) = Rounds /\ Rounds > 0
    /\ PerformanceRuns \in Nat \ {0} /\ MaxEvalFaults \in Nat

VARIABLES backend,      \* the executions of the compute backend
          leaf,      \* compute_candidate_receipts, compute_quality_receipts
          rows,      \* the receipts of the series, the composite and the split
          usedRun, usedRow,  \* _used_authorities of the live process
          evals,     \* the calls under way
          told,      \* the results that have been resolved
          evalFaults

evalVars == <<backend, leaf, rows, usedRun, usedRow, evals, told, evalFaults>>

Slot(phase, role, n) == [phase |-> phase, role |-> role, rep |-> n]

(* prepare_hidden_requests() of the two series and of the composite: what   *)
(* may be executed, in the order of execution.                              *)
QualitySlots ==
    FlattenSeq([r \in DOMAIN RoleOrders |->
        [i \in DOMAIN RoleOrders[r] |-> Slot("quality", RoleOrders[r][i], r)]])

PerformanceSlots == [r \in 1..PerformanceRuns |-> Slot("performance", "candidate", r)]

RunSlots == <<Slot("correctness", "candidate", 1)>> \o QualitySlots \o PerformanceSlots
Size   == Len(RunSlots)
Middle == 1 + Len(QualitySlots)
Place(slot) == CHOOSE i \in 1..Size : RunSlots[i] = slot

ASSUME MeasurementAssumption ==
    \A i \in 1..Size : \A v \in Measurements(RunSlots[i]) : v # NoValue /\ v.seconds \in Nat

(* The runs of a phase, which are those of its series; all for the others.  *)
FirstOf(n) == CASE n = "quality" -> 2 [] n = "performance" -> Middle + 1 [] OTHER -> 1
LastOf(n)  == CASE n = "correctness" -> 1 [] n = "quality" -> Middle [] OTHER -> Size
PlacesOf(n) == FirstOf(n)..LastOf(n)
CountOf(n)  == LastOf(n) - FirstOf(n) + 1

(* The candidate in the request of a run: _run_reservation() of the quality *)
(* series names the reference's artifact for its role.                      *)
CandidateFor(slot, x) == IF slot.role = "reference" THEN Stock ELSE x
Planned(i) == CandidateFor(RunSlots[i], Sealed)

NoRow   == [candidate |-> Nobody, result |-> [eligible |-> FALSE, units |-> 0]]
Series  == {"quality", "performance", "composite", "split"}
Resting == [candidate |-> Nobody, at |-> 0]

EvalInit ==
    /\ backend = [i \in 1..Size |-> [status |-> "none", candidate |-> Nobody, value |-> NoValue]]
    /\ leaf = [i \in 1..Size |-> Nobody]
    /\ rows = [n \in Series |-> NoRow]
    /\ usedRun = [i \in 1..Size |-> Unknown] /\ usedRow = [n \in Series |-> Unknown]
    /\ evals = [c \in EvalCallers |-> Resting]
    /\ told = {}
    /\ evalFaults = 0
-----------------------------------------------------------------------------
(* hidden_evaluate(): a series its runs and then its own receipt, the       *)
(* composite phase after phase and then its receipt, the split its own.     *)
Run(i)  == [do |-> "run", place |-> i, node |-> "none"]
Bind(n) == [do |-> "bind", place |-> 0, node |-> n]

RunsOf(phase) == [k \in 1..CountOf(phase) |-> Run(FirstOf(phase) + k - 1)]

QualityProgram     == Append(RunsOf("quality"), Bind("quality"))
PerformanceProgram == Append(RunsOf("performance"), Bind("performance"))
CompositeProgram   == RunsOf("correctness") \o QualityProgram \o PerformanceProgram
                        \o <<Bind("composite")>>
Program            == Append(CompositeProgram, Bind("split"))

Now(c)     == Program[evals[c].at]
Doing(c, do) == evals[c].at \in DOMAIN Program /\ Now(c).do = do
Binding(c, n) == Doing(c, "bind") /\ Now(c).node = n
Entry(c)   == evals[c].candidate
Finishes(c)    == evals' = [evals EXCEPT ![c] = Resting]

(* evaluate_quality_series(), of all the runs a series may have, once.      *)
Passes == [1..Rounds -> UNION {{v.passed : v \in Measurements(s)} : s \in ToSet(QualitySlots)}]

Decision ==
    [runs \in [reference : Passes, candidate : Passes] |->
        [eligible |-> QualityEligible(runs.reference, runs.candidate),
         units    |-> AggregateDelta(runs.reference, runs.candidate)]]

(* Mutant: the first run of every repetition is taken for the reference's.  *)
QualityByOrder ==
    Decision[[reference |-> [r \in 1..Rounds |-> backend[2 * r].value.passed],
              candidate |-> [r \in 1..Rounds |-> backend[2 * r + 1].value.passed]]]

(* _decision() finds the runs by role and repetition; _result() takes the   *)
(* verdict and the aggregate from it.                                       *)
Quality ==
    LET run(role, r) == backend[Place(Slot("quality", role, r))].value.passed
    IN  Decision[[reference |-> [r \in 1..Rounds |-> run("reference", r)],
                  candidate |-> [r \in 1..Rounds |-> run("candidate", r)]]]

PerformanceResult ==
    LET value(r) == backend[Place(Slot("performance", "candidate", r))].value
        s == Summary([r \in 1..PerformanceRuns |->
                        [eligible |-> value(r).eligible, scalar |-> value(r).scalar]], StockScalars)
    IN  [eligible |-> s.eligible, units |-> s.primary]

(* _combine(): the units of the performance phase, if every phase allows.   *)
Combine ==
    LET results  == {rows["quality"].result, rows["performance"].result}
        eligible == backend[1].value.eligible /\ \A r \in results : r.eligible
    IN  [eligible |-> eligible,
         units    |-> IF eligible THEN rows["performance"].result.units ELSE 0]

(* _row_values(): the candidate and the result; the split keeps no result.  *)
QualityRow(x)     == [candidate |-> x, result |-> Quality]
PerformanceRow(x) == [candidate |-> x, result |-> PerformanceResult]
CompositeRow(x)   == [candidate |-> x, result |-> Combine]
SplitRow(x)       == [NoRow EXCEPT !.candidate = x]

(* used_seconds() of the parts, which the process must have resolved.       *)
SeriesUsed(n, used) == Total(CountOf(n), [k \in 1..CountOf(n) |-> used[FirstOf(n) + k - 1]])

(* Mutant: the runs of the performance series are added once more.          *)
CompositeUsedAgain(run, row) == run + row["quality"] + row["performance"] + row["performance"]

CompositeUsed(run, row) == run + row["quality"] + row["performance"]
-----------------------------------------------------------------------------
EvaluateEntry(c, x) ==
    /\ evals[c].at = 0
    /\ evals' = [evals EXCEPT ![c] = [candidate |-> x, at |-> 1]]
    /\ UNCHANGED <<backend, leaf, rows, usedRun, usedRow, told, evalFaults>>

(* _request(): what the run is submitted for.  The quality backend is given *)
(* the role, whose candidate it is.                                         *)
Request(c)        == Entry(c)
QualityRequest(c) == CandidateFor(RunSlots[Now(c).place], Entry(c))

Wants(c) == IF RunSlots[Now(c).place].phase = "quality" THEN QualityRequest(c) ELSE Request(c)

(* submit(): an execution key stands for one request, and only a planned    *)
(* request is dispatched.                                                   *)
SubmitSlot(c) ==
    /\ Doing(c, "run")
    /\ LET i == Now(c).place
       IN  /\ backend[i].status = "none" /\ Planned(i) = Wants(c)
           /\ backend' = [backend EXCEPT ![i].status = "running", ![i].candidate = Wants(c)]
    /\ UNCHANGED <<leaf, rows, usedRun, usedRow, evals, told, evalFaults>>

Completes(i, v) ==
    /\ backend[i].status = "running"
    /\ backend' = [backend EXCEPT ![i].status = "complete", ![i].value = v]
    /\ UNCHANGED <<leaf, rows, usedRun, usedRow, evals, told, evalFaults>>

RunFails(i) ==
    /\ backend[i].status = "running"
    /\ evalFaults < MaxEvalFaults /\ evalFaults' = evalFaults + 1
    /\ backend' = [backend EXCEPT ![i].status = "failed"]
    /\ UNCHANGED <<leaf, rows, usedRun, usedRow, evals, told>>

(* validate_evidence() after resolve() of the backend.                      *)
CandidateEvidence(i, x) ==
    /\ RunSlots[i].phase # "quality"
    /\ backend[i].status = "complete" /\ backend[i].candidate = x

QualityEvidence(i, x) ==
    /\ RunSlots[i].phase = "quality"
    /\ backend[i].status = "complete" /\ backend[i].candidate = x

(* The receipt of a run is inserted, or the stored one must be the same,    *)
(* and the series resolves it at once.                                      *)
BindsRun(c) ==
    LET i == Now(c).place
    IN  /\ leaf[i] \in {Nobody, Wants(c)}
        /\ leaf' = [leaf EXCEPT ![i] = Wants(c)]
        /\ usedRun' = [usedRun EXCEPT ![i] = backend[i].value.seconds]
        /\ evals' = [evals EXCEPT ![c].at = @ + 1]
        /\ UNCHANGED <<backend, rows, usedRow, told, evalFaults>>

(* Mutant: the evaluator goes on whatever the execution has come to.        *)
RunReturnsAnyhow(c) ==
    /\ Doing(c, "run")
    /\ LET run == backend[Now(c).place]
       IN  run.status \in {"complete", "failed"} /\ run.candidate = Wants(c)
    /\ BindsRun(c)

(* Mutant: the execution key is taken for the whole request.                *)
RunReturnsByKey(c) ==
    /\ Doing(c, "run")
    /\ LET i == Now(c).place
       IN  /\ backend[i].status = "complete" /\ RunSlots[i].phase # "quality"
           /\ leaf' = [leaf EXCEPT ![i] = Wants(c)]
           /\ usedRun' = [usedRun EXCEPT ![i] = backend[i].value.seconds]
           /\ evals' = [evals EXCEPT ![c].at = @ + 1]
    /\ UNCHANGED <<backend, rows, usedRow, told, evalFaults>>

(* ComputeCandidateEvaluator.hidden_evaluate() on a complete execution.     *)
RunReturns(c) ==
    /\ Doing(c, "run")
    /\ CandidateEvidence(Now(c).place, Wants(c))
    /\ BindsRun(c)

(* ComputeQualityRepetitionBackend.evaluate() on a complete execution.      *)
QualityReturns(c) ==
    /\ Doing(c, "run")
    /\ QualityEvidence(Now(c).place, Wants(c))
    /\ BindsRun(c)

(* The run failed, or another candidate was evaluated under the key.        *)
RunRaises(c) ==
    /\ Doing(c, "run")
    /\ LET i == Now(c).place
       IN  IF backend[i].status = "none" THEN Planned(i) # Wants(c)
           ELSE \/ backend[i].status = "failed"
                \/ backend[i].candidate # Wants(c)
                \/ leaf[i] \notin {Nobody, Wants(c)}
    /\ Finishes(c)
    /\ UNCHANGED <<backend, leaf, rows, usedRun, usedRow, told, evalFaults>>

(* EvaluationInProgress at the caller's deadline.                           *)
GivesUp(c) ==
    /\ Doing(c, "run")
    /\ backend[Now(c).place].status = "running"
    /\ evalFaults < MaxEvalFaults /\ evalFaults' = evalFaults + 1
    /\ Finishes(c)
    /\ UNCHANGED <<backend, leaf, rows, usedRun, usedRow, told>>

(* The receipt is inserted, or the stored one must be the same ("changed    *)
(* across retry"); the series and the composite remember the seconds.       *)
Inserts(c, n, row, seconds) ==
    /\ Binding(c, n)
    /\ IF rows[n] \in {NoRow, row}
       THEN /\ rows' = [rows EXCEPT ![n] = row]
            /\ usedRow' = [usedRow EXCEPT ![n] = seconds]
            /\ evals' = [evals EXCEPT ![c].at = @ + 1]
       ELSE Finishes(c) /\ UNCHANGED <<rows, usedRow>>
    /\ UNCHANGED <<backend, leaf, usedRun, told, evalFaults>>

BindQuality(c) ==
    Inserts(c, "quality", QualityRow(Entry(c)), SeriesUsed("quality", usedRun))

BindPerformance(c) ==
    Inserts(c, "performance", PerformanceRow(Entry(c)), SeriesUsed("performance", usedRun))

BindComposite(c) ==
    Inserts(c, "composite", CompositeRow(Entry(c)), CompositeUsed(usedRun[1], usedRow))

BindSplit(c) == Inserts(c, "split", SplitRow(Entry(c)), usedRow["split"])

(* resolve() goes from the split down to the executions: every stored       *)
(* result is derived again and compared.                                    *)
RunResolves(i, x)     == leaf[i] = x /\ CandidateEvidence(i, x)
QualityRunResolves(i, x) == leaf[i] = x /\ QualityEvidence(i, x)

QualityResolves(x) ==
    /\ \A i \in PlacesOf("quality") : QualityRunResolves(i, CandidateFor(RunSlots[i], x))
    /\ rows["quality"] = QualityRow(x)

PerformanceResolves(x) ==
    /\ \A i \in PlacesOf("performance") : RunResolves(i, x)
    /\ rows["performance"] = PerformanceRow(x)

CompositeResolves(x) ==
    /\ RunResolves(1, x) /\ QualityResolves(x) /\ PerformanceResolves(x)
    /\ rows["composite"] = CompositeRow(x)

Resolves(x) == rows["split"] = SplitRow(x) /\ CompositeResolves(x)

(* Every part leaves its seconds, whether the process had them or not.      *)
Resolve(c, x) ==
    /\ \/ evals[c].at = Len(Program) + 1 /\ Entry(c) = x
       \/ evals[c].at = 0
    /\ Resolves(x)
    /\ LET run == [i \in 1..Size |-> backend[i].value.seconds]
           row == [n \in {"quality", "performance"} |-> SeriesUsed(n, run)]
           all == CompositeUsed(run[1], row)
       IN  /\ usedRun' = run
           /\ usedRow' = [n \in Series |-> IF n \in DOMAIN row THEN row[n] ELSE all]
           /\ told' = told \cup {[eligible |-> rows["composite"].result.eligible,
                                  units    |-> rows["composite"].result.units,
                                  used     |-> all]}
    /\ Finishes(c)
    /\ UNCHANGED <<backend, leaf, rows, evalFaults>>

EvaluatorDies ==
    /\ evalFaults < MaxEvalFaults /\ evalFaults' = evalFaults + 1
    /\ evals' = [c \in EvalCallers |-> Resting]
    /\ usedRun' = [i \in 1..Size |-> Unknown] /\ usedRow' = [n \in Series |-> Unknown]
    /\ UNCHANGED <<backend, leaf, rows, told>>

Proceeds(c) ==
    \/ SubmitSlot(c) \/ RunReturns(c) \/ QualityReturns(c) \/ RunRaises(c)
    \/ BindQuality(c) \/ BindPerformance(c) \/ BindComposite(c) \/ BindSplit(c)
    \/ Entry(c) # Nobody /\ Resolve(c, Entry(c))

SomeRunCompletes == \E i \in 1..Size : \E v \in Measurements(RunSlots[i]) : Completes(i, v)

EvalNext ==
    \/ \E c \in EvalCallers :
          \/ \E x \in Entries : EvaluateEntry(c, x) \/ Resolve(c, x)
          \/ Proceeds(c) \/ GivesUp(c)
    \/ SomeRunCompletes
    \/ \E i \in 1..Size : RunFails(i)
    \/ EvaluatorDies

EvalSpec == EvalInit /\ [][EvalNext]_evalVars
-----------------------------------------------------------------------------
(* The backend executes the sealed plan in its order: a run starts only     *)
(* when every run before it has been measured, so that no GPU is paid for   *)
(* after a failure, and with the candidate that was planned.                *)
PlanIsFollowed ==
    \A i \in 1..Size : backend[i].status # "none" =>
        /\ backend[i].candidate = Planned(i)
        /\ \A j \in 1..i - 1 : backend[j].status = "complete"

(* Once a process knows the seconds of a receipt they are those of its runs,*)
(* each counted once, whichever of the calls resolved them and when.        *)
UsedIsMeasured ==
    /\ \A i \in 1..Size : usedRun[i] # Unknown => usedRun[i] = backend[i].value.seconds
    /\ \A n \in Series : usedRow[n] # Unknown =>
          usedRow[n] = SeriesUsed(n, [i \in 1..Size |-> backend[i].value.seconds])

(* A receipt stands on complete runs of the one candidate it names, bound   *)
(* to it one by one, and on the receipts of its parts: another candidate    *)
(* evaluated under the same key takes nothing over.                         *)
ReceiptsStand ==
    \A n \in Series : rows[n] # NoRow =>
        /\ \A i \in 1..LastOf(n) :
              /\ backend[i].status = "complete"
              /\ {leaf[i], backend[i].candidate} = {CandidateFor(RunSlots[i], rows[n].candidate)}
        /\ n \in {"composite", "split"} =>
              {rows[m].candidate : m \in {"quality", "performance", "composite"}} = {rows[n].candidate}

Contract == INSTANCE EvaluationContract WITH
    Plan <- RunSlots, Absent <- NoValue, ReferenceScalars <- StockScalars, Values <- Measurements,
    Accepts <- QualityEligible, Summarise <- Summary,
    measured <- [i \in 1..Size |-> backend[i].value]

(* All of it implements one verdict that follows from the measurements.     *)
ImplementsEvaluation == Contract!Spec
=============================================================================
