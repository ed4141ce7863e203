-------------------------- MODULE MeasurementLanes --------------------------
(***************************************************************************)
(* What one GPU call of the serving campaign measures in each of its three *)
(* lanes, what the collector makes of it, and what the compute backend is  *)
(* told (reference/modal_vllm.py, the evidence resolvers of                *)
(* modal_vllm_compute.py, modal_vllm_quality_compute.py,                   *)
(* modal_vllm_correctness_compute.py, modal_vllm_performance_compute.py,   *)
(* and modal_serving_evaluator.py).                                        *)
(*                                                                         *)
(* A trial is what happens inside the container: the cases whose request   *)
(* or benchmark fails, those whose output cannot be read, whether the      *)
(* canary after the measurement answers, whether the GPU is the pinned one *)
(* before and after, and whether the scorer finds the complete results     *)
(* good enough.                                                            *)
(***************************************************************************)
EXTENDS Naturals, FiniteSets

CONSTANT Cases  \* the points of the schedule or the cases of the workload, in order

ASSUME CasesAssumption == Cases \in SUBSET Nat /\ IsFiniteSet(Cases) /\ Cases # {}

Lanes == {"performance", "quality", "correctness"}

Trials == [failed : SUBSET Cases, garbled : SUBSET Cases, canary : BOOLEAN,
           host : {"pinned", "other", "changes"}, good : BOOLEAN]

-----------------------------------------------------------------------------
(* Inside the container.  The benchmark runs its points in order and stops  *)
(* at the first that fails; quality and correctness send every request.     *)
RunBenchmarkPoints(trial) ==
  {c \in Cases : \A d \in trial.failed : c < d}

RunQualityRequests(trial) == Cases \ trial.failed

\* The quality function refuses another GPU before it starts the model; the
\* benchmark function measures on it and leaves the refusal to the collector.
QualityEnvironmentRejected(trial) == trial.host = "other"

\* An error of the measurement, or of the canary that follows it.
Untroubled(trial) == trial.failed = {} /\ trial.canary

BenchmarkReceipt(trial) ==
  [ok |-> Untroubled(trial), raw |-> RunBenchmarkPoints(trial), host |-> trial.host]

QualityReceipt(trial) ==
  IF QualityEnvironmentRejected(trial)
    THEN [ok |-> FALSE, raw |-> {}, host |-> trial.host]
    ELSE [ok |-> Untroubled(trial), raw |-> RunQualityRequests(trial), host |-> trial.host]

-----------------------------------------------------------------------------
(* The normalised document a collector commits: whether the call itself     *)
(* failed, whether anything was found wrong with its evidence, whether a    *)
(* score was computed, whether that score is eligible, and "valid".         *)
PerformanceDocument(trial) ==
  LET run    == BenchmarkReceipt(trial)
      parsed == run.raw \ trial.garbled
      wrong  == parsed # run.raw \/ run.host # "pinned"
      scored == parsed = Cases
  IN  [failure |-> FALSE, wrong |-> wrong, scored |-> scored,
       eligible |-> scored /\ trial.good,
       valid |-> run.ok /\ ~wrong /\ scored /\ trial.good]

QualityDocument(trial) ==
  LET run    == QualityReceipt(trial)
      parsed == run.raw \ trial.garbled
      wrong  == run.host # "pinned" \/ run.raw # Cases \/ parsed # run.raw
      scored == parsed = Cases
  IN  [failure |-> FALSE, wrong |-> wrong, scored |-> scored,
       eligible |-> scored /\ trial.good,
       valid |-> run.ok /\ ~wrong /\ scored]

\* Mutant of ScoreCorrectnessResponses: unreadable responses are passed over.
ScoreReadableResponses(trial, raw) ==
  [scored |-> raw = Cases, eligible |-> raw = Cases /\ trial.good]

\* A response that cannot be read is a case that fails, not an error.
ScoreCorrectnessResponses(trial, raw) ==
  [scored |-> raw = Cases, eligible |-> raw = Cases /\ trial.good /\ trial.garbled = {}]

CorrectnessDocument(trial) ==
  LET run   == QualityReceipt(trial)
      wrong == run.host # "pinned" \/ run.raw # Cases
      score == ScoreCorrectnessResponses(trial, run.raw)
  IN  [failure |-> FALSE, wrong |-> wrong, scored |-> score.scored,
       eligible |-> score.eligible,
       valid |-> run.ok /\ ~wrong /\ score.scored]

Document(lane, trial) ==
  CASE lane = "performance" -> PerformanceDocument(trial)
    [] lane = "quality"     -> QualityDocument(trial)
    [] lane = "correctness" -> CorrectnessDocument(trial)

\* The document of an invocation that failed: no receipt, no score.
FailureDocument ==
  [failure |-> TRUE, wrong |-> FALSE, scored |-> FALSE, eligible |-> FALSE, valid |-> FALSE]

-----------------------------------------------------------------------------
(* What the resolver of a lane tells the compute backend of a committed     *)
(* document: complete, failed, or an exception.                             *)
Complete(eligible) == [status |-> "complete", eligible |-> eligible]
Failed == [status |-> "failed", eligible |-> FALSE]
Raised == [status |-> "raised", eligible |-> FALSE]

\* Mutant of PerformanceStatus: errors found on collection are not looked at.
StatusOfScore(doc) == IF doc.scored THEN "complete" ELSE "failed"

PerformanceStatus(doc) ==
  LET measured == ~doc.failure /\ doc.scored
  IN  IF ~measured /\ (~doc.failure \/ doc.scored) THEN "raised"
      ELSE IF measured /\ ~doc.wrong THEN "complete" ELSE "failed"

\* The public evaluator reads "valid" of the document itself.
\* The hidden evaluator is given the score's own verdict.
HiddenPerformance(doc) ==
  CASE PerformanceStatus(doc) = "raised"   -> Raised
    [] PerformanceStatus(doc) = "failed"   -> Failed
    [] PerformanceStatus(doc) = "complete" -> Complete(doc.eligible)

QualityOutcome(doc) ==
  IF doc.valid THEN (IF doc.scored THEN Complete(doc.eligible) ELSE Raised)
  ELSE IF doc.wrong THEN Failed
  ELSE IF doc.scored \/ ~doc.failure THEN Raised ELSE Failed

CorrectnessOutcome(doc) ==
  IF doc.valid THEN (IF doc.scored THEN Complete(doc.eligible) ELSE Raised)
  ELSE IF doc.scored THEN Raised ELSE Failed

\* What the hidden evaluation is told of a committed document.
Told(lane, doc) ==
  CASE lane = "performance" -> HiddenPerformance(doc)
    [] lane = "quality"     -> QualityOutcome(doc)
    [] lane = "correctness" -> CorrectnessOutcome(doc)
=============================================================================
