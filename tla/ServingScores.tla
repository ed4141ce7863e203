--------------------------- MODULE ServingScores ---------------------------
(***************************************************************************)
(* The arithmetic that turns raw measurements into verdicts: the goodput of *)
(* a benchmark point, the score of a repetition and of a candidate, the     *)
(* comparison with the reference on the same GPU, the paired quality rule   *)
(* with its bootstrap, and the derivation of the latency limits from        *)
(* reference runs.  All of it is integers in millionths, rounded half to    *)
(* even.                                                                    *)
(*                                                                         *)
(* A quality run is the set of the cases that passed; a benchmark point is  *)
(* the latencies of its requests.  Left out: the parsing of the documents,  *)
(* the aggregates the server reports about itself and the pseudo-random     *)
(* generator of the bootstrap, whose draws are the constant Draws.          *)
(***************************************************************************)
EXTENDS Integers, Sequences, SequencesExt, FiniteSetsExt, RosterTotals

CONSTANTS Ppm,             \* one million
          CasesOf,         \* the families in order, each with its cases, sorted
          Rounds,          \* quality repetitions
          Draws,           \* resample -> family -> the indices it draws
          TailIndex,       \* how far from the low end the lower bound is
          AggregateMargin, FamilyMargin,
          RatesOf,         \* the buckets in order, each with its request rates
          Attainment,      \* minimum_joint_attainment_ppm
          Guard,           \* legacy_classification_guard_us
          Headroom,        \* slo_headroom_ppm
          Grain            \* step of the derived limits

Families == 1..Len(CasesOf)
Buckets  == 1..Len(RatesOf)
Points   == UNION {{b} \X RatesOf[b] : b \in Buckets}
Selected(b) == <<b, Max(RatesOf[b])>>

(* What the policy, the plan and the profiles refuse to load without.       *)
ASSUME ScoringAssumption ==
    /\ {Ppm, Rounds, Guard, Grain} \subseteq Nat \ {0}
    /\ {AggregateMargin, FamilyMargin, Headroom} \subseteq Nat
    /\ Attainment \in 1..Ppm /\ Headroom >= Ppm
    /\ Len(CasesOf) \in Nat \ {0}
    /\ \A f \in Families : Len(CasesOf[f]) \in Nat \ {0}
    /\ Len(Draws) \in Nat \ {0} /\ TailIndex \in 0..(Len(Draws) - 1)
    /\ \A d \in 1..Len(Draws) : \A f \in Families :
          Draws[d][f] \in [1..Len(CasesOf[f]) -> 1..Len(CasesOf[f])]
    /\ Len(RatesOf) \in Nat \ {0}
    /\ \A b \in Buckets : RatesOf[b] # {} /\ RatesOf[b] \subseteq Nat /\ IsFiniteSet(RatesOf[b])

(* sorted(): at place k is the value that fewer than k are less than and at *)
(* least k are not greater than.                                            *)
Ascending(s) ==
    [k \in DOMAIN s |-> CHOOSE v \in ToSet(s) :
        /\ Cardinality({i \in DOMAIN s : s[i] < v}) < k
        /\ Cardinality({i \in DOMAIN s : s[i] <= v}) >= k]

Distance(a, b) == IF a < b THEN b - a ELSE a - b

(* quantize(ROUND_HALF_EVEN) of n / d.                                      *)
Rounded(n, d) ==
    LET q == n \div d
        r == n % d
    IN  IF 2 * r > d \/ (2 * r = d /\ q % 2 = 1) THEN q + 1 ELSE q

Ratio(n, d) == Rounded(n * Ppm, d)
Mean(s) == Rounded(Total(Len(s), s), Len(s))
Median(s) == Ascending(s)[Len(s) \div 2 + 1]
-----------------------------------------------------------------------------
(* Mutant: the difference is taken the wrong way round.                     *)
LossOf(refs, cands, c) ==
    Total(Rounds, [r \in 1..Rounds |->
        (IF c \in refs[r] THEN 1 ELSE 0) - (IF c \in cands[r] THEN 1 ELSE 0)])

(* evaluate_quality_series(): what the candidate gains over the reference.  *)
Gain(refs, cands, c) ==
    Total(Rounds, [r \in 1..Rounds |->
        (IF c \in cands[r] THEN 1 ELSE 0) - (IF c \in refs[r] THEN 1 ELSE 0)])

FamilyGain(refs, cands, f) ==
    Total(Len(CasesOf[f]), [i \in 1..Len(CasesOf[f]) |-> Gain(refs, cands, CasesOf[f][i])])

Observations(f) == Len(CasesOf[f]) * Rounds
AllObservations == Total(Len(CasesOf), [f \in Families |-> Observations(f)])

(* A resample draws whole cases, with all their repetitions.                *)
Drawn(refs, cands, f, draw) ==
    Total(Len(CasesOf[f]), [i \in 1..Len(CasesOf[f]) |-> Gain(refs, cands, CasesOf[f][draw[f][i]])])

LowerBound(samples) == Ascending(samples)[TailIndex + 1]

FamilyLower(refs, cands, f) ==
    LowerBound([d \in 1..Len(Draws) |-> Ratio(Drawn(refs, cands, f, Draws[d]), Observations(f))])

AggregateLower(refs, cands) ==
    LowerBound([d \in 1..Len(Draws) |->
        Ratio(Total(Len(CasesOf), [f \in Families |-> Drawn(refs, cands, f, Draws[d])]),
              AllObservations)])

AggregateDelta(refs, cands) ==
    Ratio(Total(Len(CasesOf), [f \in Families |-> FamilyGain(refs, cands, f)]), AllObservations)

FamilyPasses(refs, cands, f) ==
    /\ Ratio(FamilyGain(refs, cands, f), Observations(f)) >= -FamilyMargin
    /\ FamilyLower(refs, cands, f) >= -FamilyMargin

QualityEligible(refs, cands) ==
    /\ AggregateDelta(refs, cands) >= -AggregateMargin
    /\ AggregateLower(refs, cands) >= -AggregateMargin
    /\ \A f \in Families : FamilyPasses(refs, cands, f)
-----------------------------------------------------------------------------
(* A benchmark point: ttft and tpot of every request, ttft 0 for a failed   *)
(* one; the good requests the server counted, -1 when it did not; seconds.  *)
Completed(p) == {i \in DOMAIN p.requests : p.requests[i].ttft > 0}

GoodAt(p, limit) == {i \in Completed(p) : p.requests[i].ttft <= limit.ttft
                                            /\ p.requests[i].tpot <= limit.tpot}

MarginOf(p, limit) ==
    Min(UNION {{Distance(p.requests[i].ttft, limit.ttft), Distance(p.requests[i].tpot, limit.tpot)} :
                   i \in Completed(p)})

(* Mutant: a request exactly at the guard is taken for safe.                *)
ReplayableAtTheGuard(p, limit) ==
    /\ Completed(p) # {}
    /\ IF p.direct = -1 THEN MarginOf(p, limit) >= Guard
       ELSE /\ p.direct \in 0..Cardinality(Completed(p))
            /\ p.direct # Cardinality(GoodAt(p, limit)) => MarginOf(p, limit) <= Guard

(* replay_vllm_goodput() refuses anything else.                             *)
Replayable(p, limit) ==
    /\ Completed(p) # {}
    /\ IF p.direct = -1 THEN MarginOf(p, limit) > Guard
       ELSE /\ p.direct \in 0..Cardinality(Completed(p))
            /\ p.direct # Cardinality(GoodAt(p, limit)) => MarginOf(p, limit) <= Guard

Classified(p, count) ==
    [prompts    |-> Len(p.requests),
     completed  |-> Cardinality(Completed(p)),
     attainment |-> Ratio(count, Cardinality(Completed(p))),
     goodput    |-> Ratio(count, p.seconds),
     direct     |-> p.direct # -1]

Replay(p, limit) ==
    Classified(p, IF p.direct = -1 THEN Cardinality(GoodAt(p, limit)) ELSE p.direct)

(* score_repetition(): role "candidate" insists on the direct count.        *)
PointAdmitted(r, role) ==
    /\ r.completed = r.prompts
    /\ r.attainment >= Attainment
    /\ role = "candidate" => r.direct

ScoreRepetition(reference, replays, role) ==
    LET eligible == \A p \in Points : PointAdmitted(replays[p], role)
    IN  [eligible |-> eligible,
         scalar   |-> IF eligible
                      THEN Mean([b \in Buckets |-> Ratio(replays[Selected(b)].goodput, reference[b])])
                      ELSE 0]

(* summarize_candidate().                                                   *)
Summary(scores, references) ==
    LET eligible == \A i \in DOMAIN scores : scores[i].eligible
        scalars  == [i \in DOMAIN scores |-> scores[i].scalar]
    IN  [eligible |-> eligible,
         primary  |-> IF eligible THEN Median(scalars) ELSE 0,
         lower    |-> IF eligible
                      THEN (Min(ToSet(scalars)) * Ppm) \div Max(ToSet(references)) - Ppm
                      ELSE -Ppm]

Clears(s) == s.eligible /\ s.lower > 0

(* evaluate_pair(): the reference of the same call is the denominator.      *)
PairMeasurable(limit, points) ==
    /\ \A role \in DOMAIN points : \A p \in Points : Replayable(points[role][p], limit[p[1]])
    /\ \A b \in Buckets : Replay(points["reference"][Selected(b)], limit[b]).goodput > 0

Pair(limit, points) ==
    LET replays == [role \in DOMAIN points |->
                       [p \in Points |-> Replay(points[role][p], limit[p[1]])]]
        own     == [b \in Buckets |-> replays["reference"][Selected(b)].goodput]
        scores  == [role \in DOMAIN points |-> ScoreRepetition(own, replays[role], "candidate")]
    IN  [eligible |-> \A role \in DOMAIN points : scores[role].eligible,
         scores   |-> scores]

-----------------------------------------------------------------------------
(* derive_performance_calibration(): limits wide enough for the slowest     *)
(* reference run by the 95th percentile its server reports, in whole steps. *)
Ceiling(n, d) == (n + d - 1) \div d
DeriveSlo(worst) == Ceiling(worst * Headroom, Ppm * Grain) * Grain

Worst(bundles, b, metric) ==
    Max({bundles[i][p].p95[metric] : i \in DOMAIN bundles, p \in {b} \X RatesOf[b]})

DerivedLimits(bundles) ==
    [b \in Buckets |-> [ttft |-> DeriveSlo(Worst(bundles, b, "ttft")),
                        tpot |-> DeriveSlo(Worst(bundles, b, "tpot"))]]

ClassifiedAt(bundle, limit) ==
    [p \in Points |-> Classified(bundle[p], Cardinality(GoodAt(bundle[p], limit[p[1]])))]

Calibrated(bundles) ==
    LET limit     == DerivedLimits(bundles)
        class     == [i \in DOMAIN bundles |-> ClassifiedAt(bundles[i], limit)]
        reference == [b \in Buckets |->
                         Median([i \in DOMAIN bundles |-> class[i][Selected(b)].goodput])]
    IN  [admitted  |-> /\ \A i \in DOMAIN bundles : \A p \in Points :
                              /\ bundles[i][p].direct # -1
                              /\ class[i][p].completed = class[i][p].prompts
                              /\ class[i][p].attainment >= Attainment
                       /\ \A b \in Buckets : reference[b] > 0,
         limit     |-> limit,
         reference |-> reference]

RepetitionScalars(bundles) ==
    LET c == Calibrated(bundles)
    IN  [i \in DOMAIN bundles |->
           Mean([b \in Buckets |->
               Ratio(ClassifiedAt(bundles[i], c.limit)[Selected(b)].goodput, c.reference[b])])]

(* A scoring profile is refused when a scalar of the reference is below 1.  *)
Promotable(scalars) == \A i \in DOMAIN scalars : scalars[i] >= 1
=============================================================================
