---------------------------- MODULE ScoreStudies ----------------------------
(***************************************************************************)
(* Studies that apply ServingScores to raw measurements, and a candidate    *)
(* that gets better at one of them: what the verdicts must mean, against    *)
(* definitions that do not use the rounded arithmetic.                      *)
(***************************************************************************)
EXTENDS ServingScores

CONSTANT ScoreInputs  \* the measurements that are compared

(* "quality" has the runs of both roles, "pair" the points of both,   *)
(* "replay" a point and its limit, "summary" the scores of a candidate and  *)
(* the scalars of the reference, "calibration" the reference's bundles.     *)
VARIABLE input

Roles == {"reference", "candidate"}
Limits == [ttft : Nat \ {0}, tpot : Nat \ {0}]
Latency == [ttft : Nat, tpot : Nat]
RunPoints == {p \in [requests : Seq(Latency), direct : Nat \cup {-1}, seconds : Nat \ {0}] :
                 p.requests # <<>>}
BundlePoints == {p \in [requests : Seq(Latency), direct : Nat \cup {-1}, seconds : Nat \ {0},
                        p95 : Latency] : p.requests # <<>>}

(* What the code takes as measurements of each kind.                        *)
CasePool == UNION {{CasesOf[f][i] : i \in 1..Len(CasesOf[f])} : f \in Families}
QualityStudies == [kind : {"quality"}, refs : [1..Rounds -> SUBSET CasePool],
                   cands : [1..Rounds -> SUBSET CasePool]]
PairStudies == [kind : {"pair"}, limits : [Buckets -> Limits], points : [Roles -> [Points -> RunPoints]]]
ReplayStudies == [kind : {"replay"}, limit : Limits, point : RunPoints]
SummaryStudies == {x \in [kind : {"summary"}, scores : Seq([eligible : BOOLEAN, scalar : Nat]),
                          references : Seq(Nat \ {0})] :
                      Len(x.scores) % 2 = 1 /\ x.references # <<>>}
CalibrationStudies == {x \in [kind : {"calibration"}, bundles : Seq([Points -> BundlePoints])] :
                          Len(x.bundles) % 2 = 1}
Studies == QualityStudies \cup PairStudies \cup ReplayStudies \cup SummaryStudies
              \cup CalibrationStudies

ASSUME InputsAssumption == ScoreInputs \subseteq Studies

ScoresInit == input \in ScoreInputs

CasePasses(r, c) ==
    /\ input.kind = "quality" /\ c \notin input.cands[r]
    /\ input' = [input EXCEPT !.cands[r] = @ \cup {c}]

(* Request n is answered sooner, and the server counts what is good now.    *)
Sooner(p, n, limit) ==
    LET next == [p EXCEPT !.requests[n].ttft = @ - 1]
    IN  [next EXCEPT !.direct = Cardinality(GoodAt(next, limit))]

(* The server's count follows its requests where it was exact before.       *)
RequestIsFaster(p, n) ==
    /\ input.kind = "pair"
    /\ LET old   == input.points["candidate"][p]
           limit == input.limits[p[1]]
       IN  /\ old.requests[n].ttft > 1 /\ old.direct = Cardinality(GoodAt(old, limit))
           /\ input' = [input EXCEPT !.points["candidate"][p] = Sooner(old, n, limit)]

ScoresNext ==
    \/ /\ input.kind = "quality"
       /\ \E r \in 1..Rounds, f \in Families : \E i \in 1..Len(CasesOf[f]) : CasePasses(r, CasesOf[f][i])
    \/ /\ input.kind = "pair"
       /\ \E p \in Points : \E n \in DOMAIN input.points["candidate"][p].requests : RequestIsFaster(p, n)

ScoresSpec == ScoresInit /\ [][ScoresNext]_input
-----------------------------------------------------------------------------
(* What is eligible has lost, in every family, no more cases than the       *)
(* margin allows, up to the rounding of half a millionth; a candidate that  *)
(* passes whatever the reference passes is eligible.                        *)
QualityIsSound(refs, cands) ==
    /\ QualityEligible(refs, cands) => \A f \in Families :
          -2 * FamilyGain(refs, cands, f) * Ppm <= (2 * FamilyMargin + 1) * Observations(f)
    /\ (\A r \in 1..Rounds : refs[r] \subseteq cands[r]) => QualityEligible(refs, cands)

(* A replay that is accepted without the server's count would be the same   *)
(* for all latencies within the guard of the saved ones.                    *)
ReplayIsSafe(p, limit) ==
    Replayable(p, limit) /\ p.direct = -1 =>
        \A n \in Completed(p) : \A t, o \in -Guard..Guard :
            LET q == [p EXCEPT !.requests[n] = [ttft |-> @.ttft + t, tpot |-> @.tpot + o]]
            IN  p.requests[n].ttft + t > 0 => GoodAt(q, limit) = GoodAt(p, limit)

(* A pair is eligible only if each role met the limits at every point; the  *)
(* reference scores exactly one against itself.                             *)
PairIsSound(limit, points) ==
    PairMeasurable(limit, points) /\ Pair(limit, points).eligible =>
        /\ Pair(limit, points).scores["reference"].scalar = Ppm
        /\ \A role \in DOMAIN points : \A p \in Points :
              /\ Completed(points[role][p]) = DOMAIN points[role][p].requests
              /\ 2 * points[role][p].direct * Ppm >= (2 * Attainment - 1) * Len(points[role][p].requests)

(* A candidate clears the bound only if its worst repetition beats the best *)
(* repetition of the reference; its primary scalar is one that half of the  *)
(* repetitions reach and half do not exceed.                                *)
SummaryIsSound(scores, references) ==
    LET s == Summary(scores, references)
        N == Len(scores)
    IN  /\ Clears(s) => \A i \in DOMAIN scores, j \in DOMAIN references :
                            scores[i].scalar > references[j]
        /\ s.eligible => /\ 2 * Cardinality({i \in 1..N : scores[i].scalar >= s.primary}) > N
                         /\ 2 * Cardinality({i \in 1..N : scores[i].scalar <= s.primary}) > N
        /\ (\E i \in 1..N : ~scores[i].eligible) => ~Clears(s) /\ s.primary = 0

(* The derived limits admit every request of the reference within the       *)
(* percentile its server reports; scoring the reference's own bundles under *)
(* the promoted profile gives the scalars of the proposal, and with a       *)
(* profile that loads the reference does not beat itself.                   *)
CalibrationIsReproduced(bundles) ==
    LET c       == Calibrated(bundles)
        scalars == RepetitionScalars(bundles)
        scores  == [i \in DOMAIN bundles |->
                      ScoreRepetition(c.reference, ClassifiedAt(bundles[i], c.limit), "reference")]
    IN  c.admitted =>
          /\ \A i \in DOMAIN bundles : \A p \in Points :
                {n \in DOMAIN bundles[i][p].requests :
                    \A m \in {"ttft", "tpot"} : bundles[i][p].requests[n][m] <= bundles[i][p].p95[m]}
                  \subseteq GoodAt(bundles[i][p], c.limit[p[1]])
          /\ \A i \in DOMAIN bundles : scores[i] = [eligible |-> TRUE, scalar |-> scalars[i]]
          /\ Promotable(scalars) => ~Clears(Summary(scores, scalars))

(* The verdicts computed from the measurements agree with what they are     *)
(* documented to mean.                                                      *)
ScoresAreSound ==
    /\ input.kind = "quality"     => QualityIsSound(input.refs, input.cands)
    /\ input.kind = "replay"      => ReplayIsSafe(input.point, input.limit)
    /\ input.kind = "pair"        => PairIsSound(input.limits, input.points)
    /\ input.kind = "summary"     => SummaryIsSound(input.scores, input.references)
    /\ input.kind = "calibration" => CalibrationIsReproduced(input.bundles)

(* A candidate that passes one more case or answers one request faster      *)
(* keeps its eligibility and does not lose score.                           *)
LosesNothing ==
    /\ input.kind = "quality" =>
          /\ QualityEligible(input.refs, input.cands) => QualityEligible(input'.refs, input'.cands)
          /\ AggregateDelta(input'.refs, input'.cands) >= AggregateDelta(input.refs, input.cands)
    /\ input.kind = "pair" /\ PairMeasurable(input.limits, input.points) =>
          LET before == Pair(input.limits, input.points)
              after  == Pair(input'.limits, input'.points)
          IN  /\ before.eligible => after.eligible
              /\ after.scores["candidate"].scalar >= before.scores["candidate"].scalar

BetterScoresNoLess == [][LosesNothing]_input
=============================================================================
