------------------------------ MODULE MCScores ------------------------------
EXTENDS ScoreStudies

MCCasesOf == << <<1, 2>>, <<3, 4>> >>
MCDraws == << << <<1, 1>>, <<1, 2>> >>, << <<2, 2>>, <<2, 2>> >>,
              << <<1, 2>>, <<1, 1>> >>, << <<2, 1>>, <<2, 1>> >> >>
MCRatesOf == << {1, 2}, {1} >>

Latencies == {[ttft |-> t, tpot |-> 1] : t \in 0..3}
MCLimits    == [b \in Buckets |-> [ttft |-> 2, tpot |-> 2]]
Counted(requests, limit, seconds) ==
    LET p == [requests |-> requests, direct |-> 0, seconds |-> seconds]
    IN  [p EXCEPT !.direct = Cardinality(GoodAt(p, limit))]
PointsOf(S) ==
    {[p \in Points |-> Counted(q[p], [ttft |-> 2, tpot |-> 2], IF p[1] = 1 THEN 3 ELSE 7)] :
        q \in [Points -> [1..2 -> S]]}

QualityInputs ==
    {[kind |-> "quality", refs |-> <<r, s>>, cands |-> <<c, d>>] :
        r \in {{1, 2, 3}, {1, 3, 4}}, s \in {{1, 2}, {2, 3, 4}}, c \in SUBSET (1..4), d \in SUBSET (1..4)}
PairInputs ==
    {[kind |-> "pair", limits |-> MCLimits, points |-> [reference |-> r, candidate |-> c]] :
        r \in PointsOf({[ttft |-> 1, tpot |-> 1]}), c \in PointsOf(Latencies)}
ReplayInputs ==
    {[kind |-> "replay", limit |-> [ttft |-> 4, tpot |-> 3],
      point |-> [requests |-> q, direct |-> d, seconds |-> 1]] :
        q \in [1..2 -> [ttft : 0..6, tpot : 1..5]], d \in {-1}}
SummaryInputs ==
    {[kind |-> "summary", references |-> r, scores |-> s] :
        r \in {<<99, 100, 101>>, <<100, 100, 100>>},
        s \in [1..3 -> {[eligible |-> FALSE, scalar |-> 0]} \cup
                       {[eligible |-> TRUE, scalar |-> x] : x \in {98, 100, 101, 102, 103}}]}
CalibrationInputs ==
    {[kind |-> "calibration", bundles |-> q] :
        q \in [1..3 -> {[p \in Points |-> [requests |-> <<[ttft |-> t, tpot |-> 1], [ttft |-> u[1], tpot |-> 3]>>,
                                          direct |-> 0, seconds |-> IF p[1] = 1 THEN u[2] ELSE 7,
                                          p95 |-> [ttft |-> u[1], tpot |-> u[2] - 2]]] :
                            t \in {0, 1, 3}, u \in {<<1, 3>>, <<1, 5>>, <<5, 5>>}}]}
MCScoreInputs ==
    QualityInputs \cup PairInputs \cup ReplayInputs \cup SummaryInputs \cup CalibrationInputs

(* A replay of one request that missed its limits.                          *)
MCFirstInput ==
    [kind |-> "replay", limit |-> [ttft |-> 4, tpot |-> 3],
     point |-> [requests |-> <<[ttft |-> 0, tpot |-> 1]>>, direct |-> 0, seconds |-> 1]]
=============================================================================
