------------------------- MODULE EvaluationContract -------------------------
(***************************************************************************)
(* What the hidden evaluation of a candidate promises: every run of the     *)
(* plan is measured once, and whoever asks, however often, is told the one  *)
(* verdict that follows from all measurements, each taken for its role and  *)
(* repetition, together with the seconds they took.                         *)
(***************************************************************************)
EXTENDS Integers, Sequences, RosterTotals

CONSTANTS Plan,              \* the runs in their order: [phase, role, rep]
          Values(_),         \* run -> the measurements it may give
          Absent,            \* no measurement
          ReferenceScalars,  \* of the registered reference
          Accepts(_, _),     \* the paired quality rule
          Summarise(_, _)    \* the score of a candidate against the reference

VARIABLES measured, told

vars == <<measured, told>>

Of(phase, role, n) ==
    measured[CHOOSE i \in DOMAIN Plan : Plan[i] = [phase |-> phase, role |-> role, rep |-> n]]
Repetitions(phase) == {Plan[i].rep : i \in {j \in DOMAIN Plan : Plan[j].phase = phase}}

Correct == Of("correctness", "candidate", 1).eligible

NonInferior ==
    Accepts([r \in Repetitions("quality") |-> Of("quality", "reference", r).passed],
            [r \in Repetitions("quality") |-> Of("quality", "candidate", r).passed])

Performance == Summarise([r \in Repetitions("performance") |->
                             [eligible |-> Of("performance", "candidate", r).eligible,
                              scalar   |-> Of("performance", "candidate", r).scalar]],
                         ReferenceScalars)

Judgement ==
    LET eligible == Correct /\ NonInferior /\ Performance.eligible
    IN  [eligible |-> eligible,
         units    |-> IF eligible THEN Performance.primary ELSE 0,
         used     |-> Total(Len(Plan), [i \in DOMAIN Plan |-> measured[i].seconds])]

Init == measured = [i \in DOMAIN Plan |-> Absent] /\ told = {}

Measure(i) == /\ measured[i] = Absent /\ UNCHANGED told
              /\ \E v \in Values(Plan[i]) : measured' = [measured EXCEPT ![i] = v]

Tell == /\ told = {} /\ \A i \in DOMAIN Plan : measured[i] # Absent
        /\ told' # {} /\ told' = {Judgement}
        /\ UNCHANGED measured

Next == Tell \/ \E i \in DOMAIN Plan : Measure(i)

Spec == Init /\ [][Next]_vars
=============================================================================
