------------------------------ MODULE MCHidden ------------------------------
EXTENDS HiddenEvaluation
MCRoleOrders == <<<<"reference", "candidate">>, <<"candidate", "reference">>>>
Value(e, p, s, t) == [eligible |-> e, passed |-> p, scalar |-> s, seconds |-> t]
MCMeasurements(slot) ==
    CASE slot.phase = "correctness" -> {Value(TRUE, {}, 0, 2), Value(FALSE, {}, 0, 1)}
      [] slot.role = "reference"    -> {Value(TRUE, 1..4, 0, 3)}
      [] slot.phase = "quality"     -> {Value(TRUE, 1..4, 0, 3), Value(TRUE, {1, 4}, 0, 4)}
      [] OTHER -> {Value(TRUE, {}, 101, 5)} \cup
                  IF slot.rep = 2 THEN {Value(TRUE, {}, 103, 6)} ELSE {}
MCStockScalars == <<99, 100, 101>>
=============================================================================
