---------------------------- MODULE RosterTotals ----------------------------
(***************************************************************************)
(* The ledger keeps one row per actor and one row per model call and, at   *)
(* close, compares every counter with a sum over those rows.  A roster is  *)
(* ordered (peer ordinals, call numbers), so a sum over it is the last     *)
(* value of a running sum over 1..n, as Python's sum() computes it.        *)
(***************************************************************************)
EXTENDS Integers

(* running is the running sum of f over 1..n. *)
IsRunningSum(n, f, running) ==
    running = [i \in 0..n |-> IF i = 0 THEN 0 ELSE running[i - 1] + f[i]]

(* The sum of f over 1..n. *)
Total(n, f) ==
    LET running[i \in 0..n] == IF i = 0 THEN 0 ELSE running[i - 1] + f[i]
    IN  running[n]
=============================================================================
