---------------------------- MODULE MCPilotSpend ----------------------------
EXTENDS PilotSpend, TLC

HostSymmetry == Permutations(Hosts)

(* For every attempt a bill its amendment accepts; and bills at the end of  *)
(* its range, above it, and above every allowance of the attempt.           *)
MCBills == [n \in 0..13 |->
    CASE n = 0 -> {100000, 900000}
      [] n = 1 -> {200000, 2000000}
      [] n = 2 -> {432160}
      [] n = 3 -> {449143}
      [] n = 4 -> {209027}
      [] n = 5 -> {887087}
      [] n = 6 -> {1166176}
      [] n = 7 -> {86282}
      [] n = 8 -> {993868}
      [] n = 9 -> {229152}
      [] n = 10 -> {1205090}
      [] n = 11 -> {900000}
      [] n = 12 -> {300000, 4313951, 5000000}
      [] n = 13 -> {6000000}]

MCCharges == [n \in 0..13 |->
    CASE n = 2 -> {1352} [] n = 3 -> {3082} [] n = 5 -> {5110} [] n = 6 -> {4801}
      [] n = 8 -> {3115} [] n = 10 -> {4292} [] OTHER -> {0}]

MCBatches == <<[jobs |-> 1, limits |-> Limits(26000000, 3100000)],
               [jobs |-> 2, limits |-> Limits(40000000, 3100000)]>>
=============================================================================
