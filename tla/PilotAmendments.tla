--------------------------- MODULE PilotAmendments ---------------------------
(***************************************************************************)
(* The reviewed amendments v1..v13 of the pilot's spending plan.  Each      *)
(* follows one aborted attempt: it names what that attempt must have left,  *)
(* accepts one bill for it, sets the limits of the journal, and releases    *)
(* the part of earlier allowances that its evidence proves unused.          *)
(*                                                                         *)
(* Amounts are millionths of a dollar; a billed cost is rounded up.  What   *)
(* an amendment proves with digests, commits, file references and rows of   *)
(* reports is here the statement those prove; identities are left out.      *)
(***************************************************************************)
EXTENDS Integers

(* The allowances a pilot reserves, and those of the settlements.           *)
ModelBase    == 2900000
OverheadBase == 1000000
ComputeEach  == 766080
PairEach     == 1137984
ProbeEach    == 100000
Buffer       == 100000        \* billing_buffer_usd_nanos
SmallBuffer  == 10000         \* model_ and conformance_buffer_usd_nanos

FullAllowance == OverheadBase + 12 * ComputeEach
OneAllowance  == OverheadBase + ComputeEach
PairAllowance == OverheadBase + 3 * PairEach

Setup == 0 - 1                \* the account of the qualifications
Accounts == Setup..13         \* and one for each attempt

Limits(modal, openrouter) == [modal |-> modal, openrouter |-> openrouter]
PlanLimits == Limits(11950000, 3000000)

(* An amendment gives something back of one or two accounts.                *)
NothingFreed == [a \in Accounts |-> Limits(0, 0)]

(* What an attempt can have left: its compute receipts, its dispatches, the *)
(* calls its own cleanup confirmed terminal, those known to have ended      *)
(* since, CPU probes after it, and what its model ledger charged.           *)
Leaves(computes, dispatched, confirmed, ended, probe, charged) ==
    [computes : computes, dispatched : dispatched, confirmed : confirmed,
     ended : ended, probe : probe, charged : charged]

(* v1: every call of the abort is terminal and no model charge exists.      *)
Retry ==
    [left |-> {l \in Leaves(1..12, 1..12, 1..12, 1..12, {0}, {0}) :
                  l.dispatched = l.computes /\ l.confirmed = l.computes /\ l.ended = l.computes},
     bill |-> Nat, limits |-> Limits(14000000, 3000000),
     releases |-> [NothingFreed EXCEPT ![0] = Limits(0, ModelBase)]]

(* v2: one terminal reference execution before any agent.                   *)
ReferenceFailure(b) ==
    [left |-> Leaves({1}, {1}, {1}, {1}, {0}, {0}),
     bill |-> 1..(ComputeEach - Buffer - 1), limits |-> Limits(14000000, 3000000),
     releases |-> [NothingFreed EXCEPT
         ![1] = Limits(OneAllowance - (b[1] + Buffer), ModelBase)]]

(* v3: a public call was unconfirmed, its evidence is recovered; the first  *)
(* attempt's reference is settled with it.                                  *)
PublicFailure(b) ==
    [left |-> Leaves({2}, {2}, {1}, {2}, {0}, {1352}),
     bill |-> 1..(532160 - Buffer), limits |-> Limits(14000000, 3000000),
     releases |-> [NothingFreed EXCEPT
         ![0] = Limits(ComputeEach - b[0] - Buffer, 0),
         ![2] = Limits(2000000, ModelBase - 1352 - SmallBuffer)]]

(* v4: both calls terminal; part of the access qualification was unused.    *)
FeedbackFailure(b) ==
    [left |-> Leaves({2}, {2}, {2}, {2}, {0}, {3082}),
     bill |-> {449143}, limits |-> Limits(14000000, 3000000),
     releases |-> [NothingFreed EXCEPT
         ![3] = Limits(OneAllowance + ComputeEach - b[3] - Buffer, ModelBase - 3082 - SmallBuffer),
         ![Setup] = Limits(500000, 0)]]

(* v5: one reference execution whose evidence is recovered.                 *)
CollectorFailure(b) ==
    [left |-> Leaves({1}, {1}, {0}, {1}, {0}, {0}),
     bill |-> {209027}, limits |-> Limits(14000000, 3000000),
     releases |-> [NothingFreed EXCEPT
         ![4] = Limits(OneAllowance - b[4] - Buffer - SmallBuffer, ModelBase - SmallBuffer),
         ![Setup] = Limits(500000, 0)]]

(* Mutant: v6 releases the reserve of the ambiguous call as well.           *)
SeriesFailureForgetsCall(b) ==
    [left |-> Leaves({12}, {6}, {5}, {5, 6}, {0}, {5110}),
     bill |-> {887087}, limits |-> Limits(16000000, 3000000),
     releases |-> [NothingFreed EXCEPT
         ![5] = Limits(FullAllowance - b[5] - Buffer, ModelBase - 5110 - SmallBuffer)]]

(* v6: five terminal calls and an ambiguous one, kept reserved in full.     *)
SeriesFailure(b) ==
    [left |-> Leaves({12}, {6}, {5}, {5, 6}, {0}, {5110}),
     bill |-> {887087}, limits |-> Limits(16000000, 3000000),
     releases |-> [NothingFreed EXCEPT
         ![5] = Limits(FullAllowance - b[5] - Buffer - ComputeEach, ModelBase - 5110 - SmallBuffer)]]

(* v7: six terminal calls and one that a collect-only conformance run, at   *)
(* its own small cost, recovered.                                           *)
ConnectedQuality(b) ==
    [left |-> Leaves({12}, {7}, {6}, {7}, {0}, {4801}),
     bill |-> {1166176}, limits |-> Limits(17000000, 3100000),
     releases |-> [NothingFreed EXCEPT
         ![6] = Limits(FullAllowance - b[6] - 48 - Buffer, ModelBase - 4801 - SmallBuffer)]]

(* v8: an unresolved reference call keeps everything but the model base.    *)
ReferenceProbe ==
    [left |-> Leaves({1}, {1}, {0}, {0, 1}, {1}, {0}),
     bill |-> Nat, limits |-> Limits(20000000, 3100000),
     releases |-> [NothingFreed EXCEPT ![7] = Limits(0, ModelBase)]]

(* v9: five terminal calls and one observed to end later.                   *)
StagingBundle(b) ==
    [left |-> Leaves({12}, {6}, {5}, {6}, {1}, {3115}),
     bill |-> {993868}, limits |-> Limits(20000000, 3100000),
     releases |-> [NothingFreed EXCEPT
         ![8] = Limits(FullAllowance - b[8] - Buffer, ModelBase - 3115 - SmallBuffer)]]

(* v10: the reference calls of attempts 7 and 9 are both observed to end.   *)
EnvironmentRecovery(b) ==
    [left |-> Leaves({1}, {1}, {0}, {1}, {0}, {0}),
     bill |-> {229152}, limits |-> Limits(20000000, 3100000),
     releases |-> [NothingFreed EXCEPT
         ![7] = Limits(OneAllowance - b[7] - Buffer, 0),
         ![9] = Limits(OneAllowance - b[9] - Buffer, ModelBase)]]

(* v11: seven calls ended, six verified; funds six replacements, no agents. *)
EvaluationSettlement(b) ==
    [left |-> Leaves({12}, {7}, {6, 7}, {7}, {0}, {4292}),
     bill |-> {1205090}, limits |-> Limits(20000000, 3100000),
     releases |-> [NothingFreed EXCEPT
         ![10] = Limits(FullAllowance - b[10] - Buffer, ModelBase - 4292)]]

(* v12: whatever the six replacements came to, nothing is released; funds   *)
(* three matched pairs.                                                     *)
PerformanceExtension ==
    [left |-> Leaves({6}, 0..6, 0..6, 0..6, {0}, {0}),
     bill |-> Nat, limits |-> Limits(20000000, 3100000), releases |-> NothingFreed]

(* v13: only the first pair was ever dispatched, and its call has ended.    *)
PerformanceSettlement(b) ==
    [left |-> Leaves({3}, {1}, {0}, {1}, {0}, {0}),
     bill |-> 1..(PairAllowance - Buffer - 1), limits |-> Limits(20000000, 3100000),
     releases |-> [NothingFreed EXCEPT
         ![12] = Limits(PairAllowance - (b[12] + Buffer), 0)]]

(* validate_retry(): the amendment of a version, given the bills b.         *)
Amendment(n, b) ==
    CASE n = 1  -> Retry
      [] n = 2  -> ReferenceFailure(b)
      [] n = 3  -> PublicFailure(b)
      [] n = 4  -> FeedbackFailure(b)
      [] n = 5  -> CollectorFailure(b)
      [] n = 6  -> SeriesFailure(b)
      [] n = 7  -> ConnectedQuality(b)
      [] n = 8  -> ReferenceProbe
      [] n = 9  -> StagingBundle(b)
      [] n = 10 -> EnvironmentRecovery(b)
      [] n = 11 -> EvaluationSettlement(b)
      [] n = 12 -> PerformanceExtension
      [] OTHER  -> PerformanceSettlement(b)

(* The evidence about earlier attempts that some amendments bring: v3 bills *)
(* the single reference of attempt 0, v10 the ended one of attempt 7.       *)
EarlierEvidence(n, b, leavings) ==
    /\ n = 3 => leavings[0].computes = 1 /\ b[0] > 0 /\ b[0] + Buffer <= ComputeEach
    /\ n = 10 => leavings[7].ended = 1 /\ b[7] = 86282
=============================================================================
