----------------------------- MODULE PilotSpend -----------------------------
(***************************************************************************)
(* PilotSpendEnvelope: the journal of irrevocable dollar admissions that    *)
(* the qualifications, the pilot attempts, their follow-ups and the stock   *)
(* control share.  Nothing is refunded on its own: an aborted attempt's     *)
(* allowances stay until a reviewed amendment releases what its evidence    *)
(* proves unused.  Attempt 0 runs under the plan, attempt n under vn.       *)
(*                                                                         *)
(* Several controllers may hold the journal open, under any version, crash  *)
(* and start again; the operator approves amendments and batches meanwhile. *)
(* Left out: operator authorizations, which only expire.                    *)
(***************************************************************************)
EXTENDS PilotAmendments, RosterTotals, Sequences

CONSTANTS Hosts,          \* controller processes
          Qualifications, \* the qualifications that are run
          Newest,         \* the last amendment, at most 13
          Bills,          \* [0..Newest -> what its billing evidence may state]
          Charges,        \* [0..Newest -> what its model calls may cost]
          Batches,        \* approved batches: [jobs, limits]
          Crowded,        \* bound: the attempts that a second controller may start
          Followed,       \* bound: what attempt 11 has dispatched when v12 follows
          PinsFrom,       \* bound: the first amendment batches are approved under
          MaxHostCrashes  \* bound on process deaths

Attempts == 0..Newest

ASSUME SpendAssumption ==
    /\ Newest \in 0..13
    /\ Qualifications \subseteq {"modal-access", "provider-route", "model-gateway"}
    /\ Bills \in [Attempts -> SUBSET Nat]
    /\ Charges \in [Attempts -> SUBSET Nat]
    /\ Batches \in Seq([jobs : Nat, limits : [modal : Nat, openrouter : Nat]])
    /\ PinsFrom \in Nat /\ Followed \subseteq 0..6 /\ Crowded \subseteq 0..10
    /\ MaxHostCrashes \in Nat

VARIABLES approved,   \* the newest amendment retained in the journal
          released,   \* what the retained amendments give back of each account
          qualified,  \* the qualification receipts
          receipts,   \* the receipts of each attempt
          work,       \* what became of each attempt
          billed,     \* what the billing evidence retained for it states
          host,       \* where each controller is, and under which version
          pins,       \* the snapshot the operator approved a batch against
          batch,      \* what the journal retains of each batch
          stock,      \* the stock control of each batch
          hostCrashes

journalVars == <<approved, released, qualified, receipts, work, billed>>
batchVars   == <<pins, batch, stock>>
spendVars   == <<journalVars, host, batchVars, hostCrashes>>

NoReceipts == [model |-> 0, overhead |-> 0, computes |-> 0, probe |-> 0]
NoWork     == [dispatched |-> 0, confirmed |-> 0, recovered |-> 0, failed |-> FALSE,
               charged |-> 0, status |-> "open"]
AtRest     == [place |-> "idle", version |-> 0]

SpendInit ==
    /\ approved = 0
    /\ released = NothingFreed
    /\ qualified = {}
    /\ receipts = [n \in Attempts |-> NoReceipts]
    /\ work = [n \in Attempts |-> NoWork]
    /\ billed = [n \in Attempts |-> 0]
    /\ host = [h \in Hosts |-> AtRest]
    /\ pins = {}
    /\ batch = [b \in 1..Len(Batches) |-> "none"]
    /\ stock = [b \in 1..Len(Batches) |-> [claimed |-> FALSE, dispatched |-> 0, done |-> 0]]
    /\ hostCrashes = 0
-----------------------------------------------------------------------------
EachOf(n) == IF n >= 12 THEN PairEach ELSE ComputeEach

(* What the three operations of admit_openrouter_qualification() and of the *)
(* access preflight come to.                                                *)
QualificationAmount(q) ==
    CASE q = "modal-access"   -> Limits(2 * ComputeEach, 0)
      [] q = "provider-route" -> Limits(0, 50000)
      [] OTHER               -> Limits(0, 10000)

Paid(q) == IF q \in qualified THEN QualificationAmount(q) ELSE Limits(0, 0)

(* What the receipts of an account come to.                                 *)
Admitted(a) ==
    IF a = Setup
    THEN Limits(Paid("modal-access").modal,
                Paid("provider-route").openrouter + Paid("model-gateway").openrouter)
    ELSE LET r == receipts[a]
         IN  Limits(r.overhead * OverheadBase + r.computes * EachOf(a)
                        + r.probe * ProbeEach,
                    r.model * ModelBase)

(* What is left of an account once the amendments have given freed back.    *)
Kept(freed, a) == Limits(Admitted(a).modal - freed[a].modal,
                         Admitted(a).openrouter - freed[a].openrouter)

(* reserved_usd_nanos of the snapshot: over the setup and every attempt.    *)
Reserved(freed) ==
    LET rows == Newest + 2
    IN  Limits(Total(rows, [k \in 1..rows |-> Kept(freed, k - 2).modal]),
               Total(rows, [k \in 1..rows |-> Kept(freed, k - 2).openrouter]))

LimitsOf(v) == IF v = 0 THEN PlanLimits ELSE Amendment(v, billed).limits

(* total_limit_usd_nanos: the plan's is above its two limits together.      *)
TotalOf(v) == LimitsOf(v).modal + LimitsOf(v).openrouter
                  + (IF v = 0 THEN 50000 ELSE 0)

(* Version v has room for another admission.                                *)
RoomUnder(v, freed, modal, openrouter) ==
    LET r == Reserved(freed)
    IN  /\ r.modal + modal <= LimitsOf(v).modal
        /\ r.openrouter + openrouter <= LimitsOf(v).openrouter
        /\ r.modal + modal + r.openrouter + openrouter <= TotalOf(v)

Room(modal, openrouter) == RoomUnder(approved, released, modal, openrouter)

(* _snapshot() of an envelope without batch approvals: the journal retains  *)
(* every amendment up to v, none after it and no batch.                     *)
CurrentAttempt(v) ==
    /\ approved = v
    /\ \A b \in DOMAIN batch : batch[b] = "none"

Stands(h, place) == host[h].place = place
Moves(h, place)  == host' = [host EXCEPT ![h].place = place]

InFlight(n) == work[n].dispatched - work[n].confirmed

(* The estimates admitted for what an attempt did.  They cap no invoice.    *)
Allowance(n) == OverheadBase * receipts[n].overhead + work[n].dispatched * EachOf(n)
Going(n) == work[n].status \in {"open", "stopped"} /\ ~work[n].failed
-----------------------------------------------------------------------------
(* The qualifications, through an envelope without an amendment.            *)
Qualify(q) ==
    /\ CurrentAttempt(0)
    /\ q \notin qualified
    /\ Room(QualificationAmount(q).modal, QualificationAmount(q).openrouter)
    /\ qualified' = qualified \cup {q}
    /\ UNCHANGED <<approved, released, receipts, work, billed, host, batchVars, hostCrashes>>

(* Mutant: the room for a complete pilot is not checked.                    *)
StartUnchecked(h) ==
    LET n == approved
    IN  /\ Stands(h, "idle")
        /\ CurrentAttempt(n)
        /\ work[n].status # "complete"
        /\ n \notin Crowded => \A g \in Hosts : Stands(g, "idle")  \* bound
        /\ n <= 10 => /\ receipts[n] = NoReceipts
                      /\ {"modal-access", "provider-route"} \subseteq qualified
        /\ host' = [host EXCEPT ![h] =
                       [place |-> IF n <= 10 THEN "model" ELSE "overhead", version |-> n]]
        /\ UNCHANGED <<journalVars, batchVars, hostCrashes>>

(* A controller opens the journal under the newest amendment.  A solo       *)
(* attempt needs its qualifications, a journal without an admission of its  *)
(* own, and room for a complete pilot; a follow-up may be started again.    *)
Start(h) ==
    LET n == approved
    IN  /\ Stands(h, "idle")
        /\ CurrentAttempt(n)
        /\ work[n].status # "complete"
        /\ n \notin Crowded => \A g \in Hosts : Stands(g, "idle")  \* bound
        /\ n <= 10 => /\ receipts[n] = NoReceipts
                      /\ {"modal-access", "provider-route"} \subseteq qualified
                      /\ Room(FullAllowance, 0) /\ Room(0, ModelBase)
        /\ host' = [host EXCEPT ![h] =
                       [place |-> IF n <= 10 THEN "model" ELSE "overhead", version |-> n]]
        /\ UNCHANGED <<journalVars, batchVars, hostCrashes>>

(* reserve() debits a new operation key: under the lock, the journal must   *)
(* still be the one the envelope was opened on.                             *)
Affords(h, modal, openrouter) ==
    CurrentAttempt(host[h].version) /\ Room(modal, openrouter)

(* PilotSpendGuard.begin(): the model base, then the overhead.  Neither may *)
(* exist, so a second start, or a restart after a crash, is refused.        *)
ReserveModel(h) ==
    LET n == host[h].version
    IN  /\ Stands(h, "model")
        /\ receipts[n].model = 0
        /\ Affords(h, 0, ModelBase)
        /\ receipts' = [receipts EXCEPT ![n].model = 1]
        /\ Moves(h, "overhead")
        /\ UNCHANGED <<approved, released, qualified, work, billed, batchVars, hostCrashes>>

(* The follow-ups reserve again under the same key: nothing is debited.     *)
ReserveOverhead(h) ==
    LET n == host[h].version
    IN  /\ Stands(h, "overhead")
        /\ IF receipts[n].overhead = 0 THEN Affords(h, OverheadBase, 0)
                                   ELSE n >= 11 /\ CurrentAttempt(n)
        /\ receipts' = [receipts EXCEPT ![n].overhead = 1]
        /\ Moves(h, "running")
        /\ UNCHANGED <<approved, released, qualified, work, billed, batchVars, hostCrashes>>

(* The requests a stage admits: the reference, the public one, the hidden   *)
(* ones; a follow-up admits all of its own at once.                         *)
StageEnd(n, d) ==
    CASE n <= 10 -> IF d < 2 THEN d + 1 ELSE 12
      [] n = 11  -> 6
      [] OTHER   -> 3

(* authorize() of the next request of the stage.                            *)
ReserveCompute(h) ==
    LET n == host[h].version
    IN  /\ Stands(h, "running") /\ Going(n)
        /\ InFlight(n) = 0
        /\ receipts[n].computes < StageEnd(n, work[n].dispatched)
        /\ Affords(h, EachOf(n), 0)
        /\ receipts' = [receipts EXCEPT ![n].computes = @ + 1]
        /\ UNCHANGED <<approved, released, qualified, work, billed, host, batchVars, hostCrashes>>

(* A continuation admits each request once more, then submits it.           *)
Readmit(h) ==
    LET n == host[h].version
    IN  /\ Stands(h, "running") /\ Going(n)
        /\ n = 11
        /\ receipts[n].computes = StageEnd(n, 0)
        /\ CurrentAttempt(n)
        /\ Moves(h, "admitted")
        /\ UNCHANGED <<journalVars, batchVars, hostCrashes>>

(* Mutant: the next execution does not wait for its admission.              *)
DispatchUnadmitted(h) ==
    LET n == host[h].version
    IN  /\ Stands(h, IF n = 11 THEN "admitted" ELSE "running") /\ Going(n)
        /\ InFlight(n) = 0
        /\ work[n].dispatched < StageEnd(n, work[n].dispatched)
        /\ work' = [work EXCEPT ![n].dispatched = @ + 1]
        /\ UNCHANGED <<approved, released, qualified, receipts, billed, host, batchVars, hostCrashes>>

(* The next execution, once its whole stage is admitted.                    *)
Dispatch(h) ==
    LET n == host[h].version
    IN  /\ Stands(h, IF n = 11 THEN "admitted" ELSE "running") /\ Going(n)
        /\ InFlight(n) = 0
        /\ work[n].dispatched < receipts[n].computes
        /\ receipts[n].computes = StageEnd(n, work[n].dispatched)
        /\ work' = [work EXCEPT ![n].dispatched = @ + 1]
        /\ UNCHANGED <<approved, released, qualified, receipts, billed, host, batchVars, hostCrashes>>

(* The call's result is collected; one that was cancelled gives a failure.  *)
Collect(h, ok) ==
    LET n == host[h].version
    IN  /\ host[h].place \in {"running", "admitted"} /\ Going(n)
        /\ InFlight(n) = 1
        /\ ok => work[n].recovered = 0
        /\ work' = [work EXCEPT ![n] = [work[n] EXCEPT !.confirmed = @ + 1, !.recovered = 0,
                                                       !.failed = ~ok]]
        /\ Moves(h, "running")
        /\ UNCHANGED <<approved, released, qualified, receipts, billed, batchVars, hostCrashes>>

Finish(h) ==
    LET n == host[h].version
    IN  /\ Stands(h, "running") /\ Going(n)
        /\ work[n].confirmed = StageEnd(n, 2)
        /\ n # 11 => CurrentAttempt(n)
        /\ work' = [work EXCEPT ![n].status = "complete"]
        /\ host' = [host EXCEPT ![h] = AtRest]
        /\ UNCHANGED <<approved, released, qualified, receipts, billed, batchVars, hostCrashes>>

(* The attempt fails and retains its audit, a follow-up its stop document,  *)
(* which holds a snapshot of the journal and its whole admission.           *)
(* The agents may have called the model once the reference had succeeded.   *)
AbortAttempt(h) ==
    LET n == host[h].version
        w == work[n]
        agents == n <= 10 /\ w.confirmed > 0 /\ ~(w.failed /\ w.confirmed = 1)
    IN  /\ host[h].place \in {"running", "admitted"}
        /\ w.status \in {"open", "stopped"}
        /\ n >= 11 => CurrentAttempt(n) /\ receipts[n].computes = StageEnd(n, 0)
        /\ \E c \in (IF agents THEN Charges[n] ELSE {0}), b \in Bills[n] :
              /\ work' = [work EXCEPT ![n] =
                     [w EXCEPT !.status = IF n <= 10 THEN "aborted" ELSE "stopped",
                               !.failed = @ /\ n >= 11, !.charged = c]]
              /\ billed' = [billed EXCEPT ![n] = b]
        /\ host' = [host EXCEPT ![h] = AtRest]
        /\ UNCHANGED <<approved, released, qualified, receipts, batchVars, hostCrashes>>

(* A CPU-only diagnostic under the amendment of the aborted attempt.        *)
ReserveProbe(n) ==
    /\ n \in {7, 8} /\ n \in Attempts
    /\ work[n].status = "aborted"
    /\ CurrentAttempt(n)
    /\ receipts[n].probe = 0
    /\ Room(ProbeEach, 0)
    /\ receipts' = [receipts EXCEPT ![n].probe = 1]
    /\ UNCHANGED <<approved, released, qualified, work, billed, host, batchVars, hostCrashes>>

(* The call in flight at the abort is observed to have ended.               *)
Recover(n) ==
    /\ work[n].status \in {"aborted", "stopped"}
    /\ InFlight(n) = 1 /\ work[n].recovered = 0
    /\ work' = [work EXCEPT ![n].recovered = 1]
    /\ UNCHANGED <<approved, released, qualified, receipts, billed, host, batchVars, hostCrashes>>

Leavings == [n \in Attempts |->
    [computes |-> receipts[n].computes, dispatched |-> work[n].dispatched,
     confirmed |-> work[n].confirmed, ended |-> work[n].confirmed + work[n].recovered,
     probe |-> receipts[n].probe, charged |-> work[n].charged]]

(* The next amendment is approved: its evidence holds, the journal has the  *)
(* receipts it pins and is within its limits.                               *)
Approve ==
    LET n == approved + 1
        freed == [a \in Accounts |->
                     LET r == Amendment(n, billed).releases[a]
                     IN  Limits(released[a].modal + r.modal,
                                released[a].openrouter + r.openrouter)]
    IN  /\ n \in Attempts
        /\ CurrentAttempt(approved)
        /\ work[approved].status \in {"aborted", "stopped"}
        /\ receipts[approved].overhead = 1
        /\ Leavings[approved] \in Amendment(n, billed).left
        /\ billed[approved] \in Amendment(n, billed).bill
        /\ EarlierEvidence(n, billed, Leavings)
        /\ RoomUnder(n, freed, 0, 0)
        /\ \A h \in Hosts : Stands(h, "idle") \/ host[h].version = approved  \* bound
        /\ n = 12 => work[11].dispatched \in Followed
        /\ approved' = n
        /\ released' = freed
        /\ UNCHANGED <<qualified, receipts, work, billed, host, batchVars, hostCrashes>>

(* A refused reserve ends the process, unless a solo attempt is running; so *)
(* does an attempt another process has ended or failed.                     *)
Refused(h) ==
    LET n == host[h].version
    IN  /\ \/ Stands(h, "model") /\ (receipts[n].model = 1 \/ ~Affords(h, 0, ModelBase))
           \/ /\ Stands(h, "overhead")
              /\ IF receipts[n].overhead = 0 THEN ~Affords(h, OverheadBase, 0)
                                         ELSE n < 11 \/ ~CurrentAttempt(n)
           \/ /\ host[h].place \in {"running", "admitted"}
              /\ \/ work[n].status \in {"aborted", "complete"} \/ ~CurrentAttempt(n)
                 \/ n >= 11 /\ receipts[n].computes < StageEnd(n, 0) /\ ~Affords(h, EachOf(n), 0)
        /\ host' = [host EXCEPT ![h] = AtRest]
        /\ UNCHANGED <<journalVars, batchVars, hostCrashes>>

HostCrash(h) ==
    /\ ~Stands(h, "idle")
    /\ hostCrashes < MaxHostCrashes
    /\ hostCrashes' = hostCrashes + 1
    /\ host' = [host EXCEPT ![h] = AtRest]
    /\ UNCHANGED <<journalVars, batchVars>>
-----------------------------------------------------------------------------
(* Batches: the operator approves the next one against a snapshot; the      *)
(* journal retains first the approval, then the admission of all of it.     *)
Snapshot == <<approved, qualified, receipts>>

Funding(b) == OverheadBase + Batches[b].jobs * PairEach

(* Who approves it reads the snapshot, whatever happens until it is used.   *)
PinBatch ==
    /\ pins = {} /\ approved >= PinsFrom
    /\ pins' = {Snapshot}
    /\ UNCHANGED <<journalVars, host, batch, stock, hostCrashes>>

(* apply_batches() and validate_batch(): the pinned snapshot, all earlier   *)
(* batches admitted, no later one retained, and room under its ceilings.    *)
ValidBatch(b) ==
    LET before == IF b = 1 THEN LimitsOf(approved) ELSE Batches[b - 1].limits
    IN  /\ pins = {Snapshot}
        /\ \A c \in 1..(b - 1) : batch[c] = "admitted"
        /\ \A c \in (b + 1)..Len(Batches) : batch[c] = "none"
        /\ before.modal <= Batches[b].limits.modal
        /\ before.openrouter <= Batches[b].limits.openrouter
        /\ Reserved(released).modal + Total(b, [c \in 1..b |-> Funding(c)]) <= Batches[b].limits.modal
        /\ Reserved(released).openrouter <= Batches[b].limits.openrouter

RetainApproval(b) ==
    /\ batch[b] = "none"
    /\ ValidBatch(b)
    /\ batch' = [batch EXCEPT ![b] = "approved"]
    /\ stock' = [stock EXCEPT ![b].claimed = TRUE]
    /\ UNCHANGED <<journalVars, host, pins, hostCrashes>>

RetainAdmission(b) ==
    /\ batch[b] = "approved"
    /\ ValidBatch(b)
    /\ batch' = [batch EXCEPT ![b] = "admitted"]
    /\ UNCHANGED <<journalVars, host, pins, stock, hostCrashes>>

(* The stock control of an admitted batch: its frozen requests, one after   *)
(* the other; a restart goes on with the call in flight, and neither a      *)
(* deadline nor a failure replaces one.                                     *)
StockStep(b) ==
    LET s == stock[b]
    IN  /\ batch[b] = "admitted"
        /\ \/ /\ s.dispatched = s.done /\ s.dispatched < Batches[b].jobs
              /\ stock' = [stock EXCEPT ![b].dispatched = @ + 1]
           \/ /\ s.dispatched = s.done + 1
              /\ stock' = [stock EXCEPT ![b].done = @ + 1]
        /\ UNCHANGED <<journalVars, host, pins, batch, hostCrashes>>

SpendNext ==
    \/ \E q \in Qualifications : Qualify(q)
    \/ \E h \in Hosts :
          \/ Start(h) \/ ReserveModel(h) \/ ReserveOverhead(h) \/ ReserveCompute(h)
          \/ Readmit(h) \/ Dispatch(h) \/ Finish(h) \/ AbortAttempt(h)
          \/ \E ok \in BOOLEAN : Collect(h, ok)
          \/ Refused(h) \/ HostCrash(h)
    \/ \E n \in Attempts : ReserveProbe(n) \/ Recover(n)
    \/ Approve
    \/ PinBatch
    \/ \E b \in DOMAIN batch : RetainApproval(b) \/ RetainAdmission(b) \/ StockStep(b)

SpendSpec == SpendInit /\ [][SpendNext]_spendVars
-----------------------------------------------------------------------------
(* What an account must still hold, by its own evidence.  While nothing was *)
(* given back of it: the allowance of its overhead and of every execution   *)
(* it dispatched, and its model base.  Afterwards: the bill its evidence    *)
(* states, the buffer for a late one, in full the allowance of a call not   *)
(* known to have ended, and what its model ledger charged.                  *)
Exposure(a) ==
    Limits(IF released[a].modal = 0 THEN Allowance(a)
           ELSE billed[a] + Buffer + (InFlight(a) - work[a].recovered) * EachOf(a),
           IF released[a].openrouter = 0 THEN receipts[a].model * ModelBase
           ELSE work[a].charged)

(* Whatever the amendments release, in whatever order attempts start, crash *)
(* and end, and whatever the evidence states, above every estimate or not:  *)
(* no allowance is given back twice, none of a call that may still run, and *)
(* nothing of what the evidence of the release itself says is owed.  (How   *)
(* much Modal may invoice beyond that, the journal does not bound.)         *)
ReservesCoverExposure ==
    /\ Kept(released, Setup).openrouter >= 0
    /\ \A n \in 0..approved :
           /\ Kept(released, n).modal >= Exposure(n).modal
           /\ Kept(released, n).openrouter >= Exposure(n).openrouter

(* Nothing is dispatched without its own receipt and those of its run.      *)
WorkIsFunded ==
    /\ \A n \in Attempts :
          work[n].dispatched > 0 =>
              /\ work[n].dispatched <= receipts[n].computes
              /\ receipts[n].overhead = 1
              /\ n <= 10 => receipts[n].model = 1
    /\ \A b \in DOMAIN batch : stock[b].dispatched > 0 => batch[b] = "admitted"

(* An attempt that has begun is not stopped by an exhausted journal: what   *)
(* run_authorized_solo() checked once still holds for the rest of it.  The  *)
(* follow-ups check nothing in advance; the first two find room left by the *)
(* limits of v8 and by what attempt 7 had to find to begin.                 *)
BegunIsAffordable ==
    \A h \in Hosts :
        LET n == host[h].version
            rest == (StageEnd(n, 2) - receipts[n].computes) * EachOf(n)
                        + (1 - receipts[n].overhead) * OverheadBase
        IN  Stands(h, "running") /\ Going(n) /\ CurrentAttempt(n) /\ n <= 12 => Room(rest, 0)
=============================================================================
