--------------------------- MODULE CampaignProofs ---------------------------
(***************************************************************************)
(* The campaign's own order of things, proved for every size of it.        *)
(*                                                                         *)
(* Delivery: a job is put to a session at most once, is complete only when *)
(* every session holds it, and the controller, outbox and harness together *)
(* implement the delivery contract; the handle and every saved snapshot    *)
(* follow the outbox.                                                      *)
(*                                                                         *)
(* The pilot run: the argument goes by the step the run is at.  Each phase *)
(* may rely on what the phases before it have earned, and what they have   *)
(* earned is never lost, because a request that has come to its end is not *)
(* executed again and a closed intake admits nobody.  The unwinding relies *)
(* on nothing but what the audit and the handle say.                       *)
(*                                                                         *)
(* The rehearsal: every document of a study and of its runs is written     *)
(* once, so what a command has read still stands when it writes, and a     *)
(* study whose audit stands stays one whose runs verify.                   *)
(***************************************************************************)
EXTENDS CampaignDelivery, PilotRun, StudyRehearsal, TLAPS

PromptTypes ==
    /\ ledger \in Seq(Jobs)
    /\ prompts \in [Pairs -> Nat]
    /\ worker \in [Sessions -> Places]
    /\ job \in Jobs \cup {NoJob}
    /\ acked \subseteq Pairs
    /\ known \subseteq Pairs
    /\ complete \subseteq Jobs
    /\ \A snap \in saved : snap.known \subseteq Pairs

(* Only jobs that were prepared are put to sessions.                        *)
SentIsPrepared ==
    /\ job # NoJob => job \in InLedger
    /\ complete \subseteq InLedger
    /\ \A j \in Jobs, s \in Sessions : prompts[<<j, s>>] # 0 => j \in InLedger

(* A receipt, in the outbox, in memory or in a snapshot, stands for exactly *)
(* one prompt.                                                              *)
ReceiptsAreTrue ==
    /\ \A p \in acked \cup known : prompts[p] = 1
    /\ \A snap \in saved : \A p \in snap.known : prompts[p] = 1

(* What the place of a worker says about its prompt. *)
WorkersKnow ==
    \A s \in Sessions :
        /\ job = NoJob => worker[s] = "idle"
        /\ worker[s] = "prompt" => prompts[<<job, s>>] = 0
        /\ worker[s] \in {"sent", "receipt"} => prompts[<<job, s>>] = 1
        /\ worker[s] = "done" => <<job, s>> \in acked

CompleteIsAcked ==
    /\ \A j \in complete, s \in Sessions : <<j, s>> \in acked
    /\ reported \subseteq complete

(* From the reconciliation of the outbox to the end of close() nothing is   *)
(* delivered, and a process without runtime has no handle.                  *)
CloseIsExclusive ==
    /\ closing # "no" => job = NoJob /\ Reconciles
    /\ org = "absent" => status = "none" /\ closing = "no"
    /\ ~ started => org = "absent" /\ saved = {}

DeliveryInv ==
    /\ PromptTypes
    /\ SentIsPrepared
    /\ ReceiptsAreTrue
    /\ PromptedOnce
    /\ WorkersKnow
    /\ CompleteIsAcked
    /\ CloseIsExclusive
    /\ ReconciledWhenStopped
-----------------------------------------------------------------------------
(* Nothing is prepared, sent or reported at the start. *)
THEOREM InitDelivery == Init => DeliveryInv
<1>. SUFFICES ASSUME Init PROVE DeliveryInv
  OBVIOUS
<1>1. PromptTypes
  BY DEF Init, PromptTypes, Pairs, Places
<1>2. SentIsPrepared /\ ReceiptsAreTrue /\ PromptedOnce /\ WorkersKnow /\ CompleteIsAcked
  BY NoJobAssumption DEF Init, SentIsPrepared, ReceiptsAreTrue, PromptedOnce, WorkersKnow,
     CompleteIsAcked, Pairs
<1>3. CloseIsExclusive /\ ReconciledWhenStopped
  BY DEF Init, CloseIsExclusive, ReconciledWhenStopped
<1>. QED
  BY <1>1, <1>2, <1>3 DEF DeliveryInv

(* A step of one worker: only its place, its prompt and its receipts change. *)
LEMMA WorkerDelivery ==
    ASSUME DeliveryInv, NEW s \in Sessions, Worker(s)
    PROVE  DeliveryInv'
<1>. USE DEF DeliveryInv
<1>1. /\ job \in Jobs /\ <<job, s>> \in Pairs /\ worker[s] # "idle"
      /\ UNCHANGED <<ledger, complete, saved, reported, results, started, status, delivered,
                     org, job, closing, crashes>>
  BY DEF Worker, Goes, handleVars, PromptTypes, WorkersKnow, Pairs, Check, Remembered,
     FindPrompt, PromptLands, PromptReturns, HarnessFails, HarnessRefuses, Acknowledge,
     AcknowledgeFails
<1>2. \A t \in Sessions : t # s => worker'[t] = worker[t]
  BY DEF Worker, Goes, PromptTypes, Check, Remembered, FindPrompt, PromptLands,
     PromptReturns, HarnessFails, HarnessRefuses, Acknowledge, AcknowledgeFails
<1>3. job # NoJob
  BY <1>1 DEF WorkersKnow
<1>4. ReconciledWhenStopped' /\ CloseIsExclusive'
  BY <1>1, <1>3 DEF ReconciledWhenStopped, CloseIsExclusive, Reconciles, InLedger
<1>5. CASE PromptLands(s)
  <2>1. /\ worker[s] = "prompt" /\ worker'[s] = "sent" /\ prompts[<<job, s>>] = 0
        /\ prompts'[<<job, s>>] = 1 /\ \A p \in Pairs : p # <<job, s>> => prompts'[p] = prompts[p]
        /\ prompts' \in [Pairs -> Nat] /\ worker' \in [Sessions -> Places]
        /\ UNCHANGED <<acked, known>>
    BY <1>1, <1>5 DEF PromptLands, Goes, PromptTypes, WorkersKnow, Places
  <2>2. PromptTypes' /\ CompleteIsAcked'
    BY <1>1, <2>1 DEF PromptTypes, CompleteIsAcked
  <2>6. PromptedOnce'
    <3>1. \A p \in Pairs : p = <<job, s>> => prompts'[p] <= 1
      BY <2>1
    <3>. QED
      BY <2>1, <3>1 DEF PromptedOnce, Pairs
  <2>3. SentIsPrepared'
    <3>1. InLedger' = InLedger
      BY <1>1 DEF InLedger
    <3>2. ASSUME NEW j \in Jobs, NEW t \in Sessions, prompts'[<<j, t>>] # 0
          PROVE  j \in InLedger
      <4>1. CASE <<j, t>> = <<job, s>>
        BY <1>3, <4>1 DEF SentIsPrepared
      <4>2. CASE <<j, t>> # <<job, s>>
        <5>1. prompts'[<<j, t>>] = prompts[<<j, t>>]
          BY <2>1, <4>2 DEF Pairs
        <5>. QED
          BY <3>2, <5>1 DEF SentIsPrepared
      <4>. QED
        BY <4>1, <4>2
    <3>. QED
      BY <1>1, <3>1, <3>2 DEF SentIsPrepared
  <2>4. ReceiptsAreTrue'
    BY <1>1, <2>1 DEF ReceiptsAreTrue, PromptTypes
  <2>5. WorkersKnow'
    BY <1>1, <1>2, <1>3, <2>1 DEF WorkersKnow, Pairs
  <2>. QED
    BY <1>4, <2>2, <2>3, <2>4, <2>5, <2>6
<1>6. CASE ~ PromptLands(s)
  <2>1. prompts' = prompts
    BY <1>6 DEF Worker, Check, Remembered, FindPrompt, PromptReturns, HarnessFails,
       HarnessRefuses, Acknowledge, AcknowledgeFails
  <2>2. worker' \in [Sessions -> Places]
    BY <1>1, <1>6 DEF Worker, Goes, PromptTypes, Places, Check, Remembered, FindPrompt,
       PromptReturns, HarnessFails, HarnessRefuses, Acknowledge, AcknowledgeFails
  <2>3. /\ known' \in {known, known \cup {<<job, s>>}}
        /\ acked' \in {acked, acked \cup {<<job, s>>}}
        /\ (known' # known \/ acked' # acked) => prompts[<<job, s>>] = 1
    BY <1>1, <1>6 DEF Worker, Goes, PromptTypes, WorkersKnow, Check, Remembered,
       FindPrompt, PromptReturns, HarnessFails, HarnessRefuses, Acknowledge, AcknowledgeFails
  <2>4. /\ worker'[s] # "idle"
        /\ worker'[s] = "prompt" => prompts[<<job, s>>] = 0
        /\ worker'[s] \in {"sent", "receipt"} => prompts[<<job, s>>] = 1
        /\ worker'[s] = "done" => <<job, s>> \in acked'
    <3>1. CASE Check(s)
      BY <3>1 DEF Check, Goes, PromptTypes
    <3>2. CASE Remembered(s)
      BY <3>2 DEF Remembered, Goes, PromptTypes, ReceiptsAreTrue
    <3>3. CASE FindPrompt(s)
      BY <1>1, <3>3 DEF FindPrompt, Goes, PromptTypes
    <3>4. CASE PromptReturns(s)
      BY <3>4 DEF PromptReturns, Goes, PromptTypes, WorkersKnow
    <3>5. CASE HarnessFails(s) \/ HarnessRefuses(s) \/ AcknowledgeFails(s)
      BY <3>5 DEF HarnessFails, HarnessRefuses, AcknowledgeFails, Goes, PromptTypes
    <3>6. CASE Acknowledge(s)
      BY <3>6 DEF Acknowledge, Goes, PromptTypes
    <3>. QED
      BY <1>6, <3>1, <3>2, <3>3, <3>4, <3>5, <3>6 DEF Worker
  <2>5. PromptTypes' /\ CompleteIsAcked' /\ PromptedOnce'
    BY <1>1, <2>1, <2>2, <2>3 DEF PromptTypes, CompleteIsAcked, PromptedOnce
  <2>6. SentIsPrepared'
    BY <1>1, <2>1 DEF SentIsPrepared, InLedger
  <2>7. ReceiptsAreTrue'
    BY <1>1, <2>1, <2>3 DEF ReceiptsAreTrue
  <2>8. WorkersKnow'
    BY <1>1, <1>2, <1>3, <2>1, <2>3, <2>4 DEF WorkersKnow
  <2>. QED
    BY <1>4, <2>5, <2>6, <2>7, <2>8
<1>. QED
  BY <1>5, <1>6

(* deliver() begins: the ledger grows by the job, if it is new. *)
LEMMA PrepareDelivery ==
    ASSUME DeliveryInv, NEW j \in Jobs, Prepare(j)
    PROVE  DeliveryInv'
<1>. USE DEF DeliveryInv
<1>1. /\ ledger' \in Seq(Jobs) /\ InLedger \subseteq InLedger' /\ j \in InLedger'
  <2>1. CASE j \in InLedger
    BY <2>1 DEF Prepare, PromptTypes, InLedger
  <2>2. CASE j \notin InLedger
    <3>1. ledger' = Append(ledger, j) /\ ledger \in Seq(Jobs)
      BY <2>2 DEF Prepare, PromptTypes
    <3>2. /\ ledger' \in Seq(Jobs) /\ Len(ledger') = Len(ledger) + 1 /\ Len(ledger) \in Nat
          /\ ledger'[Len(ledger')] = j
          /\ \A i \in 1..Len(ledger) : ledger'[i] = ledger[i]
      BY <3>1
    <3>. QED
      BY <3>2 DEF InLedger
  <2>. QED
    BY <2>1, <2>2
<1>2. PromptTypes'
  BY <1>1 DEF Prepare, PromptTypes, harnessVars, Places
<1>3. SentIsPrepared'
  BY <1>1 DEF Prepare, SentIsPrepared
<1>4. ReceiptsAreTrue' /\ PromptedOnce' /\ CompleteIsAcked'
  BY DEF Prepare, ReceiptsAreTrue, PromptedOnce, CompleteIsAcked, harnessVars
<1>5. WorkersKnow'
  BY NoJobAssumption DEF Prepare, WorkersKnow
<1>6. CloseIsExclusive' /\ ReconciledWhenStopped'
  BY DEF Prepare, Idle, CloseIsExclusive, ReconciledWhenStopped, handleVars, harnessVars
<1>. QED
  BY <1>2, <1>3, <1>4, <1>5, <1>6

(* deliver() returns or raises: no worker has anything left to do. *)
LEMMA JoinDelivery ==
    ASSUME DeliveryInv, Join
    PROVE  DeliveryInv'
<1>. USE DEF DeliveryInv
<1>1. /\ job # NoJob /\ job' = NoJob /\ worker' = [s \in Sessions |-> "idle"]
      /\ UNCHANGED <<ledger, acked, prompts, saved, started, status, known, org, closing>>
  BY DEF Join, FanOutFails, CompletionFails, FanOutCompletes, durableVars, outboxVars,
     handleVars, harnessVars, boundVars
<1>2. /\ complete' \in {complete, complete \cup {job}} /\ reported' \subseteq complete'
      /\ complete' # complete => \A s \in Sessions : worker[s] = "done"
  BY DEF Join, FanOutFails, CompletionFails, FanOutCompletes, durableVars, outboxVars,
     CompleteIsAcked
<1>3. PromptTypes'
  BY <1>1, <1>2 DEF PromptTypes, Places
<1>4. SentIsPrepared'
  BY <1>1, <1>2 DEF SentIsPrepared, InLedger
<1>5. ReceiptsAreTrue' /\ PromptedOnce' /\ WorkersKnow'
  BY <1>1 DEF ReceiptsAreTrue, PromptedOnce, WorkersKnow
<1>6. CompleteIsAcked'
  BY <1>1, <1>2 DEF CompleteIsAcked, WorkersKnow
<1>7. CloseIsExclusive' /\ ReconciledWhenStopped'
  BY <1>1 DEF CloseIsExclusive, ReconciledWhenStopped
<1>. QED
  BY <1>3, <1>4, <1>5, <1>6, <1>7

(* The life of the process: nothing durable but the snapshot changes. *)
LEMMA ProcessDelivery ==
    ASSUME DeliveryInv,
           (\E ok \in BOOLEAN : Start(ok)) \/ Snapshot \/ Suspend \/ Crash \/ Resume \/ ResumeFails
    PROVE  DeliveryInv'
<1>. USE DEF DeliveryInv
<1>1. UNCHANGED <<ledger, complete, acked, prompts, reported>>
  BY DEF Start, Snapshot, Suspend, Crash, ForgetProcess, Resume, ResumeFails, durableVars,
     outboxVars
<1>2. saved' \subseteq saved \cup {[jobs |-> Delivered, known |-> known]}
  BY DEF Start, Snapshot, Suspend, Crash, ForgetProcess, Resume, ResumeFails, durableVars
<1>3. known' \in {known, {}} \cup {snap.known : snap \in saved}
  BY DEF Start, Snapshot, Suspend, Crash, ForgetProcess, Resume, ResumeFails, harnessVars
<1>4. \/ UNCHANGED <<job, worker>>
      \/ job' = NoJob /\ worker' = [s \in Sessions |-> "idle"]
  BY DEF Start, Snapshot, Suspend, Crash, ForgetProcess, Resume, ResumeFails, callVars
<1>5. PromptTypes' /\ SentIsPrepared'
  BY <1>1, <1>2, <1>3, <1>4 DEF PromptTypes, SentIsPrepared, InLedger, Places
<1>6. ReceiptsAreTrue'
  BY <1>1, <1>2, <1>3 DEF ReceiptsAreTrue
<1>7. WorkersKnow' /\ PromptedOnce' /\ CompleteIsAcked'
  BY <1>1, <1>4 DEF WorkersKnow, PromptedOnce, CompleteIsAcked
<1>8. CloseIsExclusive' /\ ReconciledWhenStopped'
  BY DEF CloseIsExclusive, ReconciledWhenStopped, Reconciles, InLedger, Start, Snapshot,
     Suspend, Crash, ForgetProcess, Resume, ResumeFails, durableVars, outboxVars, handleVars,
     harnessVars, callVars
<1>. QED
  BY <1>5, <1>6, <1>7, <1>8

(* close() changes neither the outbox nor the sessions. *)
LEMMA CloseDelivery ==
    ASSUME DeliveryInv, Close
    PROVE  DeliveryInv'
<1>. USE DEF DeliveryInv
<1>1. UNCHANGED <<ledger, complete, acked, prompts, saved, reported, started, delivered,
                  known, job, worker>>
  BY DEF Close, CloseReconciles, StopHarness, GateFails, BudgetReconciled, EventFails,
     ComputeReconciled, durableVars, outboxVars, handleVars, harnessVars
<1>2. PromptTypes' /\ SentIsPrepared' /\ ReceiptsAreTrue' /\ PromptedOnce' /\ WorkersKnow'
      /\ CompleteIsAcked'
  BY <1>1 DEF PromptTypes, SentIsPrepared, ReceiptsAreTrue, PromptedOnce, WorkersKnow,
     CompleteIsAcked, InLedger
<1>3. CloseIsExclusive'
  BY <1>1 DEF Close, CloseReconciles, StopHarness, GateFails, BudgetReconciled, EventFails,
     ComputeReconciled, CloseIsExclusive, Reconciles, InLedger, Idle, handleVars, harnessVars
<1>4. ReconciledWhenStopped'
  BY DEF Close, CloseReconciles, StopHarness, GateFails, BudgetReconciled, EventFails,
     ComputeReconciled, ReconciledWhenStopped, CloseIsExclusive, handleVars, harnessVars
<1>. QED
  BY <1>2, <1>3, <1>4

(* Every step of controller, outbox and harness keeps the invariant. *)
THEOREM NextDelivery == DeliveryInv /\ [Next]_vars => DeliveryInv'
<1>. SUFFICES ASSUME DeliveryInv, [Next]_vars PROVE DeliveryInv'
  OBVIOUS
<1>1. CASE Next
  BY <1>1, WorkerDelivery, PrepareDelivery, JoinDelivery, ProcessDelivery, CloseDelivery DEF Next
<1>2. CASE UNCHANGED vars
  BY <1>2 DEF vars, durableVars, outboxVars, handleVars, harnessVars, callVars, boundVars,
     DeliveryInv, PromptTypes, SentIsPrepared, ReceiptsAreTrue, PromptedOnce, WorkersKnow,
     CompleteIsAcked, CloseIsExclusive, ReconciledWhenStopped, Reconciles, InLedger
<1>. QED
  BY <1>1, <1>2

(* The inductive invariant of the delivery. *)
THEOREM DeliveryInvariant == Spec => []DeliveryInv
BY InitDelivery, NextDelivery, PTL DEF Spec

-----------------------------------------------------------------------------
(* No crash, lost reply, retry or stale snapshot puts a job to a session    *)
(* twice (the search of the session's messages in opencode_harness.py).     *)
THEOREM NeverPromptedTwice == Spec => []PromptedOnce
<1>1. DeliveryInv => PromptedOnce
  BY DEF DeliveryInv
<1>. QED
  BY <1>1, DeliveryInvariant, PTL

(* A complete or reported job has reached every session exactly once, and   *)
(* every receipt is true (complete() in sqlite_delivery.py).                *)
THEOREM CompleteReachedAll == Spec => []CompleteIsEverywhere
<1>1. DeliveryInv => CompleteIsEverywhere
  BY DEF DeliveryInv, CompleteIsAcked, SentIsPrepared, ReceiptsAreTrue, CompleteIsEverywhere
<1>. QED
  BY <1>1, DeliveryInvariant, PTL

(* close() reconciles the ledgers, and decides, after the harness stopped.  *)
THEOREM ReconciledAfterStop == Spec => []ReconciledWhenStopped
<1>1. DeliveryInv => ReconciledWhenStopped
  BY DEF DeliveryInv
<1>. QED
  BY <1>1, DeliveryInvariant, PTL

-----------------------------------------------------------------------------
(* What the process remembers: the outbox lists a job once, a call needs an *)
(* active handle, and before start() there is nothing to remember.          *)
HandleInv ==
    /\ \A i, k \in 1..Len(ledger) : ledger[i] = ledger[k] => i = k
    /\ delivered \in Seq(Jobs)
    /\ closing # "no" \/ job # NoJob => status = "active"
    /\ ~ started => complete = {} /\ delivered = <<>>
    /\ MemoryFollowsOutbox

(* A job appended to a sequence without repetition it is not in.            *)
LEMMA AppendOnce ==
    ASSUME NEW seq \in Seq(Jobs), NEW j \in Jobs, j \notin {seq[i] : i \in 1..Len(seq)},
           \A i, k \in 1..Len(seq) : seq[i] = seq[k] => i = k
    PROVE  /\ Append(seq, j) \in Seq(Jobs)
           /\ {Append(seq, j)[i] : i \in 1..Len(Append(seq, j))}
                  = {seq[i] : i \in 1..Len(seq)} \cup {j}
           /\ \A i, k \in 1..Len(Append(seq, j)) :
                  Append(seq, j)[i] = Append(seq, j)[k] => i = k
<1>. DEFINE longer == Append(seq, j)
<1>1. /\ longer \in Seq(Jobs) /\ Len(longer) = Len(seq) + 1 /\ Len(seq) \in Nat
      /\ longer[Len(seq) + 1] = j /\ \A i \in 1..Len(seq) : longer[i] = seq[i]
  OBVIOUS
<1>2. {longer[i] : i \in 1..Len(longer)} = {seq[i] : i \in 1..Len(seq)} \cup {j}
  <2>1. \A i \in 1..Len(longer) : i \in 1..Len(seq) \/ i = Len(seq) + 1
    BY <1>1
  <2>2. \A i \in 1..Len(seq) : i \in 1..Len(longer)
    BY <1>1
  <2>3. Len(seq) + 1 \in 1..Len(longer)
    BY <1>1
  <2>. HIDE DEF longer
  <2>. QED
    BY <1>1, <2>1, <2>2, <2>3
<1>3. ASSUME NEW i \in 1..Len(longer), NEW k \in 1..Len(longer), longer[i] = longer[k]
      PROVE  i = k
  <2>. HIDE DEF longer
  <2>1. CASE i \in 1..Len(seq) /\ k \in 1..Len(seq)
    BY <1>1, <1>3, <2>1
  <2>2. CASE i = Len(seq) + 1 \/ k = Len(seq) + 1
    BY <1>1, <1>3, <2>2
  <2>. QED
    BY <1>1, <2>1, <2>2
<1>. QED
  BY <1>1, <1>2, <1>3

(* What resume() makes of the outbox is its complete jobs, each once.       *)
LEMMA CompletedOnce ==
    ASSUME \A i, k \in 1..Len(ledger) : ledger[i] = ledger[k] => i = k,
           ledger \in Seq(Jobs), complete \subseteq Jobs, NEW jobs \in CompletedJobs
    PROVE  /\ jobs \in Seq(Jobs)
           /\ {jobs[i] : i \in 1..Len(jobs)} = complete
           /\ \A i, k \in 1..Len(jobs) : jobs[i] = jobs[k] => i = k
<1>1. PICK n \in 0..Len(ledger) : jobs \in [1..n -> complete]
  BY DEF CompletedJobs
<1>2. n \in Nat /\ Len(ledger) \in Nat
  BY <1>1
<1>3. jobs \in Seq(Jobs) /\ Len(jobs) = n /\ DOMAIN jobs = 1..Len(jobs)
  <2>1. jobs \in [1..n -> Jobs]
    BY <1>1
  <2>. QED
    BY <1>1, <1>2, <2>1
<1>4. {jobs[i] : i \in 1..Len(jobs)} = complete
  BY <1>1, <1>3 DEF CompletedJobs
<1>5. ASSUME NEW i \in 1..Len(jobs), NEW k \in 1..Len(jobs), i < k
      PROVE  jobs[i] # jobs[k]
  <2>1. \A a, b \in DOMAIN jobs : a < b =>
            \E p, q \in 1..Len(ledger) : p < q /\ ledger[p] = jobs[a] /\ ledger[q] = jobs[b]
    BY Zenon DEF CompletedJobs
  <2>2. i \in DOMAIN jobs /\ k \in DOMAIN jobs
    BY <1>3
  <2>3. PICK p \in 1..Len(ledger), q \in 1..Len(ledger) :
            p < q /\ ledger[p] = jobs[i] /\ ledger[q] = jobs[k]
    BY <1>5, <2>1, <2>2, Zenon
  <2>. QED
    BY <2>3
<1>6. \A i, k \in 1..Len(jobs) : jobs[i] = jobs[k] => i = k
  <2>1. \A i, k \in 1..Len(jobs) : i < k \/ k < i \/ i = k
    BY <1>2, <1>3
  <2>. QED
    BY <1>5, <2>1
<1>. QED
  BY <1>3, <1>4, <1>6

(* Nothing is remembered before the start. *)
LEMMA InitHandle == Init => HandleInv
BY DEF Init, HandleInv, MemoryFollowsOutbox, HandleFollowsOutbox, SnapshotIsBehind, Delivered

(* A worker touches neither the handle nor the snapshot; a prompt that lands *)
(* is one no snapshot has a receipt of.                                      *)
LEMMA WorkerHandle ==
    ASSUME DeliveryInv, HandleInv, NEW s \in Sessions, Worker(s)
    PROVE  HandleInv'
<1>1. UNCHANGED <<ledger, complete, saved, started, status, delivered, job, closing>>
  BY DEF Worker, Goes, handleVars, Check, Remembered, FindPrompt, PromptLands,
     PromptReturns, HarnessFails, HarnessRefuses, Acknowledge, AcknowledgeFails
<1>2. ASSUME NEW snap \in saved, NEW p \in snap.known PROVE prompts'[p] = 1
  <2>1. prompts[p] = 1 /\ p \in Pairs
    BY DEF DeliveryInv, ReceiptsAreTrue, PromptTypes
  <2>2. CASE PromptLands(s)
    <3>1. prompts[<<job, s>>] = 0
      BY <2>2 DEF DeliveryInv, WorkersKnow, PromptLands, Goes
    <3>. QED
      BY <2>1, <2>2, <3>1 DEF PromptLands, DeliveryInv, PromptTypes
  <2>3. CASE ~ PromptLands(s)
    BY <2>1, <2>3 DEF Worker, Check, Remembered, FindPrompt, PromptReturns, HarnessFails,
       HarnessRefuses, Acknowledge, AcknowledgeFails
  <2>. QED
    BY <2>2, <2>3
<1>3. SnapshotIsBehind' /\ HandleFollowsOutbox'
  BY <1>1, <1>2 DEF HandleInv, MemoryFollowsOutbox, SnapshotIsBehind, HandleFollowsOutbox,
     Delivered
<1>. QED
  BY <1>1, <1>3 DEF HandleInv, MemoryFollowsOutbox

(* deliver() begins and ends: the outbox and the handle grow by one job.    *)
LEMMA DeliverHandle ==
    ASSUME DeliveryInv, HandleInv, (\E j \in Jobs : Prepare(j)) \/ Join
    PROVE  HandleInv'
<1>1. CASE \E j \in Jobs : Prepare(j)
  <2>1. PICK j \in Jobs : Prepare(j)
    BY <1>1
  <2>2. UNCHANGED <<complete, prompts, saved, started, status, delivered, closing>>
        /\ status = "active" /\ closing = "no"
    BY <2>1 DEF Prepare, handleVars, Idle
  <2>3. \A i, k \in 1..Len(ledger') : ledger'[i] = ledger'[k] => i = k
    <3>1. CASE j \in InLedger
      BY <2>1, <3>1 DEF Prepare, HandleInv
    <3>2. CASE j \notin InLedger
      <4>1. ledger' = Append(ledger, j) /\ ledger \in Seq(Jobs)
        BY <2>1, <3>2 DEF Prepare, DeliveryInv, PromptTypes
      <4>. QED
        BY <3>2, <4>1, AppendOnce DEF InLedger, HandleInv
    <3>. QED
      BY <3>1, <3>2
  <2>. QED
    BY <2>2, <2>3 DEF HandleInv, MemoryFollowsOutbox, SnapshotIsBehind, HandleFollowsOutbox,
       Delivered
<1>2. CASE Join
  <2>1. /\ job \in Jobs /\ job # NoJob /\ job' = NoJob /\ status = "active" /\ closing = "no"
        /\ UNCHANGED <<ledger, prompts, saved, started, status, closing>>
    BY <1>2 DEF Join, FanOutFails, CompletionFails, FanOutCompletes, durableVars, outboxVars,
       handleVars, DeliveryInv, PromptTypes, CloseIsExclusive, HandleInv
  <2>2. \/ UNCHANGED <<complete, delivered>>
        \/ /\ complete' = complete \cup {job}
           /\ delivered' = IF job \in Delivered THEN delivered ELSE Append(delivered, job)
    BY <1>2 DEF Join, FanOutFails, CompletionFails, FanOutCompletes, durableVars, outboxVars,
       handleVars
  <2>3. started
    BY <2>1 DEF DeliveryInv, CloseIsExclusive
  <2>4. delivered' \in Seq(Jobs) /\ HandleFollowsOutbox'
    <3>. USE DEF HandleInv, MemoryFollowsOutbox, HandleFollowsOutbox
    <3>1. CASE UNCHANGED <<complete, delivered>>
      BY <2>1, <3>1 DEF Delivered
    <3>2. CASE complete' = complete \cup {job} /\ job \in Delivered /\ delivered' = delivered
      BY <2>1, <3>2 DEF Delivered
    <3>3. CASE /\ complete' = complete \cup {job} /\ job \notin Delivered
               /\ delivered' = Append(delivered, job)
      BY <2>1, <3>3, AppendOnce DEF Delivered
    <3>. QED
      BY <2>2, <3>1, <3>2, <3>3
  <2>5. SnapshotIsBehind'
    BY <2>1, <2>2 DEF HandleInv, MemoryFollowsOutbox, SnapshotIsBehind
  <2>. QED
    BY <2>1, <2>3, <2>4, <2>5 DEF HandleInv, MemoryFollowsOutbox
<1>. QED
  BY <1>1, <1>2

(* The life of the process: a handle appears with start() or resume().      *)
LEMMA ProcessHandle ==
    ASSUME DeliveryInv, HandleInv,
           (\E ok \in BOOLEAN : Start(ok)) \/ Snapshot \/ Suspend \/ Crash \/ Resume \/ ResumeFails
    PROVE  HandleInv'
<1>. USE DEF HandleInv, MemoryFollowsOutbox
<1>1. UNCHANGED <<ledger, complete, prompts>>
  BY DEF Start, Snapshot, Suspend, Crash, ForgetProcess, Resume, ResumeFails, durableVars,
     outboxVars
<1>2. CASE \E ok \in BOOLEAN : Start(ok)
  <2>1. /\ complete = {} /\ delivered = <<>> /\ started' /\ status = "none"
        /\ job = NoJob /\ closing = "no" /\ UNCHANGED <<saved, delivered, job, closing>>
    BY <1>2 DEF Start, durableVars, callVars, DeliveryInv, CloseIsExclusive
  <2>. QED
    BY <1>1, <2>1 DEF SnapshotIsBehind, HandleFollowsOutbox, Delivered
<1>3. CASE Snapshot
  <2>1. /\ status = "active" /\ saved' = {[jobs |-> Delivered, known |-> known]}
        /\ UNCHANGED <<started, status, delivered, job, closing>>
    BY <1>3 DEF Snapshot, handleVars, callVars
  <2>2. Delivered \subseteq complete /\ \A p \in known : prompts[p] = 1
    BY <2>1 DEF HandleFollowsOutbox, DeliveryInv, ReceiptsAreTrue
  <2>. QED
    BY <1>1, <2>1, <2>2 DEF SnapshotIsBehind, HandleFollowsOutbox, Delivered
<1>4. CASE Suspend \/ Crash
  <2>1. /\ status' = "none" /\ delivered' = <<>> /\ job' = NoJob /\ closing' = "no"
        /\ UNCHANGED <<saved, started>>
    BY <1>4 DEF Suspend, Crash, ForgetProcess, durableVars
  <2>. QED
    BY <1>1, <2>1 DEF SnapshotIsBehind, HandleFollowsOutbox
<1>5. CASE Resume
  <2>1. /\ delivered' \in CompletedJobs /\ status' = "active" /\ org = "absent" /\ saved # {}
        /\ UNCHANGED <<saved, started, job, closing>>
    BY <1>5 DEF Resume, durableVars, callVars
  <2>2. /\ delivered' \in Seq(Jobs) /\ {delivered'[i] : i \in 1..Len(delivered')} = complete
        /\ \A i, k \in 1..Len(delivered') : delivered'[i] = delivered'[k] => i = k
    BY <2>1, CompletedOnce DEF DeliveryInv, PromptTypes
  <2>3. started
    BY <2>1 DEF DeliveryInv, CloseIsExclusive
  <2>. QED
    BY <1>1, <2>1, <2>2, <2>3 DEF SnapshotIsBehind, HandleFollowsOutbox, Delivered
<1>6. CASE ResumeFails
  <2>1. UNCHANGED <<saved, started, status, delivered, job, closing>>
    BY <1>6 DEF ResumeFails, durableVars, handleVars, callVars
  <2>. QED
    BY <1>1, <2>1 DEF SnapshotIsBehind, HandleFollowsOutbox, Delivered
<1>. QED
  BY <1>2, <1>3, <1>4, <1>5, <1>6

(* close() changes neither the outbox nor what the handle lists.            *)
LEMMA CloseHandle ==
    ASSUME DeliveryInv, HandleInv, Close
    PROVE  HandleInv'
<1>1. UNCHANGED <<ledger, complete, prompts, saved, started, delivered, job>>
  BY DEF Close, CloseReconciles, StopHarness, GateFails, BudgetReconciled, EventFails,
     ComputeReconciled, durableVars, outboxVars, handleVars
<1>2. /\ status = "active" /\ job = NoJob
      /\ closing' # "no" => status' = "active"
  BY DEF Close, CloseReconciles, StopHarness, GateFails, BudgetReconciled, EventFails,
     ComputeReconciled, Idle, handleVars, HandleInv, DeliveryInv, CloseIsExclusive
<1>. QED
  BY <1>1, <1>2 DEF HandleInv, MemoryFollowsOutbox, SnapshotIsBehind, HandleFollowsOutbox,
     Delivered

(* No step makes handle or snapshot run ahead of the outbox, or behind.     *)
LEMMA NextHandle == DeliveryInv /\ HandleInv /\ [Next]_vars => HandleInv'
<1>. SUFFICES ASSUME DeliveryInv, HandleInv, [Next]_vars PROVE HandleInv'
  OBVIOUS
<1>1. CASE Next
  BY <1>1, WorkerHandle, DeliverHandle, ProcessHandle, CloseHandle DEF Next
<1>2. CASE UNCHANGED vars
  BY <1>2 DEF vars, durableVars, outboxVars, handleVars, callVars, HandleInv,
     MemoryFollowsOutbox, SnapshotIsBehind, HandleFollowsOutbox, Delivered
<1>. QED
  BY <1>1, <1>2

(* What the process and its snapshot say is delivered follows the outbox,   *)
(* whatever was forgotten, retried or restored (resume() in controller.py). *)
THEOREM MemoryFollows == Spec => []MemoryFollowsOutbox
<1>1. HandleInv => MemoryFollowsOutbox
  BY DEF HandleInv
<1>. QED
  BY <1>1, InitHandle, NextHandle, DeliveryInvariant, PTL DEF Spec

(* The steps of a worker keep every variable in its type. *)
LEMMA WorkerTypes ==
    ASSUME DeliveryInv', DeliveryInv, HandleInv', DeliveryTypeOK, NEW s \in Sessions, Worker(s)
    PROVE  DeliveryTypeOK'
<1>1. /\ job # NoJob
      /\ UNCHANGED <<ledger, complete, saved, reported, results, started, status, delivered,
                     org, job, closing, crashes>>
  BY DEF Worker, Goes, handleVars, DeliveryTypeOK, Check, Remembered, FindPrompt, PromptLands,
     PromptReturns, HarnessFails, HarnessRefuses, Acknowledge, AcknowledgeFails
<1>2. broken' \subseteq Sessions /\ faults' \in 0..MaxFaults
  <2>1. broken \subseteq Sessions /\ faults \in 0..MaxFaults /\ MaxFaults \in Nat
    BY BoundsAssumption DEF DeliveryTypeOK
  <2>2. /\ broken' \in {broken, broken \cup {s}}
        /\ faults' = faults \/ (faults < MaxFaults /\ faults' = faults + 1)
    BY DEF Worker, Check, Remembered, FindPrompt, PromptLands, PromptReturns, HarnessFails,
       HarnessRefuses, Acknowledge, AcknowledgeFails
  <2>. QED
    BY <2>1, <2>2
<1>3. /\ acked' \subseteq Pairs /\ known' \subseteq Pairs /\ prompts' \in [Pairs -> Nat]
      /\ worker' \in [Sessions -> Places]
  BY DEF DeliveryInv, PromptTypes
<1>. QED
  BY <1>1, <1>2, <1>3 DEF DeliveryTypeOK, InLedger

(* So do all other steps. *)
LEMMA HostTypes ==
    ASSUME DeliveryInv', DeliveryInv, HandleInv', DeliveryTypeOK,
           \/ (\E j \in Jobs : Prepare(j)) \/ Join \/ Close
           \/ (\E ok \in BOOLEAN : Start(ok)) \/ Snapshot \/ Suspend \/ Crash
           \/ Resume \/ ResumeFails
    PROVE  DeliveryTypeOK'
<1>1. /\ ledger' \in Seq(Jobs) /\ complete' \subseteq Jobs /\ acked' \subseteq Pairs
      /\ prompts' \in [Pairs -> Nat] /\ known' \subseteq Pairs
      /\ worker' \in [Sessions -> Places] /\ job' \in Jobs \cup {NoJob}
      /\ delivered' \in Seq(Jobs) /\ reported' \subseteq complete'
      /\ job' = NoJob => \A s \in Sessions : worker'[s] = "idle"
      /\ job' # NoJob => status' = "active" /\ job' \in InLedger'
      /\ closing' # "no" => status' = "active" /\ job' = NoJob
  BY DEF DeliveryInv, PromptTypes, HandleInv, WorkersKnow, SentIsPrepared, CompleteIsAcked,
     CloseIsExclusive
<1>2. /\ started' \in BOOLEAN /\ broken' \subseteq Sessions
      /\ org' \in {"absent", "running", "stopped"}
      /\ status' \in {"none", "active", "invalid", "closed"}
      /\ closing' \in {"no", "stopping", "budget", "compute"}
  BY DEF DeliveryTypeOK, Prepare, Join, FanOutFails, CompletionFails, FanOutCompletes, Close,
     CloseReconciles, StopHarness, GateFails, BudgetReconciled, EventFails, ComputeReconciled,
     Start, Snapshot, Suspend, Crash, ForgetProcess, Resume, ResumeFails, durableVars,
     outboxVars, handleVars, harnessVars, callVars, boundVars
<1>3. faults' \in 0..MaxFaults /\ crashes' \in 0..MaxCrashes
  <2>1. /\ faults' = faults \/ (faults < MaxFaults /\ faults' = faults + 1)
        /\ crashes' = crashes \/ (crashes < MaxCrashes /\ crashes' = crashes + 1)
    BY DEF Prepare, Join, FanOutFails, CompletionFails, FanOutCompletes, Close,
       CloseReconciles, StopHarness, GateFails, BudgetReconciled, EventFails,
       ComputeReconciled, Start, Snapshot, Suspend, Crash, ForgetProcess, Resume,
       ResumeFails, boundVars
  <2>. QED
    BY <2>1, BoundsAssumption DEF DeliveryTypeOK
<1>4. /\ saved' \subseteq [jobs : SUBSET Jobs, known : SUBSET Pairs]
      /\ results' \subseteq SUBSET Jobs
  <2>1. /\ saved' \subseteq saved \cup {[jobs |-> Delivered, known |-> known]}
        /\ results' \subseteq results \cup {Delivered}
    BY DEF Prepare, Join, FanOutFails, CompletionFails, FanOutCompletes, Close,
       CloseReconciles, StopHarness, GateFails, BudgetReconciled, EventFails,
       ComputeReconciled, Start, Snapshot, Suspend, Crash, ForgetProcess, Resume,
       ResumeFails, durableVars, outboxVars
  <2>2. Delivered \subseteq Jobs /\ known \subseteq Pairs
    BY DEF Delivered, DeliveryTypeOK
  <2>. QED
    BY <2>1, <2>2 DEF DeliveryTypeOK
<1>. QED
  BY <1>1, <1>2, <1>3, <1>4 DEF DeliveryTypeOK

(* The type invariant of controller, outbox and harness. *)
THEOREM DeliveryTypes == Spec => []DeliveryTypeOK
<1>1. ASSUME Init PROVE DeliveryTypeOK
  <2>1. 0 \in 0..MaxFaults /\ 0 \in 0..MaxCrashes
    BY BoundsAssumption
  <2>2. prompts \in [Pairs -> Nat] /\ worker \in [Sessions -> Places]
    BY <1>1 DEF Init, Places
  <2>3. ledger \in Seq(Jobs) /\ delivered \in Seq(Jobs)
    BY <1>1 DEF Init
  <2>. QED
    BY <1>1, <2>1, <2>2, <2>3 DEF Init, DeliveryTypeOK
<1>2. (DeliveryInv /\ HandleInv /\ DeliveryInv' /\ HandleInv'
           /\ DeliveryTypeOK /\ [Next]_vars) => DeliveryTypeOK'
  <2>. SUFFICES ASSUME DeliveryInv, HandleInv, DeliveryInv', HandleInv', DeliveryTypeOK,
                       [Next]_vars
                PROVE  DeliveryTypeOK'
    OBVIOUS
  <2>1. CASE Next
    BY <2>1, WorkerTypes, HostTypes DEF Next
  <2>2. CASE UNCHANGED vars
    BY <2>2 DEF vars, durableVars, outboxVars, handleVars, harnessVars, callVars, boundVars,
       DeliveryTypeOK, InLedger
  <2>. QED
    BY <2>1, <2>2
<1>. QED
  BY <1>1, <1>2, InitHandle, NextHandle, DeliveryInvariant, PTL DEF Spec

-----------------------------------------------------------------------------
(* The initial state is one of the contract. *)
LEMMA InitContract == Init => Contract!Init
BY DEF Init, Contract!Init, Pairs

(* The prompt that reaches a session is the contract's step for it ...      *)
LEMMA LandsContract ==
    ASSUME DeliveryInv, NEW s \in Sessions, Worker(s)
    PROVE  [Contract!Next]_(Contract!vars)
<1>1. complete' = complete /\ results' = results
  BY DEF Worker, Goes, Check, Remembered, FindPrompt, PromptLands, PromptReturns,
     HarnessFails, HarnessRefuses, Acknowledge, AcknowledgeFails
<1>2. CASE PromptLands(s)
  <2>1. job # NoJob /\ job \in Jobs /\ prompts[<<job, s>>] = 0
    BY <1>2 DEF DeliveryInv, PromptTypes, WorkersKnow, PromptLands, Goes
  <2>2. <<job, s>> \in Jobs \X Sessions /\ prompts' = [prompts EXCEPT ![<<job, s>>] = 1]
    BY <1>2, <2>1 DEF PromptLands
  <2>3. Contract!Land(<<job, s>>)
    BY <1>1, <2>1, <2>2 DEF Contract!Land
  <2>. QED
    BY <2>2, <2>3 DEF Contract!Next
<1>3. CASE ~ PromptLands(s)
  <2>1. prompts' = prompts
    BY <1>3 DEF Worker, Check, Remembered, FindPrompt, PromptReturns, HarnessFails,
       HarnessRefuses, Acknowledge, AcknowledgeFails
  <2>. QED
    BY <1>1, <2>1 DEF Contract!vars
<1>. QED
  BY <1>2, <1>3

(* ... the completion of a job is the contract's, unless it was complete    *)
(* before ...                                                               *)
LEMMA FinishesContract ==
    ASSUME DeliveryInv, Join
    PROVE  [Contract!Next]_(Contract!vars)
<1>1. job # NoJob /\ job \in Jobs /\ UNCHANGED <<prompts, results>>
  BY DEF Join, FanOutFails, CompletionFails, FanOutCompletes, durableVars, outboxVars,
     DeliveryInv, PromptTypes
<1>2. /\ complete' \in {complete, complete \cup {job}}
      /\ complete' # complete => \A s \in Sessions : worker[s] = "done"
  BY DEF Join, FanOutFails, CompletionFails, FanOutCompletes, durableVars, outboxVars
<1>3. CASE complete' = complete
  BY <1>1, <1>3 DEF Contract!vars
<1>4. CASE complete' # complete
  <2>1. \A s \in Sessions : prompts[<<job, s>>] = 1
    BY <1>2, <1>4 DEF DeliveryInv, WorkersKnow, ReceiptsAreTrue
  <2>2. Contract!Finish(job)
    BY <1>1, <1>2, <1>4, <2>1 DEF Contract!Finish
  <2>. QED
    BY <1>1, <2>2 DEF Contract!Next
<1>. QED
  BY <1>3, <1>4

(* ... and a result is returned over the jobs close() has compared with the *)
(* outbox, all of them complete.                                            *)
LEMMA ReturnsContract ==
    ASSUME DeliveryInv, Close
    PROVE  [Contract!Next]_(Contract!vars)
<1>1. UNCHANGED <<prompts, complete>>
  BY DEF Close, CloseReconciles, StopHarness, GateFails, BudgetReconciled, EventFails,
     ComputeReconciled, durableVars, outboxVars
<1>2. CASE results' = results
  BY <1>1, <1>2 DEF Contract!vars
<1>3. CASE results' # results
  <2>1. closing = "compute" /\ results' = results \cup {Delivered}
    BY <1>3 DEF Close, CloseReconciles, StopHarness, GateFails, BudgetReconciled, EventFails,
       ComputeReconciled, durableVars
  <2>2. delivered = ledger /\ InLedger \subseteq complete /\ complete \subseteq InLedger
    BY <2>1 DEF DeliveryInv, CloseIsExclusive, Reconciles, SentIsPrepared
  <2>3. Delivered = complete
    BY <2>2 DEF Delivered, InLedger
  <2>4. \A p \in Jobs \X Sessions : prompts[p] # 0 => p[1] \in complete
    BY <2>2 DEF DeliveryInv, SentIsPrepared
  <2>5. Contract!Return
    BY <1>1, <2>1, <2>3, <2>4 DEF Contract!Return
  <2>. QED
    BY <2>5 DEF Contract!Next
<1>. QED
  BY <1>2, <1>3

(* Every step is one of the contract, or none. *)
LEMMA NextContract == DeliveryInv /\ [Next]_vars => [Contract!Next]_(Contract!vars)
<1>. SUFFICES ASSUME DeliveryInv, [Next]_vars PROVE [Contract!Next]_(Contract!vars)
  OBVIOUS
<1>1. CASE (\E s \in Sessions : Worker(s)) \/ Join \/ Close
  BY <1>1, LandsContract, FinishesContract, ReturnsContract
<1>2. CASE \/ \E ok \in BOOLEAN : Start(ok)
           \/ \E j \in Jobs : Prepare(j)
           \/ Snapshot \/ Suspend \/ Crash \/ Resume \/ ResumeFails
           \/ UNCHANGED vars
  BY <1>2 DEF Start, Prepare, Snapshot, Suspend, Crash, ForgetProcess, Resume, ResumeFails,
     vars, durableVars, outboxVars, Contract!vars
<1>. QED
  BY <1>1, <1>2 DEF Next

(* Whatever fails, is retried or dies, the controller, the outbox and the   *)
(* harness together deliver each job exactly once to each session, and a    *)
(* result covers everything that was sent.                                  *)
THEOREM DeliveryImplementsContract == Spec => ImplementsContract
<1>1. Spec => []DeliveryInv
  BY DeliveryInvariant
<1>. QED
  BY <1>1, InitContract, NextContract, PTL DEF Spec, ImplementsContract, Contract!Spec

-----------------------------------------------------------------------------

Unwinding == {"stop_runtime", "peer", "candidate", "model", "unwound", "clean", "retain",
              "retained"}
Unwinds   == {"clean", "retain", "retained"}

(* The gateways the unwinding has closed, or failed to close.              *)
Visited == CASE at = "candidate" -> {"peer"}
             [] at = "model" -> {"peer", "candidate"}
             [] at \in {"unwound"} \cup Unwinds -> {"peer", "candidate", "model"}
             [] OTHER -> {}
Measured  == {"services", "gateways", "agent_job", "plan_public", "authorize_public",
              "feedback", "plan_hidden", "authorize_hidden", "reconcile",
              "close_budget", "close_compute", "seal"}
Released  == {"feedback", "plan_hidden", "authorize_hidden", "reconcile",
              "close_budget", "close_compute", "seal"}
Steps     == Measured \cup {"admission", "reference", "authorize_reference"} \cup Unwinding

RequestStates == {"unplanned", "registered", "issued"} \cup Dispatched
Remotes == {"not_dispatched", "verified", "cancellation_requested",
            "unresolved_dispatch", "failed"}
Told(q) == request[q] \in {"spawned", "running"} =>
               \E s \in {"cancellation_requested", "unresolved_dispatch", "failed"} :
                   <<q, s>> \in audit.remote

PilotTypes ==
    /\ live \in BOOLEAN /\ raised \in BOOLEAN
    /\ at \in Steps
    /\ request \in [PilotRequests -> RequestStates]
    /\ reservation \in [Crew -> {"none", "reserved", "complete", "failed"}]
    /\ gates \subseteq Gates
    /\ runtime \in {"none", "running", "stopped"}
    /\ handle \in {"none", "active", "closed", "invalid"}
    /\ audit \in [status : {"none", "complete", "aborted"},
                  cleanup : {"none", "runtime", "model", "candidate", "peer"},
                  remote : SUBSET (PilotRequests \X Remotes),
                  uncleaned : BOOLEAN]

(* What the phases before this one have earned.                            *)
Earned ==
    /\ \A a \in Crew : reservation[a] = "complete" => request[<<"public", a>>] = "complete"
    /\ at \in Measured => request[Reference] = "complete"
    /\ at = "authorize_public" => admitted = Team
    /\ at \in Released => released = Team
    /\ at \notin Released \cup Unwinding => released = {}
    /\ PhasesAreEarned

(* What the audit may say at each step.                                    *)
AuditSound ==
    /\ at \notin Unwinding => audit.status = "none" /\ ~raised
    /\ at \in {"close_budget", "close_compute", "seal"} => runtime = "stopped"
    /\ at = "seal" => handle = "closed" /\ Closes
    /\ audit.status = "complete" => handle = "closed" /\ runtime = "stopped" /\ Closes
    /\ at \in Unwinding /\ ~raised => audit.status = "complete"
    /\ gates \cap Visited # {} => audit.cleanup # "none"
    /\ at \in Unwinds /\ raised => audit.status # "complete"
    /\ ~raised => audit.cleanup = "none"

(* What is left behind is told.                                            *)
LeftBehind ==
    /\ runtime = "running" => handle = "active" \/ audit.uncleaned
    /\ at \in Unwinding \ {"stop_runtime"} /\ runtime = "running" =>
           audit.cleanup # "none" \/ audit.uncleaned
    /\ at \notin {"clean", "retain", "retained"} => audit.remote = {}
    /\ \A q \in PilotRequests : Seen(q) => Told(q)
    /\ at \in {"retain", "retained"} /\ live /\ raised => \A q \in PilotRequests : Told(q)

PilotIInv == PilotTypes /\ Earned /\ AuditSound /\ LeftBehind

(* The requests of a run: three kinds, told apart by their first part.     *)
LEMMA RequestNames ==
    /\ Reference \in PilotRequests
    /\ \A a \in Crew : <<"public", a>> \in PilotRequests /\ <<"public", a>> # Reference
    /\ \A i \in 1..Len(HiddenPhases) :
           /\ <<"hidden", HiddenPhases[i]>> \in HiddenRequests
           /\ <<"hidden", HiddenPhases[i]>> # Reference
    /\ Team \subseteq Crew /\ Solo \in Crew
    /\ PilotRequests = {Reference} \cup PublicRequests \cup HiddenRequests
    /\ \A q \in HiddenRequests : q \notin PublicRequests /\ q # Reference
    /\ Reference \notin PublicRequests
    /\ \A q \in PublicRequests : \E a \in Crew : q = <<"public", a>>
BY PilotAssumption DEF Reference, PilotRequests, PublicRequests, HiddenRequests, Team


(* What registering and executing a request do to the requests.            *)
LEMMA Registering ==
    ASSUME PilotTypes, NEW S, Registered(S)
    PROVE  /\ request' \in [PilotRequests -> RequestStates]
           /\ \A q \in PilotRequests :
                  request'[q] = IF q \in S /\ request[q] = "unplanned" THEN "registered"
                                ELSE request[q]
BY DEF PilotTypes, Registered, RequestStates

LEMMA Executing ==
    ASSUME PilotTypes, NEW q \in PilotRequests, NEW o \in Dispatched, Executes(q, o)
    PROVE  /\ request' \in [PilotRequests -> RequestStates]
           /\ request[q] = "issued" /\ request'[q] = o
           /\ \A p \in PilotRequests : p # q => request'[p] = request[p]
BY DEF PilotTypes, Executes, RequestStates

LEMMA Issuing ==
    ASSUME PilotTypes, NEW q \in PilotRequests, Authorizing(q)
    PROVE  /\ request[q] = "registered"
           /\ at \in {"authorize_reference", "authorize_public", "authorize_hidden"}
           /\ q = Reference => at = "authorize_reference"
           /\ paid' = IF live THEN paid \cup {q} ELSE paid
           /\ \/ /\ request' = [request EXCEPT ![q] = "issued"]
                 /\ UNCHANGED <<at, raised>>
              \/ Raise /\ UNCHANGED request
           /\ UNCHANGED <<live, sealedRoutes, campaignVars, hostVars, audit>>
<1>1. Reference \notin PublicRequests /\ Reference \notin HiddenRequests
  BY RequestNames
<1> QED BY <1>1 DEF Authorizing, AuthorizeRequest, AuthorizeFails, computeVars, endVars

LEMMA TypesStep ==
    ASSUME PilotTypes, PilotNext
    PROVE  PilotTypes'
<1> USE PilotAssumption, RequestNames DEF pilotVars, computeVars, campaignVars,
        hostVars, endVars, Raise, Advances, Steps, Unwinding, Unwinds, Measured, Released,
        Dispatched, PilotTypes, RequestStates, Gates, Remotes, Cleaned, Seen
<1>1. ASSUME NEW s \in FallibleSteps, StepRaises(s) PROVE PilotTypes'
  BY <1>1 DEF StepRaises, FallibleSteps
<1>2. CASE Admit
  BY <1>2 DEF Admit
<1>3. CASE PlanReference
  BY <1>3, Registering DEF PlanReference
<1>4. CASE CreateServices
  BY <1>4 DEF CreateServices
<1>5. CASE StartCampaign
  BY <1>5 DEF StartCampaign
<1>6. ASSUME NEW q \in PilotRequests, Authorizing(q) PROVE PilotTypes'
  <2>1. request' \in [PilotRequests -> RequestStates]
    BY <1>6, Issuing
  <2>2. raised' \in BOOLEAN /\ at' \in Steps
    BY <1>6, Issuing
  <2>3. UNCHANGED <<live, reservation, gates, runtime, handle, audit>>
    BY <1>6, Issuing
  <2> HIDE RequestNames
  <2> QED BY <2>1, <2>2, <2>3
<1>7. ASSUME NEW o \in Dispatched, NEW e \in BOOLEAN, MeasureReference(o, e)
      PROVE  PilotTypes'
  <2>1. Executes(Reference, o)
    BY <1>7 DEF MeasureReference
  <2>2. request' \in [PilotRequests -> RequestStates]
    BY <2>1, Executing
  <2>3. raised' \in BOOLEAN /\ at' \in Steps
    BY <1>7 DEF MeasureReference
  <2>4. UNCHANGED <<live, reservation, gates, runtime, handle, audit>>
    BY <1>7 DEF MeasureReference
  <2> HIDE RequestNames
  <2> QED BY <2>2, <2>3, <2>4
<1>8. ASSUME NEW g \in Gates, OpenGate(g) PROVE PilotTypes'
  BY <1>8 DEF OpenGate
<1>9. ASSUME NEW b \in BOOLEAN, StartFails(b) PROVE PilotTypes'
  BY <1>9 DEF StartFails
<1>10. ASSUME NEW b \in BOOLEAN, StopRuntime(b) PROVE PilotTypes'
  BY <1>10 DEF StopRuntime
<1>11. ASSUME NEW b \in BOOLEAN, Unwound(b) PROVE PilotTypes'
  BY <1>11 DEF Unwound
<1>12. ASSUME NEW a \in Crew, Submit(a) PROVE PilotTypes'
  BY <1>12 DEF Submit
<1>13. CASE DeliverJobs
  BY <1>13 DEF DeliverJobs
<1>14. CASE PlanPublic
  <2>1. request' \in [PilotRequests -> RequestStates]
    <3>1. CASE admitted = Team
      <4>1. Registered({<<"public", a>> : a \in admitted})
        BY <1>14, <3>1, Zenon DEF PlanPublic
      <4> QED BY <4>1, Registering, Zenon
    <3>2. CASE admitted # Team
      BY <1>14, <3>2 DEF PlanPublic
    <3> QED BY <3>1, <3>2
  <2>2. UNCHANGED <<live, reservation, gates, runtime, handle, audit>>
    BY <1>14 DEF PlanPublic
  <2>3. raised' \in BOOLEAN /\ at' \in Steps
    BY <1>14 DEF PlanPublic
  <2> HIDE RequestNames
  <2> QED BY <2>1, <2>2, <2>3
<1>15. CASE Feedback
  <2>1. UNCHANGED <<live, request, reservation, gates, runtime, handle, audit>>
    BY <1>15 DEF Feedback
  <2>2. raised' \in BOOLEAN /\ at' \in Steps
    BY <1>15 DEF Feedback
  <2> HIDE RequestNames
  <2> QED BY <2>1, <2>2
<1>16. CASE DeliverFeedback
  BY <1>16 DEF DeliverFeedback
<1>17. CASE PlanHidden
  BY <1>17, Registering DEF PlanHidden
<1>18. ASSUME NEW a \in Crew, NEW o \in Dispatched, NEW v \in {"complete", "failed",
              "reserved"}, EvaluatePublic(a, o, v)
       PROVE  PilotTypes'
  BY <1>18, Executing DEF EvaluatePublic
<1>19. ASSUME NEW i \in 1..Len(HiddenPhases), NEW o \in Dispatched, EvaluateHidden(i, o)
       PROVE  PilotTypes'
  <2>1. <<"hidden", HiddenPhases[i]>> \in PilotRequests
    BY RequestNames
  <2>2. Executes(<<"hidden", HiddenPhases[i]>>, o)
    BY <1>19 DEF EvaluateHidden
  <2>3. request' \in [PilotRequests -> RequestStates]
    BY <2>1, <2>2, Executing
  <2>4. raised' \in BOOLEAN /\ at' \in Steps
    BY <1>19 DEF EvaluateHidden
  <2>5. UNCHANGED <<live, reservation, gates, runtime, handle, audit>>
    BY <1>19 DEF EvaluateHidden
  <2> HIDE RequestNames
  <2> QED BY <2>3, <2>4, <2>5
<1>20. CASE CloseStops
  BY <1>20 DEF CloseStops
<1>21. CASE CloseBudget
  BY <1>21 DEF CloseBudget
<1>22. CASE CloseCompute
  BY <1>22 DEF CloseCompute
<1>23. CASE SealStorage
  BY <1>23 DEF SealStorage
<1>24. ASSUME NEW s \in {"close_budget", "close_compute"}, Rejected(s) PROVE PilotTypes'
  BY <1>24 DEF Rejected
<1>25. ASSUME NEW g \in DOMAIN Closings, NEW o \in {"closed", "raised", "left_open"},
              CloseGate(g, o)
       PROVE  PilotTypes'
  BY <1>25 DEF CloseGate, Closings
<1>26. CASE CleanupRaises
  BY <1>26 DEF CleanupRaises
<1>27. CASE CleanedUp
  BY <1>27 DEF CleanedUp
<1>28. CASE RetainAudit
  BY <1>28 DEF RetainAudit
<1>29. ASSUME NEW q \in PilotRequests, NEW b \in BOOLEAN, Clean(q, b) PROVE PilotTypes'
  BY <1>29 DEF Clean
<1> HIDE PilotAssumption, RequestNames DEF pilotVars, computeVars, campaignVars,
        hostVars, endVars, Raise, Advances, Steps, Unwinding, Unwinds, Measured, Released,
        Dispatched, PilotTypes, RequestStates, Gates, Remotes, Cleaned, Seen
<1> QED BY <1>1, <1>2, <1>3, <1>4, <1>5, <1>6, <1>7, <1>8, <1>9, <1>10, <1>11, <1>12,
        <1>13, <1>14, <1>15, <1>16, <1>17, <1>18, <1>19, <1>20, <1>21, <1>22, <1>23,
        <1>24, <1>25, <1>26, <1>27, <1>28, <1>29 DEF PilotNext

LEMMA EarnedStep ==
    ASSUME PilotTypes, Earned, AuditSound, PilotNext
    PROVE  Earned'
<1> USE PilotAssumption, RequestNames DEF pilotVars, computeVars, campaignVars,
        hostVars, endVars, Raise, Advances, Steps, Unwinding, Unwinds, Measured, Released,
        Dispatched, PilotTypes, RequestStates, Earned, PhasesAreEarned, AuditSound,
        Closes, Team
<1>1. ASSUME NEW s \in FallibleSteps, StepRaises(s) PROVE Earned'
  BY <1>1 DEF StepRaises, FallibleSteps
<1>2. CASE Admit
  BY <1>2 DEF Admit
<1>3. CASE PlanReference
  BY <1>3, Registering DEF PlanReference
<1>4. CASE CreateServices
  BY <1>4 DEF CreateServices
<1>5. CASE StartCampaign
  BY <1>5 DEF StartCampaign
<1>6. ASSUME NEW q \in PilotRequests, Authorizing(q) PROVE Earned'
  <2>1. /\ request[q] = "registered" /\ UNCHANGED <<live, sealedRoutes, campaignVars>>
        /\ paid' = IF live THEN paid \cup {q} ELSE paid
    BY <1>6, Issuing
  <2>2. CASE request' = [request EXCEPT ![q] = "issued"] /\ UNCHANGED at
    BY <2>1, <2>2
  <2>3. CASE Raise /\ UNCHANGED request
    BY <2>1, <2>3
  <2> QED BY <1>6, <2>2, <2>3, Issuing
<1>7. ASSUME NEW o \in Dispatched, NEW e \in BOOLEAN, MeasureReference(o, e) PROVE Earned'
  BY <1>7, Executing DEF MeasureReference
<1>8. ASSUME NEW g \in Gates, OpenGate(g) PROVE Earned'
  BY <1>8 DEF OpenGate
<1>9. ASSUME NEW b \in BOOLEAN, StartFails(b) PROVE Earned'
  BY <1>9 DEF StartFails
<1>10. ASSUME NEW b \in BOOLEAN, StopRuntime(b) PROVE Earned'
  BY <1>10 DEF StopRuntime
<1>11. ASSUME NEW b \in BOOLEAN, Unwound(b) PROVE Earned'
  BY <1>11 DEF Unwound
<1>12. ASSUME NEW a \in Crew, Submit(a) PROVE Earned'
  BY <1>12 DEF Submit
<1>13. CASE DeliverJobs
  BY <1>13 DEF DeliverJobs
<1>14. CASE PlanPublic
  <2>1. CASE admitted = Team
    <3>1. PICK S : S \subseteq PublicRequests /\ Registered(S)
      <4>1. {<<"public", a>> : a \in admitted} \subseteq PublicRequests
        BY <2>1, RequestNames DEF PublicRequests
      <4> QED BY <1>14, <2>1, <4>1, Zenon DEF PlanPublic
    <3>2. \A q \in PilotRequests :
             \/ request'[q] = request[q]
             \/ /\ request[q] = "unplanned" /\ request'[q] = "registered"
                /\ q \in PublicRequests
      <4>1. \A q \in PilotRequests :
               request'[q] = IF q \in S /\ request[q] = "unplanned" THEN "registered"
                             ELSE request[q]
        BY <3>1, Registering, Zenon
      <4>2. SUFFICES ASSUME NEW q \in PilotRequests
                     PROVE  \/ request'[q] = request[q]
                            \/ /\ request[q] = "unplanned" /\ request'[q] = "registered"
                               /\ q \in PublicRequests
        BY Zenon
      <4>3. request'[q] = IF q \in S /\ request[q] = "unplanned" THEN "registered"
                         ELSE request[q]
        BY <4>1, <4>2, Zenon
      <4>4. CASE q \in S /\ request[q] = "unplanned"
        BY <3>1, <4>3, <4>4, Zenon
      <4>5. CASE ~(q \in S /\ request[q] = "unplanned")
        BY <4>3, <4>5, Zenon
      <4> QED BY <4>4, <4>5, Zenon
    <3> QED BY <1>14, <2>1, <3>2 DEF PlanPublic
  <2>2. CASE admitted # Team
    BY <1>14, <2>2 DEF PlanPublic
  <2> QED BY <2>1, <2>2
<1>15. CASE Feedback
  BY <1>15 DEF Feedback, Evaluated
<1>16. CASE DeliverFeedback
  BY <1>16 DEF DeliverFeedback
<1>17. CASE PlanHidden
  BY <1>17, Registering DEF PlanHidden
<1>18. ASSUME NEW a \in Crew, NEW o \in Dispatched, NEW v \in {"complete", "failed",
              "reserved"}, EvaluatePublic(a, o, v)
       PROVE  Earned'
  BY <1>18, Executing DEF EvaluatePublic
<1>19. ASSUME NEW i \in 1..Len(HiddenPhases), NEW o \in Dispatched, EvaluateHidden(i, o)
       PROVE  Earned'
  BY <1>19, Executing DEF EvaluateHidden
<1>20. CASE CloseStops
  BY <1>20 DEF CloseStops
<1>21. CASE CloseBudget
  BY <1>21 DEF CloseBudget
<1>22. CASE CloseCompute
  BY <1>22 DEF CloseCompute
<1>23. CASE SealStorage
  BY <1>23 DEF SealStorage
<1>24. ASSUME NEW s \in {"close_budget", "close_compute"}, Rejected(s) PROVE Earned'
  BY <1>24 DEF Rejected
<1>25. ASSUME NEW g \in DOMAIN Closings, NEW o \in {"closed", "raised", "left_open"},
              CloseGate(g, o)
       PROVE  Earned'
  BY <1>25 DEF CloseGate, Closings
<1>26. CASE CleanupRaises
  BY <1>26 DEF CleanupRaises
<1>27. CASE CleanedUp
  BY <1>27 DEF CleanedUp
<1>28. CASE RetainAudit
  BY <1>28 DEF RetainAudit
<1>29. ASSUME NEW q \in PilotRequests, NEW b \in BOOLEAN, Clean(q, b) PROVE Earned'
  BY <1>29 DEF Clean
<1> HIDE PilotAssumption, RequestNames DEF pilotVars, computeVars, campaignVars,
        hostVars, endVars, Raise, Advances, Steps, Unwinding, Unwinds, Measured, Released,
        Dispatched, PilotTypes, RequestStates, Earned, PhasesAreEarned, AuditSound,
        Closes, Team
<1> QED BY <1>1, <1>2, <1>3, <1>4, <1>5, <1>6, <1>7, <1>8, <1>9, <1>10, <1>11, <1>12,
        <1>13, <1>14, <1>15, <1>16, <1>17, <1>18, <1>19, <1>20, <1>21, <1>22, <1>23,
        <1>24, <1>25, <1>26, <1>27, <1>28, <1>29 DEF PilotNext

LEMMA AuditStep ==
    ASSUME PilotTypes, Earned, AuditSound, PilotNext
    PROVE  AuditSound'
<1> USE PilotAssumption, RequestNames DEF pilotVars, computeVars, campaignVars,
        hostVars, endVars, Raise, Advances, Steps, Unwinding, Unwinds, Measured, Released,
        Dispatched, PilotTypes, RequestStates, Earned, AuditSound, Visited, Closes, Team
<1>1. ASSUME NEW s \in FallibleSteps, StepRaises(s) PROVE AuditSound'
  BY <1>1 DEF StepRaises, FallibleSteps
<1>2. CASE Admit
  BY <1>2 DEF Admit
<1>3. CASE PlanReference
  BY <1>3, Registering DEF PlanReference
<1>4. CASE CreateServices
  BY <1>4 DEF CreateServices
<1>5. CASE StartCampaign
  BY <1>5 DEF StartCampaign
<1>6. ASSUME NEW q \in PilotRequests, Authorizing(q) PROVE AuditSound'
  BY <1>6, Issuing
<1>7. ASSUME NEW o \in Dispatched, NEW e \in BOOLEAN, MeasureReference(o, e)
      PROVE  AuditSound'
  BY <1>7, Executing DEF MeasureReference
<1>8. ASSUME NEW g \in Gates, OpenGate(g) PROVE AuditSound'
  BY <1>8 DEF OpenGate
<1>9. ASSUME NEW b \in BOOLEAN, StartFails(b) PROVE AuditSound'
  BY <1>9 DEF StartFails
<1>10. ASSUME NEW b \in BOOLEAN, StopRuntime(b) PROVE AuditSound'
  BY <1>10 DEF StopRuntime
<1>11. ASSUME NEW b \in BOOLEAN, Unwound(b) PROVE AuditSound'
  BY <1>11 DEF Unwound
<1>12. ASSUME NEW a \in Crew, Submit(a) PROVE AuditSound'
  BY <1>12 DEF Submit
<1>13. CASE DeliverJobs
  BY <1>13 DEF DeliverJobs
<1>14. CASE PlanPublic
  BY <1>14, Registering DEF PlanPublic
<1>15. CASE Feedback
  BY <1>15 DEF Feedback, Evaluated
<1>16. CASE DeliverFeedback
  BY <1>16 DEF DeliverFeedback
<1>17. CASE PlanHidden
  BY <1>17, Registering DEF PlanHidden
<1>18. ASSUME NEW a \in Crew, NEW o \in Dispatched, NEW v \in {"complete", "failed",
              "reserved"}, EvaluatePublic(a, o, v)
       PROVE  AuditSound'
  BY <1>18, Executing DEF EvaluatePublic
<1>19. ASSUME NEW i \in 1..Len(HiddenPhases), NEW o \in Dispatched, EvaluateHidden(i, o)
       PROVE  AuditSound'
  BY <1>19, Executing DEF EvaluateHidden
<1>20. CASE CloseStops
  BY <1>20 DEF CloseStops
<1>21. CASE CloseBudget
  BY <1>21 DEF CloseBudget
<1>22. CASE CloseCompute
  BY <1>22 DEF CloseCompute
<1>23. CASE SealStorage
  BY <1>23 DEF SealStorage
<1>24. ASSUME NEW s \in {"close_budget", "close_compute"}, Rejected(s) PROVE AuditSound'
  BY <1>24 DEF Rejected
<1>25. ASSUME NEW g \in DOMAIN Closings, NEW o \in {"closed", "raised", "left_open"},
              CloseGate(g, o)
       PROVE  AuditSound'
  <2>1. /\ g \in {"peer", "candidate", "model"} /\ at = g
        /\ at' = IF g = "peer" THEN "candidate" ELSE IF g = "candidate" THEN "model"
                                                  ELSE "unwound"
        /\ runtime' = runtime /\ handle' = handle
    BY <1>25 DEF CloseGate, Closings
  <2>2. \/ audit' = audit /\ raised' = raised /\ gates' = gates \ {g}
        \/ /\ audit' = [audit EXCEPT !.cleanup = g] /\ raised' = TRUE
           /\ gates' \subseteq gates
    BY <1>25 DEF CloseGate
  <2>3. Closes' = Closes
    BY <1>25 DEF CloseGate
  <2>4. gates' \cap Visited' # {} => audit'.cleanup # "none"
    BY <2>1, <2>2
  <2>5. ~raised' => audit'.cleanup = "none"
    BY <2>2
  <2>6. /\ audit'.status = "complete" => handle' = "closed" /\ runtime' = "stopped" /\ Closes'
        /\ at' \in Unwinding /\ ~raised' => audit'.status = "complete"
        /\ at' \notin Unwinds
    BY <2>1, <2>2, <2>3
  <2>. QED
    BY <2>1, <2>2, <2>3, <2>4, <2>5, <2>6
<1>26. CASE CleanupRaises
  BY <1>26 DEF CleanupRaises
<1>27. CASE CleanedUp
  BY <1>27 DEF CleanedUp
<1>28. CASE RetainAudit
  BY <1>28 DEF RetainAudit
<1>29. ASSUME NEW q \in PilotRequests, NEW b \in BOOLEAN, Clean(q, b) PROVE AuditSound'
  BY <1>29 DEF Clean
<1> HIDE PilotAssumption, RequestNames DEF pilotVars, computeVars, campaignVars,
        hostVars, endVars, Raise, Advances, Steps, Unwinding, Unwinds, Measured, Released,
        Dispatched, PilotTypes, RequestStates, Earned, AuditSound, Visited, Closes, Team
<1> QED BY <1>1, <1>2, <1>3, <1>4, <1>5, <1>6, <1>7, <1>8, <1>9, <1>10, <1>11, <1>12,
        <1>13, <1>14, <1>15, <1>16, <1>17, <1>18, <1>19, <1>20, <1>21, <1>22, <1>23,
        <1>24, <1>25, <1>26, <1>27, <1>28, <1>29 DEF PilotNext

LEMMA LeftStep ==
    ASSUME PilotTypes, AuditSound, LeftBehind, PilotNext
    PROVE  LeftBehind'
<1> USE PilotAssumption, RequestNames DEF pilotVars, computeVars, campaignVars,
        hostVars, endVars, Raise, Advances, Steps, Unwinding, Unwinds, Measured, Released,
        Dispatched, PilotTypes, RequestStates, Remotes, AuditSound, LeftBehind, Told,
        Seen, Cleaned
<1>1. ASSUME NEW s \in FallibleSteps, StepRaises(s) PROVE LeftBehind'
  BY <1>1 DEF StepRaises, FallibleSteps
<1>2. CASE Admit
  BY <1>2 DEF Admit
<1>3. CASE PlanReference
  BY <1>3, Registering DEF PlanReference
<1>4. CASE CreateServices
  BY <1>4 DEF CreateServices
<1>5. CASE StartCampaign
  BY <1>5 DEF StartCampaign
<1>6. ASSUME NEW q \in PilotRequests, Authorizing(q) PROVE LeftBehind'
  BY <1>6, Issuing
<1>7. ASSUME NEW o \in Dispatched, NEW e \in BOOLEAN, MeasureReference(o, e)
      PROVE  LeftBehind'
  BY <1>7, Executing DEF MeasureReference
<1>8. ASSUME NEW g \in Gates, OpenGate(g) PROVE LeftBehind'
  BY <1>8 DEF OpenGate
<1>9. ASSUME NEW b \in BOOLEAN, StartFails(b) PROVE LeftBehind'
  BY <1>9 DEF StartFails
<1>10. ASSUME NEW b \in BOOLEAN, StopRuntime(b) PROVE LeftBehind'
  BY <1>10 DEF StopRuntime
<1>11. ASSUME NEW b \in BOOLEAN, Unwound(b) PROVE LeftBehind'
  BY <1>11 DEF Unwound
<1>12. ASSUME NEW a \in Crew, Submit(a) PROVE LeftBehind'
  BY <1>12 DEF Submit
<1>13. CASE DeliverJobs
  BY <1>13 DEF DeliverJobs
<1>14. CASE PlanPublic
  BY <1>14, Registering DEF PlanPublic
<1>15. CASE Feedback
  BY <1>15 DEF Feedback, Evaluated
<1>16. CASE DeliverFeedback
  BY <1>16 DEF DeliverFeedback
<1>17. CASE PlanHidden
  BY <1>17, Registering DEF PlanHidden
<1>18. ASSUME NEW a \in Crew, NEW o \in Dispatched, NEW v \in {"complete", "failed",
              "reserved"}, EvaluatePublic(a, o, v)
       PROVE  LeftBehind'
  BY <1>18, Executing DEF EvaluatePublic
<1>19. ASSUME NEW i \in 1..Len(HiddenPhases), NEW o \in Dispatched, EvaluateHidden(i, o)
       PROVE  LeftBehind'
  BY <1>19, Executing DEF EvaluateHidden
<1>20. CASE CloseStops
  BY <1>20 DEF CloseStops
<1>21. CASE CloseBudget
  BY <1>21 DEF CloseBudget
<1>22. CASE CloseCompute
  BY <1>22 DEF CloseCompute
<1>23. CASE SealStorage
  BY <1>23 DEF SealStorage
<1>24. ASSUME NEW s \in {"close_budget", "close_compute"}, Rejected(s) PROVE LeftBehind'
  BY <1>24 DEF Rejected
<1>25. ASSUME NEW g \in DOMAIN Closings, NEW o \in {"closed", "raised", "left_open"},
              CloseGate(g, o)
       PROVE  LeftBehind'
  BY <1>25 DEF CloseGate, Closings
<1>26. CASE CleanupRaises
  BY <1>26 DEF CleanupRaises
<1>27. CASE CleanedUp
  BY <1>27 DEF CleanedUp
<1>28. CASE RetainAudit
  BY <1>28 DEF RetainAudit
<1>29. ASSUME NEW q \in PilotRequests, NEW b \in BOOLEAN, Clean(q, b) PROVE LeftBehind'
  BY <1>29 DEF Clean
<1> HIDE PilotAssumption, RequestNames DEF pilotVars, computeVars, campaignVars,
        hostVars, endVars, Raise, Advances, Steps, Unwinding, Unwinds, Measured, Released,
        Dispatched, PilotTypes, RequestStates, Remotes, AuditSound, LeftBehind, Told,
        Seen, Cleaned
<1> QED BY <1>1, <1>2, <1>3, <1>4, <1>5, <1>6, <1>7, <1>8, <1>9, <1>10, <1>11, <1>12,
        <1>13, <1>14, <1>15, <1>16, <1>17, <1>18, <1>19, <1>20, <1>21, <1>22, <1>23,
        <1>24, <1>25, <1>26, <1>27, <1>28, <1>29 DEF PilotNext

LEMMA PilotStutters ==
    PilotIInv /\ UNCHANGED pilotVars => PilotIInv'
BY DEF PilotIInv, PilotTypes, Earned, PhasesAreEarned, AuditSound, Visited, LeftBehind, Told, Seen,
       Closes, Team, Gates, pilotVars, computeVars, campaignVars, hostVars, endVars

(* The inductive invariant holds of every run.                             *)
THEOREM PilotInvariant == PilotSpec => []PilotIInv
<1>1. PilotInit => PilotIInv
  <2> SUFFICES ASSUME PilotInit PROVE PilotIInv
    OBVIOUS
  <2>1. PilotTypes
    BY DEF PilotInit, PilotTypes, Steps, RequestStates, NoAudit, Gates
  <2>2. Earned
    BY RequestNames DEF PilotInit, Earned, PhasesAreEarned, Measured, Released, Dispatched
  <2>3. AuditSound /\ LeftBehind
    BY DEF PilotInit, AuditSound, Visited, LeftBehind, Told, Seen, Unwinding, Unwinds, NoAudit
  <2> QED BY <2>1, <2>2, <2>3 DEF PilotIInv
<1>2. PilotIInv /\ [PilotNext]_pilotVars => PilotIInv'
  BY TypesStep, EarnedStep, AuditStep, LeftStep, PilotStutters DEF PilotIInv
<1> QED BY <1>1, <1>2, PTL DEF PilotSpec

(* Whatever raises and whenever agents submit, results are released only   *)
(* when all evaluations are complete, and no phase spends before the phases*)
(* it rests on are complete (solo_pilot_command.py, solo_pilot_runner.py). *)
THEOREM PhasesStayEarned == PilotSpec => []PhasesAreEarned
<1>1. PilotIInv => PhasesAreEarned
  BY DEF PilotIInv, Earned
<1> QED BY <1>1, PilotInvariant, PTL

(* A run whose audit says complete has stopped its runtime, closed every   *)
(* gateway and its campaign, and completed every request of its inventory. *)
THEOREM CompleteStaysClosed == PilotSpec => []CompleteIsClosed
<1>1. PilotIInv => CompleteIsClosed
  BY DEF PilotIInv, PilotTypes, AuditSound, Visited, Gates, Closes,
     CompleteIsClosed, Unwinds
<1> QED BY <1>1, PilotInvariant, PTL

(* The audit of a run that was not completed tells of everything that may  *)
(* have been left running or billed, whatever raised during the unwinding. *)
THEOREM AbortStaysTold == PilotSpec => []AbortIsTold
<1>1. PilotIInv => AbortIsTold
  BY DEF PilotIInv, PilotTypes, AuditSound, Visited, Gates, LeftBehind, Told, AbortIsTold, Unwinds,
     Unwinding
<1> QED BY <1>1, PilotInvariant, PTL
-----------------------------------------------------------------------------
(* The runs of the plan, as many as its blocks have positions.             *)
Slots == 4 * Blocks

(* Where a command is while it works on a run, and once that run is closed.*)
InRun   == {"resolved", "frozen", "delivering", "prepared", "completed", "closing",
            "stopped", "budgeted", "computed", "closed", "snapshotted"}
Working == InRun \cup {"authorized", "rehearsed"}
Closing == {"stopped", "budgeted", "computed", "closed", "snapshotted"}

(* The shape of what is on disk and of what the command holds.             *)
Documents ==
    /\ repository.source \in SourceVersions
    /\ DOMAIN repository = {"source", "registered"}
    /\ authority \in SourceVersions \cup {Unwritten}
    /\ DOMAIN runFiles = 1..Slots /\ DOMAIN outbox = 1..Slots /\ DOMAIN eventLog = 1..Slots
    /\ \A r \in 1..Slots : DOMAIN runFiles[r] = {"resolved", "frozen", "snapshot", "audit"}
    /\ DOMAIN command = {"at", "run", "job", "authority", "mission", "audits"}
    /\ \E S : command.audits \in Seq(S)

(* A command that works found no study audit, holds the authority that was *)
(* written, and has verified every run before its own.                     *)
CommandStands ==
    /\ command.at \in Working \cup {"none", "composed", "audited"}
    /\ command.at \in {"none", "composed"} => command.run = 1 /\ command.audits = <<>>
    /\ command.at \in Working =>
          /\ studyAudit = Unwritten
          /\ command.authority = authority /\ authority \in SourceVersions
          /\ command.run \in 1..Slots + 1
          /\ command.at = "rehearsed" => command.run = Slots + 1
          /\ Len(command.audits) = command.run - 1
          /\ \A r \in 1..Slots : r < command.run => RunVerified(r, command.audits[r])

(* How far the run is at which a command works.                            *)
RunStands ==
    /\ command.at \in InRun =>
          /\ command.run \in 1..Slots
          /\ runFiles[command.run].resolved = Resolved(command.run, authority)
    /\ command.at \in InRun \ {"resolved"} => runFiles[command.run].frozen
    /\ command.at \in Closing => RunReconciles(command.run)
    /\ command.at = "snapshotted" => runFiles[command.run].snapshot = held

(* A study audit holds one verified audit for every run of the plan.       *)
AuditHolds ==
    studyAudit # Unwritten =>
        /\ authority \in SourceVersions /\ studyAudit.authority = authority
        /\ Len(studyAudit.runs) = Slots
        /\ \A r \in 1..Slots : RunVerified(r, studyAudit.runs[r])

(* The inductive invariant of the rehearsal.                               *)
StudyInv == Documents /\ CommandStands /\ RunStands /\ AuditHolds

(* What belongs to a run.                                                  *)
SameRun(r) == runFiles'[r] = runFiles[r] /\ outbox'[r] = outbox[r] /\ eventLog'[r] = eventLog[r]

(* The runs are numbered from one, whatever the number of blocks.          *)
LEMMA SlotsAre == Slots \in Nat /\ RehearsedRuns = 1..Slots
BY StudyAssumption DEF Slots, RehearsedRuns

(* _verify_run_audit() reads only the run it is about: an audit that was   *)
(* verified stays so while another run is worked on.                       *)
LEMMA VerifiedStays ==
    ASSUME NEW r, NEW seen, SameRun(r), UNCHANGED authority, RunVerified(r, seen)
    PROVE  RunVerified(r, seen)'
BY DEF SameRun, RunVerified, RunReconciles, Resolved

(* Nothing is written yet and no command is running.                       *)
LEMMA StudyInvInit == StudyInit => StudyInv
<1>. SUFFICES ASSUME StudyInit PROVE StudyInv
  OBVIOUS
<1>1. command = NoCommand /\ authority = Unwritten /\ studyAudit = Unwritten
  BY DEF StudyInit
<1>2. NoCommand.audits \in Seq({}) /\ NoCommand.at = "none" /\ NoCommand.run = 1 /\ NoCommand.audits = <<>>
      /\ DOMAIN NoCommand = {"at", "run", "job", "authority", "mission", "audits"}
  BY DEF NoCommand
<1>3. Documents
  BY <1>1, <1>2, SlotsAre, StudyAssumption DEF StudyInit, Documents, NoFiles
<1>4. CommandStands /\ RunStands /\ AuditHolds
  BY <1>1, <1>2 DEF CommandStands, RunStands, AuditHolds, Working, InRun, Closing
<1>. QED
  BY <1>3, <1>4 DEF StudyInv

(* A command ends: what it wrote stays.                                    *)
LEMMA EndStep ==
    ASSUME StudyInv, CommandEnds, command.at # "none",
           UNCHANGED <<repository, runFiles, eventLog, outbox, studyAudit>>,
           authority' \in SourceVersions, authority # Unwritten => authority' = authority
    PROVE  StudyInv'
<1>1. command' = NoCommand /\ NoCommand.at = "none" /\ NoCommand.run = 1 /\ NoCommand.audits = <<>>
      /\ DOMAIN NoCommand = {"at", "run", "job", "authority", "mission", "audits"} /\ NoCommand.audits \in Seq({})
  BY DEF CommandEnds, NoCommand
<1>2. Documents'
  BY <1>1 DEF StudyInv, Documents
<1>3. CommandStands' /\ RunStands'
  BY <1>1 DEF CommandStands, RunStands, Working, InRun, Closing
<1>4. AuditHolds'
  <2>1. CASE studyAudit = Unwritten
    BY <2>1 DEF AuditHolds
  <2>2. CASE studyAudit # Unwritten
    <3>1. authority' = authority /\ \A r : SameRun(r)
      BY <2>2, StudyAssumption DEF StudyInv, AuditHolds, SameRun
    <3>2. \A r \in 1..Slots : RunVerified(r, studyAudit.runs[r])'
      BY <2>2, <3>1, VerifiedStays DEF StudyInv, AuditHolds
    <3>. QED
      BY <2>2, <3>1, <3>2 DEF StudyInv, AuditHolds
  <2>. QED
    BY <2>1, <2>2
<1>. QED
  BY <1>2, <1>3, <1>4 DEF StudyInv

(* A command that works and raises or dies leaves what it wrote.           *)
LEMMA WorkingEnds ==
    ASSUME StudyInv, command.at \in Working, CommandEnds,
           UNCHANGED <<repository, authority, runFiles, eventLog, outbox, studyAudit>>
    PROVE  StudyInv'
<1>1. command.at # "none"
  BY DEF Working, InRun
<1>2. authority \in SourceVersions
  BY DEF StudyInv, CommandStands
<1>. QED
  BY <1>1, <1>2, EndStep

(* A command works on at its run: the runs before it stay verified.        *)
LEMMA WorkStep ==
    ASSUME StudyInv, command.at \in Working, UNCHANGED <<repository, authority, studyAudit>>,
           Documents', RunStands', command'.at \in InRun,
           command'.run = command.run, command'.authority = command.authority,
           command'.audits = command.audits,
           \A r \in 1..Slots : r # command.run => SameRun(r)
    PROVE  StudyInv'
<1>1. \A r \in 1..Slots : r < command.run => RunVerified(r, command.audits[r])'
  BY VerifiedStays, SlotsAre DEF StudyInv, CommandStands
<1>2. CommandStands'
  BY <1>1 DEF StudyInv, CommandStands, Working, InRun
<1>3. AuditHolds'
  BY DEF StudyInv, CommandStands, AuditHolds
<1>. QED
  BY <1>2, <1>3 DEF StudyInv

(* A command is given, and has nothing from the commands before it.        *)
LEMMA ComposeStep == ASSUME StudyInv, Compose PROVE StudyInv'
<1>1. command' = [NoCommand EXCEPT !.at = "composed"] /\ command.at = "none"
      /\ UNCHANGED <<repository, authority, runFiles, eventLog, outbox, studyAudit>>
  BY DEF Compose
<1>2. command'.at = "composed" /\ command'.run = 1 /\ command'.audits = <<>>
      /\ DOMAIN command' = {"at", "run", "job", "authority", "mission", "audits"} /\ command'.audits \in Seq({})
  BY <1>1 DEF NoCommand
<1>3. Documents'
  BY <1>1, <1>2 DEF StudyInv, Documents
<1>4. CommandStands' /\ RunStands'
  BY <1>2 DEF CommandStands, RunStands, Working, InRun, Closing
<1>5. AuditHolds'
  BY <1>1 DEF StudyInv, AuditHolds, RunVerified, RunReconciles, Resolved
<1>. QED
  BY <1>3, <1>4, <1>5 DEF StudyInv

(* The command holds the authority on disk, be it new or found there; it   *)
(* goes on only where no study audit is.                                   *)
LEMMA AuthorizeStep == ASSUME StudyInv, AuthorizeStudy PROVE StudyInv'
<1>1. /\ command.at = "composed" /\ command.run = 1 /\ command.audits = <<>>
      /\ UNCHANGED <<repository, runFiles, eventLog, outbox, studyAudit>>
      /\ authority' = IF authority = Unwritten THEN repository.source ELSE authority
      /\ repository.source \in SourceVersions /\ authority \in SourceVersions \cup {Unwritten}
  BY DEF AuthorizeStudy, StudyInv, CommandStands, Documents
<1>2. CASE ~ Authorized
  <2>1. CommandEnds
    BY <1>2 DEF AuthorizeStudy
  <2>2. authority' \in SourceVersions /\ (authority # Unwritten => authority' = authority)
    BY <1>1
  <2>. QED
    BY <1>1, <2>1, <2>2, EndStep
<1>3. CASE Authorized
  <2>1. /\ studyAudit = Unwritten /\ authority' = repository.source
        /\ command' = [command EXCEPT !.at = "authorized", !.authority = repository.source]
    BY <1>1, <1>3 DEF AuthorizeStudy, Authorized, WritesOnce
  <2>2. /\ command'.at = "authorized" /\ command'.run = 1 /\ command'.audits = <<>>
        /\ command'.authority = repository.source /\ DOMAIN command' = DOMAIN command
    BY <1>1, <2>1 DEF StudyInv, Documents
  <2>3. Documents'
    BY <1>1, <2>1, <2>2 DEF StudyInv, Documents
  <2>4. Len(<<>>) = 0 /\ 1 \in 1..Slots + 1 /\ \A r \in 1..Slots : ~(r < 1)
    BY SlotsAre
  <2>5. CommandStands'
    BY <1>1, <2>1, <2>2, <2>4 DEF CommandStands, Working, InRun
  <2>6. RunStands' /\ AuditHolds'
    BY <1>1, <2>1, <2>2 DEF RunStands, AuditHolds, InRun, Closing
  <2>. QED
    BY <2>3, <2>5, <2>6 DEF StudyInv
<1>. QED
  BY <1>2, <1>3

(* resolved-run.json is a function of the plan and the authority: a second *)
(* command finds what it would write.                                      *)
LEMMA ResolveStep == ASSUME StudyInv, NEW r \in RehearsedRuns, ResolveRun(r) PROVE StudyInv'
<1>1. /\ command.at = "authorized" /\ command.at \in Working /\ command.run = r /\ r \in 1..Slots
      /\ command.authority = authority
      /\ UNCHANGED <<repository, authority, studyAudit, outbox, eventLog>>
  BY SlotsAre DEF ResolveRun, OutsideRuns, Working, StudyInv, CommandStands
<1>2. CASE ~ WritesOnce(runFiles[r].resolved, Resolved(r, command.authority))
  <2>1. CommandEnds /\ UNCHANGED runFiles
    BY <1>2 DEF ResolveRun
  <2>. QED
    BY <1>1, <2>1, WorkingEnds
<1>3. CASE WritesOnce(runFiles[r].resolved, Resolved(r, command.authority))
  <2>1. /\ runFiles' = [runFiles EXCEPT ![r].resolved = Resolved(r, command.authority)]
        /\ command' = [command EXCEPT !.at = "resolved", !.job = 1,
                   !.mission = IF PositionOf(r) = 1 THEN repository.registered["mission"] ELSE @]
    BY <1>3 DEF ResolveRun
  <2>2. /\ command'.at = "resolved" /\ command'.run = r /\ command'.audits = command.audits
        /\ command'.authority = command.authority /\ DOMAIN command' = DOMAIN command
    BY <1>1, <2>1 DEF StudyInv, Documents
  <2>3. /\ runFiles'[r].resolved = Resolved(r, authority)
        /\ \A k \in 1..Slots : k # r => runFiles'[k] = runFiles[k]
        /\ DOMAIN runFiles' = DOMAIN runFiles /\ \A k \in 1..Slots : DOMAIN runFiles'[k] = DOMAIN runFiles[k]
    BY <1>1, <2>1 DEF StudyInv, Documents
  <2>4. Documents'
    BY <1>1, <2>2, <2>3 DEF StudyInv, Documents
  <2>5. RunStands'
    BY <1>1, <2>2, <2>3 DEF RunStands, InRun, Closing, Resolved
  <2>6. \A k \in 1..Slots : k # command.run => SameRun(k)
    BY <1>1, <2>3 DEF SameRun
  <2>. QED
    BY <1>1, <2>2, <2>4, <2>5, <2>6, WorkStep DEF InRun
<1>. QED
  BY <1>2, <1>3

(* The manifest without compute is written.                                *)
LEMMA FreezeStep == ASSUME StudyInv, NEW r \in RehearsedRuns, FreezeCompute(r) PROVE StudyInv'
<1>1. /\ command.at = "resolved" /\ command.at \in Working /\ command.run = r /\ r \in 1..Slots
      /\ UNCHANGED <<repository, authority, studyAudit, outbox, eventLog>>
      /\ runFiles' = [runFiles EXCEPT ![r].frozen = TRUE]
      /\ command' = [command EXCEPT !.at = "frozen"]
  BY SlotsAre DEF FreezeCompute, Reaches, OutsideRuns, Working, InRun
<1>2. /\ command'.at = "frozen" /\ command'.run = r /\ command'.audits = command.audits
      /\ command'.authority = command.authority /\ DOMAIN command' = DOMAIN command
  BY <1>1 DEF StudyInv, Documents
<1>3. /\ runFiles'[r].resolved = runFiles[r].resolved /\ runFiles'[r].frozen = TRUE
      /\ \A k \in 1..Slots : k # r => runFiles'[k] = runFiles[k]
      /\ DOMAIN runFiles' = DOMAIN runFiles /\ \A k \in 1..Slots : DOMAIN runFiles'[k] = DOMAIN runFiles[k]
  BY <1>1 DEF StudyInv, Documents
<1>4. Documents'
  BY <1>1, <1>2, <1>3 DEF StudyInv, Documents
<1>5. RunStands'
  BY <1>1, <1>2, <1>3 DEF StudyInv, RunStands, InRun, Closing, Resolved
<1>6. \A k \in 1..Slots : k # command.run => SameRun(k)
  BY <1>1, <1>3 DEF SameRun
<1>. QED
  BY <1>1, <1>2, <1>4, <1>5, <1>6, WorkStep DEF InRun

(* A step that leaves the files alone and is between freezing and closing. *)
LEMMA DeliverySteps ==
    ASSUME StudyInv, NEW r \in 1..Slots, command.run = r,
           command.at \in InRun \ {"resolved"},
           UNCHANGED <<repository, authority, studyAudit, runFiles>>,
           command'.at \in {"delivering", "prepared", "completed", "closing"},
           command'.run = r, command'.audits = command.audits,
           command'.authority = command.authority, DOMAIN command' = DOMAIN command,
           \A k \in 1..Slots : k # r => outbox'[k] = outbox[k] /\ eventLog'[k] = eventLog[k],
           DOMAIN outbox' = DOMAIN outbox, DOMAIN eventLog' = DOMAIN eventLog
    PROVE  StudyInv'
<1>1. Documents'
  BY DEF StudyInv, Documents
<1>2. RunStands'
  BY DEF StudyInv, RunStands, InRun, Closing, Resolved
<1>3. \A k \in 1..Slots : k # command.run => SameRun(k)
  BY DEF SameRun
<1>. QED
  BY <1>1, <1>2, <1>3, WorkStep DEF Working, InRun

(* A new fake harness, and an event in the log of the run.                 *)
LEMMA StartStep == ASSUME StudyInv, NEW r \in RehearsedRuns, StartRun(r) PROVE StudyInv'
<1>1. /\ command.at = "frozen" /\ command.run = r /\ r \in 1..Slots
      /\ command' = [command EXCEPT !.at = "delivering"]
      /\ eventLog' = [eventLog EXCEPT ![r] = Append(@, "campaign.started")]
      /\ UNCHANGED <<repository, authority, studyAudit, runFiles, outbox>>
  BY SlotsAre DEF StartRun, Reaches, Appends, OutsideRuns
<1>2. /\ command'.at = "delivering" /\ command'.run = r /\ command'.audits = command.audits
      /\ command'.authority = command.authority /\ DOMAIN command' = DOMAIN command
      /\ DOMAIN eventLog' = DOMAIN eventLog /\ \A k \in 1..Slots : k # r => eventLog'[k] = eventLog[k]
  BY <1>1 DEF StudyInv, Documents
<1>. QED
  BY <1>1, <1>2, DeliverySteps DEF InRun

(* A row is inserted, or is there with the same job, or the command ends.  *)
LEMMA PrepareStep ==
    ASSUME StudyInv, NEW r \in RehearsedRuns, NEW j \in 1..StudyJobs, PrepareJob(r, j) PROVE StudyInv'
<1>1. /\ command.at = "delivering" /\ command.run = r /\ r \in 1..Slots
      /\ UNCHANGED <<repository, authority, studyAudit, runFiles, eventLog>>
  BY SlotsAre DEF PrepareJob, OutsideRuns
<1>2. CASE CommandEnds /\ UNCHANGED outbox
  BY <1>1, <1>2, WorkingEnds DEF Working, InRun
<1>3. CASE /\ command' = [command EXCEPT !.at = "prepared"]
           /\ \/ UNCHANGED outbox
              \/ outbox' = [outbox EXCEPT ![r][j].status = "prepared", ![r][j].mission = command.mission]
  <2>1. /\ command'.at = "prepared" /\ command'.run = r /\ command'.audits = command.audits
        /\ command'.authority = command.authority /\ DOMAIN command' = DOMAIN command
    BY <1>1, <1>3 DEF StudyInv, Documents
  <2>2. DOMAIN outbox' = DOMAIN outbox /\ \A k \in 1..Slots : k # r => outbox'[k] = outbox[k]
    BY <1>1, <1>3 DEF StudyInv, Documents
  <2>. QED
    BY <1>1, <2>1, <2>2, DeliverySteps DEF InRun
<1>. QED
  BY <1>2, <1>3 DEF PrepareJob

(* A session is handed its job and its receipt is kept.                    *)
LEMMA DeliverStep ==
    ASSUME StudyInv, NEW r \in RehearsedRuns, NEW j \in 1..StudyJobs, NEW s, DeliverTo(r, j, s)
    PROVE  StudyInv'
<1>1. /\ command.at = "prepared" /\ command.run = r /\ r \in 1..Slots
      /\ outbox' = [outbox EXCEPT ![r][j].acked = @ \cup {s}]
      /\ UNCHANGED <<repository, authority, studyAudit, runFiles, eventLog, command>>
  BY SlotsAre DEF DeliverTo, OutsideRuns
<1>2. DOMAIN outbox' = DOMAIN outbox /\ \A k \in 1..Slots : k # r => outbox'[k] = outbox[k]
  BY <1>1 DEF StudyInv, Documents
<1>. QED
  BY <1>1, <1>2, DeliverySteps DEF InRun

(* A job is complete once every session of the run has its receipt.        *)
LEMMA CompleteStep ==
    ASSUME StudyInv, NEW r \in RehearsedRuns, NEW j \in 1..StudyJobs, CompleteJob(r, j) PROVE StudyInv'
<1>1. /\ command.at = "prepared" /\ command.run = r /\ r \in 1..Slots
      /\ command' = [command EXCEPT !.at = "completed"]
      /\ outbox' = [outbox EXCEPT ![r][j].status = "complete"]
      /\ UNCHANGED <<repository, authority, studyAudit, runFiles, eventLog>>
  BY SlotsAre DEF CompleteJob, Reaches, OutsideRuns
<1>2. /\ command'.at = "completed" /\ command'.run = r /\ command'.audits = command.audits
      /\ command'.authority = command.authority /\ DOMAIN command' = DOMAIN command
      /\ DOMAIN outbox' = DOMAIN outbox /\ \A k \in 1..Slots : k # r => outbox'[k] = outbox[k]
  BY <1>1 DEF StudyInv, Documents
<1>. QED
  BY <1>1, <1>2, DeliverySteps DEF InRun

(* The next job, or the closing of the run.                                *)
LEMMA AnnounceStep ==
    ASSUME StudyInv, NEW r \in RehearsedRuns, NEW j \in 1..StudyJobs, AnnounceJob(r, j) PROVE StudyInv'
<1>1. /\ command.at = "completed" /\ command.run = r /\ r \in 1..Slots
      /\ command' = IF j = StudyJobs THEN [command EXCEPT !.at = "closing"]
                    ELSE [command EXCEPT !.at = "delivering", !.job = j + 1]
      /\ eventLog' = [eventLog EXCEPT ![r] = Append(@, "job.delivered")]
      /\ UNCHANGED <<repository, authority, studyAudit, runFiles, outbox>>
  BY SlotsAre DEF AnnounceJob, Appends, OutsideRuns
<1>2. /\ command'.at \in {"closing", "delivering"} /\ command'.run = r /\ command'.audits = command.audits
      /\ command'.authority = command.authority /\ DOMAIN command' = DOMAIN command
      /\ DOMAIN eventLog' = DOMAIN eventLog /\ \A k \in 1..Slots : k # r => eventLog'[k] = eventLog[k]
  BY <1>1 DEF StudyInv, Documents
<1>. QED
  BY <1>1, <1>2, DeliverySteps DEF InRun

(* The run is closed, beginning with an outbox that reconciles; nothing    *)
(* is delivered after that.                                                *)
LEMMA CloseStep == ASSUME StudyInv, NEW r \in RehearsedRuns, CloseRun(r) PROVE StudyInv'
<1>1. PICK i \in 1..4 :
         /\ command.at = CloseSteps[i].at /\ command' = [command EXCEPT !.at = CloseSteps[i].to]
         /\ command.run = r /\ (i = 1 => RunReconciles(r))
         /\ eventLog' = [eventLog EXCEPT ![r] = Append(@, CloseSteps[i].event)]
         /\ UNCHANGED <<repository, authority, studyAudit, runFiles, outbox>>
  <2>1. DOMAIN CloseSteps = 1..4
    BY DEF CloseSteps
  <2>. QED
    BY <2>1 DEF CloseRun, Reaches, Appends, OutsideRuns
<1>2. /\ command.at \in {"closing", "stopped", "budgeted", "computed"}
      /\ CloseSteps[i].to \in {"stopped", "budgeted", "computed", "closed"}
      /\ i # 1 => command.at \in {"stopped", "budgeted", "computed"}
  BY <1>1 DEF CloseSteps
<1>3. /\ command'.at \in {"stopped", "budgeted", "computed", "closed"} /\ command'.run = r
      /\ command'.audits = command.audits
      /\ command'.authority = command.authority /\ DOMAIN command' = DOMAIN command
      /\ DOMAIN eventLog' = DOMAIN eventLog /\ \A k \in 1..Slots : k # r => eventLog'[k] = eventLog[k]
      /\ r \in 1..Slots
  BY <1>1, <1>2, SlotsAre DEF StudyInv, Documents
<1>4. Documents'
  BY <1>1, <1>3 DEF StudyInv, Documents
<1>5. RunReconciles(r)
  BY <1>1, <1>2 DEF StudyInv, RunStands, Closing
<1>6. RunStands'
  BY <1>1, <1>2, <1>3, <1>5 DEF StudyInv, RunStands, InRun, Closing, Resolved, RunReconciles
<1>7. \A k \in 1..Slots : k # command.run => SameRun(k)
  BY <1>1, <1>3 DEF SameRun
<1>. QED
  BY <1>1, <1>2, <1>3, <1>4, <1>6, <1>7, WorkStep DEF Working, InRun

(* The snapshot of the harness is written, or was the same.                *)
LEMMA SnapshotStep == ASSUME StudyInv, NEW r \in RehearsedRuns, RetainSnapshot(r) PROVE StudyInv'
<1>1. /\ command.at = "closed" /\ command.at \in Working /\ command.run = r /\ r \in 1..Slots
      /\ UNCHANGED <<repository, authority, studyAudit, eventLog, outbox>>
  BY SlotsAre DEF RetainSnapshot, OutsideRuns, Working, InRun
<1>2. CASE CommandEnds /\ UNCHANGED runFiles
  BY <1>1, <1>2, WorkingEnds
<1>3. CASE /\ runFiles' = [runFiles EXCEPT ![r].snapshot = held]
           /\ command' = [command EXCEPT !.at = "snapshotted"]
           /\ UNCHANGED held
  <2>1. /\ command'.at = "snapshotted" /\ command'.run = r /\ command'.audits = command.audits
        /\ command'.authority = command.authority /\ DOMAIN command' = DOMAIN command
    BY <1>1, <1>3 DEF StudyInv, Documents
  <2>2. /\ runFiles'[r].resolved = runFiles[r].resolved /\ runFiles'[r].frozen = runFiles[r].frozen
        /\ runFiles'[r].snapshot = held'
        /\ \A k \in 1..Slots : k # r => runFiles'[k] = runFiles[k]
        /\ DOMAIN runFiles' = DOMAIN runFiles /\ \A k \in 1..Slots : DOMAIN runFiles'[k] = DOMAIN runFiles[k]
    BY <1>1, <1>3 DEF StudyInv, Documents
  <2>3. Documents'
    BY <1>1, <2>1, <2>2 DEF StudyInv, Documents
  <2>4. RunStands'
    BY <1>1, <2>1, <2>2 DEF StudyInv, RunStands, InRun, Closing, Resolved, RunReconciles
  <2>5. \A k \in 1..Slots : k # command.run => SameRun(k)
    BY <1>1, <2>2 DEF SameRun
  <2>. QED
    BY <1>1, <2>1, <2>3, <2>4, <2>5, WorkStep DEF InRun
<1>. QED
  BY <1>2, <1>3 DEF RetainSnapshot

(* The audit of a run is put together from what is on disk.                *)
LEMMA RunAuditStep == ASSUME StudyInv, NEW r \in RehearsedRuns, RetainRunAudit(r) PROVE StudyInv'
<1>1. /\ command.at = "snapshotted" /\ command.at \in Working /\ command.run = r /\ r \in 1..Slots
      /\ UNCHANGED <<repository, authority, studyAudit, eventLog, outbox>>
  BY SlotsAre DEF RetainRunAudit, OutsideRuns, Working, InRun
<1>2. CASE CommandEnds /\ UNCHANGED runFiles
  BY <1>1, <1>2, WorkingEnds
<1>3. CASE /\ runFiles' = [runFiles EXCEPT ![r].audit = RunAudit(r)]
           /\ command' = [command EXCEPT
                   !.audits = Append(@, RunAudit(r)), !.run = r + 1,
                   !.at = IF r + 1 \in RehearsedRuns THEN "authorized" ELSE "rehearsed"]
  <2>1. PICK seen : seen = RunAudit(r)
    OBVIOUS
  <2>2. PICK S : command.audits \in Seq(S)
    BY DEF StudyInv, Documents
  <2>3. /\ command'.at = (IF r + 1 \in 1..Slots THEN "authorized" ELSE "rehearsed")
        /\ command'.run = r + 1 /\ command'.audits = Append(command.audits, seen)
        /\ command'.authority = command.authority /\ DOMAIN command' = DOMAIN command
    BY <1>1, <1>3, <2>1, SlotsAre DEF StudyInv, Documents
  <2>4. /\ Append(command.audits, seen) \in Seq(S \cup {seen})
        /\ Len(command.audits) = r - 1 /\ Len(Append(command.audits, seen)) = r
        /\ Append(command.audits, seen)[r] = seen
        /\ \A k \in 1..Slots : k < r => Append(command.audits, seen)[k] = command.audits[k]
    <3>1. Len(command.audits) = r - 1 /\ r \in Nat /\ Slots \in Nat
      BY <1>1, SlotsAre DEF StudyInv, CommandStands
    <3>2. command.audits \in Seq(S \cup {seen})
      BY <2>2
    <3>. QED
      BY <3>1, <3>2
  <2>5. /\ runFiles'[r].resolved = runFiles[r].resolved /\ runFiles'[r].frozen = runFiles[r].frozen
        /\ runFiles'[r].snapshot = runFiles[r].snapshot /\ runFiles'[r].audit = seen
        /\ \A k \in 1..Slots : k # r => runFiles'[k] = runFiles[k]
        /\ DOMAIN runFiles' = DOMAIN runFiles /\ \A k \in 1..Slots : DOMAIN runFiles'[k] = DOMAIN runFiles[k]
    BY <1>1, <1>3, <2>1 DEF StudyInv, Documents
  <2>6. Documents'
    <3>1. \E T : command'.audits \in Seq(T)
      BY <2>3, <2>4
    <3>. QED
      BY <1>1, <2>3, <2>5, <3>1 DEF StudyInv, Documents
  <2>7. RunVerified(r, seen)'
    <3>1. /\ seen.run = Resolved(r, authority) /\ seen.sessions = PlannedSessions(r)
          /\ seen.receipts = [j \in 1..StudyJobs |-> outbox[r][j].acked]
          /\ seen.events = eventLog[r] /\ seen.snapshot = held
      BY <1>1, <2>1 DEF RunAudit, StudyInv, CommandStands
    <3>2. /\ runFiles[r].resolved = Resolved(r, authority) /\ runFiles[r].frozen
          /\ RunReconciles(r) /\ runFiles[r].snapshot = held
      BY <1>1 DEF StudyInv, RunStands, InRun, Closing
    <3>. QED
      BY <1>1, <2>5, <3>1, <3>2 DEF RunVerified, RunReconciles, Resolved
  <2>8. \A k \in 1..Slots : k < r + 1 => RunVerified(k, command.audits[k])'
    <3>. SUFFICES ASSUME NEW k \in 1..Slots, k < r + 1 PROVE RunVerified(k, command.audits[k])'
      OBVIOUS
    <3>1. CASE k = r
      <4>1. command'.audits[k] = seen
        BY <2>3, <2>4, <3>1
      <4>. QED
        BY <2>7, <3>1, <4>1 DEF RunVerified
    <3>2. CASE k # r
      <4>1. k < r /\ SameRun(k)
        BY <1>1, <2>5, <3>2, SlotsAre DEF SameRun
      <4>2. PICK a : a = command.audits[k]
        OBVIOUS
      <4>3. RunVerified(k, a)
        BY <1>1, <4>1, <4>2 DEF StudyInv, CommandStands
      <4>4. RunVerified(k, a)'
        BY <1>1, <4>1, <4>3, VerifiedStays
      <4>5. command'.audits[k] = a
        BY <2>3, <2>4, <4>1, <4>2
      <4>. QED
        BY <4>4, <4>5 DEF RunVerified
    <3>. QED
      BY <3>1, <3>2
  <2>9. CommandStands'
    <3>1. r + 1 \in 1..Slots + 1 /\ (r + 1 \notin 1..Slots => r + 1 = Slots + 1) /\ (r + 1) - 1 = r
      BY <1>1, SlotsAre
    <3>. QED
      BY <1>1, <2>3, <2>4, <2>8, <3>1 DEF StudyInv, CommandStands, Working
  <2>10. RunStands' /\ AuditHolds'
    BY <1>1, <2>3 DEF StudyInv, CommandStands, RunStands, AuditHolds, InRun, Closing
  <2>. QED
    BY <2>6, <2>9, <2>10 DEF StudyInv
<1>. QED
  BY <1>2, <1>3 DEF RetainRunAudit

(* The study audit holds the audits the command has verified.              *)
LEMMA StudyAuditStep == ASSUME StudyInv, RetainStudyAudit PROVE StudyInv'
<1>1. /\ command.at = "rehearsed" /\ command.at \in Working
      /\ command' = [command EXCEPT !.at = "audited"]
      /\ studyAudit' = [authority |-> command.authority, runs |-> command.audits]
      /\ UNCHANGED <<repository, authority, runFiles, eventLog, outbox>>
  BY DEF RetainStudyAudit, Reaches, Working
<1>2. command'.at = "audited" /\ DOMAIN command' = DOMAIN command /\ command'.audits = command.audits
  BY <1>1 DEF StudyInv, Documents
<1>3. Documents'
  BY <1>1, <1>2 DEF StudyInv, Documents
<1>4. CommandStands' /\ RunStands'
  BY <1>2 DEF CommandStands, RunStands, Working, InRun, Closing
<1>5. AuditHolds'
  <2>1. command.run = Slots + 1 /\ Slots \in Nat
    BY <1>1, SlotsAre DEF StudyInv, CommandStands
  <2>2. Len(command.audits) = Slots /\ \A r \in 1..Slots : RunVerified(r, command.audits[r])
    BY <1>1, <2>1 DEF StudyInv, CommandStands
  <2>3. studyAudit'.runs = command.audits /\ studyAudit'.authority = authority' /\ authority' \in SourceVersions
    BY <1>1 DEF StudyInv, CommandStands
  <2>4. ASSUME NEW r \in 1..Slots PROVE RunVerified(r, studyAudit.runs[r])'
    <3>1. PICK a : a = command.audits[r]
      OBVIOUS
    <3>2. RunVerified(r, a)'
      BY <1>1, <2>2, <3>1, VerifiedStays DEF SameRun
    <3>3. studyAudit'.runs[r] = a
      BY <2>3, <3>1
    <3>. QED
      BY <3>2, <3>3 DEF RunVerified
  <2>. QED
    BY <2>2, <2>3, <2>4 DEF AuditHolds
<1>. QED
  BY <1>3, <1>4, <1>5 DEF StudyInv

(* The command returns, raises or dies with the study audit in place.      *)
LEMMA StopStep == ASSUME StudyInv, CommandReturns \/ CommandDies PROVE StudyInv'
<1>1. CommandEnds /\ UNCHANGED <<repository, authority, runFiles, eventLog, outbox, studyAudit>>
  BY DEF CommandReturns, CommandDies, OutsideRuns
<1>2. command' = NoCommand /\ NoCommand.at = "none" /\ NoCommand.run = 1 /\ NoCommand.audits = <<>>
      /\ DOMAIN NoCommand = {"at", "run", "job", "authority", "mission", "audits"} /\ NoCommand.audits \in Seq({})
  BY <1>1 DEF CommandEnds, NoCommand
<1>3. Documents'
  BY <1>1, <1>2 DEF StudyInv, Documents
<1>4. CommandStands' /\ RunStands'
  BY <1>2 DEF CommandStands, RunStands, Working, InRun, Closing
<1>5. AuditHolds'
  BY <1>1 DEF StudyInv, AuditHolds, RunVerified, RunReconciles, Resolved
<1>. QED
  BY <1>3, <1>4, <1>5 DEF StudyInv

(* A change of the repository touches no document of the rehearsal.        *)
LEMMA EditStep == ASSUME StudyInv, EditRepository PROVE StudyInv'
<1>1. UNCHANGED <<authority, runFiles, eventLog, outbox, studyAudit, command, held>>
  BY DEF EditRepository
<1>2. repository'.source \in SourceVersions /\ DOMAIN repository' = {"source", "registered"}
  BY DEF EditRepository, StudyInv, Documents
<1>3. Documents'
  BY <1>1, <1>2 DEF StudyInv, Documents
<1>4. CommandStands' /\ RunStands' /\ AuditHolds'
  BY <1>1 DEF StudyInv, CommandStands, RunStands, AuditHolds, RunVerified, RunReconciles, Resolved
<1>. QED
  BY <1>3, <1>4 DEF StudyInv

(* Every step of the rehearsal keeps the invariant.                        *)
LEMMA StudyStep == ASSUME StudyInv, [StudyNext]_studyVars PROVE StudyInv'
<1>1. CASE UNCHANGED studyVars
  BY <1>1 DEF studyVars, StudyInv, Documents, CommandStands, RunStands, AuditHolds, RunVerified, RunReconciles, Resolved
<1>2. CASE Compose \/ AuthorizeStudy
  BY <1>2, ComposeStep, AuthorizeStep
<1>3. ASSUME NEW r \in RehearsedRuns,
             \/ ResolveRun(r) \/ FreezeCompute(r) \/ StartRun(r)
             \/ CloseRun(r) \/ RetainSnapshot(r) \/ RetainRunAudit(r)
      PROVE  StudyInv'
  BY <1>3, ResolveStep, FreezeStep, StartStep, CloseStep, SnapshotStep, RunAuditStep
<1>4. ASSUME NEW r \in RehearsedRuns, NEW j \in 1..StudyJobs,
             \/ PrepareJob(r, j) \/ CompleteJob(r, j) \/ AnnounceJob(r, j)
             \/ \E s \in PlannedSessions(r) : DeliverTo(r, j, s)
      PROVE  StudyInv'
  BY <1>4, PrepareStep, CompleteStep, AnnounceStep, DeliverStep
<1>5. CASE RetainStudyAudit \/ CommandReturns \/ CommandDies \/ EditRepository
  BY <1>5, StudyAuditStep, StopStep, EditStep
<1>. QED
  BY <1>1, <1>2, <1>3, <1>4, <1>5 DEF StudyNext

(* Of every study, with any number of blocks, sessions and jobs, under any *)
(* number of commands that die and are given again: what is on disk fits   *)
(* where the command is.                                                   *)
THEOREM RehearsalInvariant == StudySpec => []StudyInv
<1>1. StudyInv /\ [StudyNext]_studyVars => StudyInv'
  BY StudyStep
<1>. QED
  BY <1>1, StudyInvInit, PTL DEF StudySpec

(* AuditStands: a study audit that was retained verifies, whenever the     *)
(* registered files are the pinned ones and the source is the one its      *)
(* authority names, from what is on disk alone.                            *)
THEOREM AuditsStay == StudySpec => []AuditStands
<1>1. StudyInv => AuditStands
  BY SlotsAre DEF StudyInv, AuditHolds, AuditStands, AuditVerifies, Slots
<1>. QED
  BY <1>1, RehearsalInvariant, PTL
=============================================================================
