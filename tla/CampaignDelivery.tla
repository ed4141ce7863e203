-------------------------- MODULE CampaignDelivery --------------------------
(***************************************************************************)
(* CampaignController over SqliteDeliveryOutbox and an idempotent harness: *)
(* fan-out of a job to all sessions by one worker thread each, partial     *)
(* failure and retry, crash, snapshot, resume and the gates of close().    *)
(*                                                                         *)
(* Durable: the outbox, the sessions' own messages (prompts), the saved    *)
(* snapshot and the event log.  All else is memory of one process, and     *)
(* there is one dispatcher: the calls of the controller do not overlap     *)
(* (deliver() serialises itself, the callers are sequential).              *)
(*                                                                         *)
(* Left out: documents and digests, whose comparisons only detect a        *)
(* tampered database or a job identifier used for two jobs.                *)
(***************************************************************************)
EXTENDS Naturals, Sequences

CONSTANTS Jobs,
          Sessions,
          NoJob,        \* no deliver() call is running
          MaxFaults,    \* bound on failed harness and outbox calls
          MaxCrashes    \* bound on process deaths

ASSUME NoJobAssumption == NoJob \notin Jobs
ASSUME BoundsAssumption == MaxFaults \in Nat /\ MaxCrashes \in Nat

VARIABLES ledger,     \* delivery_jobs in job_sequence order
          complete,   \* its rows with status complete
          acked,      \* delivery_intents with status acknowledged
          prompts,    \* how often the session's messages hold the job's prompt
          saved,      \* the snapshot store: at most one CampaignSnapshot
          reported,   \* the jobs with a job.delivered event
          results,    \* the job sets of the CampaignResults returned
          started,    \* start() has been called
          status,     \* handle.status, "none" without a handle
          delivered,  \* handle.delivered_job_ids
          known,      \* delivered_jobs of the harness sessions
          org,        \* the harness organisation of this process
          broken,     \* the sessions whose bridge a timeout has terminated
          job,        \* the job of the running deliver() call
          worker,     \* where its worker threads are
          closing,    \* where the running close() call is
          faults,
          crashes

outboxVars  == <<ledger, complete, acked>>
durableVars == <<outboxVars, prompts, saved, reported, results>>
handleVars  == <<status, delivered>>
harnessVars == <<known, org, broken>>
callVars    == <<job, worker, closing>>
boundVars   == <<faults, crashes>>
vars == <<durableVars, started, handleVars, harnessVars, callVars, boundVars>>

Pairs       == Jobs \X Sessions
Places      == {"idle", "check", "deliver", "prompt", "sent", "receipt", "done", "failed"}
InLedger    == {ledger[i] : i \in 1..Len(ledger)}
Delivered   == {delivered[i] : i \in 1..Len(delivered)}

(* completed_job_ids(): the complete jobs in the order of the outbox.        *)
CompletedJobs ==
    {jobs \in UNION {[1..n -> complete] : n \in 0..Len(ledger)} :
        /\ \A j \in complete : \E i \in DOMAIN jobs : jobs[i] = j
        /\ \A i, k \in DOMAIN jobs : i < k =>
               \E m, n \in 1..Len(ledger) :
                   m < n /\ ledger[m] = jobs[i] /\ ledger[n] = jobs[k]}

Idle      == job = NoJob /\ closing = "no"
Usable(s) == org = "running" /\ s \notin broken

Init ==
    /\ ledger = <<>>
    /\ complete = {}
    /\ acked = {}
    /\ prompts = [p \in Pairs |-> 0]
    /\ saved = {}
    /\ reported = {}
    /\ results = {}
    /\ started = FALSE
    /\ status = "none"
    /\ delivered = <<>>
    /\ known = {}
    /\ org = "absent"
    /\ broken = {}
    /\ job = NoJob
    /\ worker = [s \in Sessions |-> "idle"]
    /\ closing = "no"
    /\ faults = 0
    /\ crashes = 0

-----------------------------------------------------------------------------
(* start(): a failed startup stops what it had created. *)
Start(ok) ==
    /\ ~ started
    /\ started' = TRUE
    /\ org' = IF ok THEN "running" ELSE "stopped"
    /\ status' = IF ok THEN "active" ELSE "none"
    /\ UNCHANGED <<durableVars, delivered, known, broken, callVars, boundVars>>

-----------------------------------------------------------------------------
(* deliver(): the complete recipient set is committed before any harness    *)
(* call; a job that is already in the outbox is taken up again.             *)
Prepare(j) ==
    /\ status = "active"
    /\ Idle
    /\ ledger' = IF j \in InLedger THEN ledger ELSE Append(ledger, j)
    /\ job' = j
    /\ worker' = [s \in Sessions |-> "check"]
    /\ UNCHANGED <<complete, acked, prompts, saved, reported, results, started,
                   handleVars, harnessVars, closing, boundVars>>

Goes(s, from, to) ==
    /\ worker[s] = from
    /\ worker' = [worker EXCEPT ![s] = to]
    /\ UNCHANGED <<ledger, complete, saved, reported, results, started, handleVars,
                   org, job, closing, crashes>>

(* The stored acknowledgement of a recipient ends its worker. *)
Check(s) ==
    /\ Goes(s, "check", IF <<job, s>> \in acked THEN "done" ELSE "deliver")
    /\ UNCHANGED <<acked, prompts, known, broken, faults>>

(* harness.deliver: the receipt in memory is returned again. *)
Remembered(s) ==
    /\ <<job, s>> \in known
    /\ Goes(s, "deliver", "receipt")
    /\ UNCHANGED <<acked, prompts, known, broken, faults>>

(* Otherwise the session's own messages are searched for the prompt. *)
FindPrompt(s) ==
    /\ worker[s] = "deliver"
    /\ <<job, s>> \notin known
    /\ Usable(s)
    /\ prompts[<<job, s>>] <= 1
    /\ IF prompts[<<job, s>>] = 1
       THEN Goes(s, "deliver", "receipt") /\ known' = known \cup {<<job, s>>}
       ELSE Goes(s, "deliver", "prompt") /\ UNCHANGED known
    /\ UNCHANGED <<acked, prompts, broken, faults>>

PromptLands(s) ==
    /\ Goes(s, "prompt", "sent")
    /\ prompts' = [prompts EXCEPT ![<<job, s>>] = @ + 1]
    /\ UNCHANGED <<acked, known, broken, faults>>

PromptReturns(s) ==
    /\ Goes(s, "sent", "receipt")
    /\ known' = known \cup {<<job, s>>}
    /\ UNCHANGED <<acked, prompts, broken, faults>>

(* The bridge answers with an error, or times out and is terminated, before *)
(* or after the prompt has reached the session.                             *)
HarnessFails(s) ==
    /\ faults < MaxFaults
    /\ \E from \in {"deliver", "prompt", "sent"} :
           /\ from = "deliver" => <<job, s>> \notin known
           /\ Goes(s, from, "failed")
    /\ broken' \in {broken, broken \cup {s}}
    /\ faults' = faults + 1
    /\ UNCHANGED <<acked, prompts, known>>

(* A bridge that is closed or terminated refuses, and more than one         *)
(* matching prompt fails closed.                                            *)
HarnessRefuses(s) ==
    /\ Goes(s, "deliver", "failed")
    /\ <<job, s>> \notin known
    /\ ~ Usable(s) \/ prompts[<<job, s>>] > 1
    /\ UNCHANGED <<acked, prompts, known, broken, faults>>

Acknowledge(s) ==
    /\ Goes(s, "receipt", "done")
    /\ acked' = acked \cup {<<job, s>>}
    /\ UNCHANGED <<prompts, known, broken, faults>>

(* The outbox's transaction fails; the receipt stays in memory. *)
AcknowledgeFails(s) ==
    /\ faults < MaxFaults
    /\ Goes(s, "receipt", "failed")
    /\ faults' = faults + 1
    /\ UNCHANGED <<acked, prompts, known, broken>>

FanOutFailsWhenAllDo ==
    /\ job # NoJob
    /\ \A s \in Sessions : worker[s] = "failed"
    /\ job' = NoJob
    /\ worker' = [s \in Sessions |-> "idle"]
    /\ UNCHANGED <<durableVars, started, handleVars, harnessVars, closing, boundVars>>

(* The workers are joined; one failure makes the call fail. *)
FanOutFails ==
    /\ job # NoJob
    /\ \A s \in Sessions : worker[s] \in {"done", "failed"}
    /\ \E s \in Sessions : worker[s] = "failed"
    /\ job' = NoJob
    /\ worker' = [s \in Sessions |-> "idle"]
    /\ UNCHANGED <<durableVars, started, handleVars, harnessVars, closing, boundVars>>

(* All workers succeed, but the outbox's transaction fails. *)
CompletionFails ==
    /\ job # NoJob
    /\ faults < MaxFaults
    /\ \A s \in Sessions : worker[s] = "done"
    /\ job' = NoJob
    /\ worker' = [s \in Sessions |-> "idle"]
    /\ faults' = faults + 1
    /\ UNCHANGED <<durableVars, started, handleVars, harnessVars, closing, crashes>>

(* All receipts are in: the job is complete, then listed in the handle,     *)
(* then reported; the event sink may fail.                                  *)
FanOutCompletes(report) ==
    /\ job # NoJob
    /\ \A s \in Sessions : worker[s] = "done"
    /\ complete' = complete \cup {job}
    /\ delivered' = IF job \in Delivered THEN delivered ELSE Append(delivered, job)
    /\ reported' = IF report THEN reported \cup {job} ELSE reported
    /\ job' = NoJob
    /\ worker' = [s \in Sessions |-> "idle"]
    /\ UNCHANGED <<ledger, acked, prompts, saved, results, started, status,
                   harnessVars, closing, boundVars>>

-----------------------------------------------------------------------------
(* snapshot() and the store's atomic replacement. *)
Snapshot ==
    /\ status = "active"
    /\ \A s \in Sessions : Usable(s)
    /\ Idle
    /\ saved' = {[jobs |-> Delivered, known |-> known]}
    /\ UNCHANGED <<outboxVars, prompts, reported, results, started, handleVars,
                   harnessVars, callVars, boundVars>>

ForgetProcess ==
    /\ status' = "none"
    /\ delivered' = <<>>
    /\ known' = {}
    /\ org' = "absent"
    /\ broken' = {}
    /\ job' = NoJob
    /\ worker' = [s \in Sessions |-> "idle"]
    /\ closing' = "no"
    /\ UNCHANGED <<durableVars, started, faults>>

(* The process suspends the runtime and ends. *)
Suspend ==
    /\ Idle
    /\ \A s \in Sessions : Usable(s)
    /\ ForgetProcess
    /\ UNCHANGED crashes

(* The process dies at any point.  A prompt its bridges had still to send    *)
(* either has reached the session by then or never does: assumed is that no  *)
(* bridge of the dead process is still at work when the campaign is resumed. *)
Crash ==
    /\ crashes < MaxCrashes
    /\ crashes' = crashes + 1
    /\ ForgetProcess

(* Mutant: the handle is rebuilt from the snapshot. *)
ResumeFromSnapshot ==
    /\ org = "absent"
    /\ \E snap \in saved :
           /\ snap.jobs \subseteq complete
           /\ known' = snap.known
           /\ delivered' = SelectSeq(ledger, LAMBDA j : j \in snap.jobs)
    /\ org' = "running"
    /\ status' = "active"
    /\ UNCHANGED <<durableVars, started, broken, callVars, boundVars>>

(* resume(): the outbox, not the snapshot, says which jobs are delivered. *)
Resume ==
    /\ org = "absent"
    /\ \E snap \in saved :
           /\ snap.jobs \subseteq complete
           /\ known' = snap.known
    /\ org' = "running"
    /\ status' = "active"
    /\ delivered' \in CompletedJobs
    /\ UNCHANGED <<durableVars, started, broken, callVars, boundVars>>

(* The event sink fails, and so does the rollback of the restored runtime;  *)
(* a rollback that succeeds changes nothing.                                *)
ResumeFails ==
    /\ org = "absent"
    /\ \E snap \in saved : snap.jobs \subseteq complete
    /\ org' = "stopped"
    /\ UNCHANGED <<durableVars, started, handleVars, known, broken, callVars, boundVars>>

-----------------------------------------------------------------------------
(* close(). *)
(* Mutant: the jobs are compared, their status is not. *)
ReconcilesJobs == Delivered \subseteq InLedger

Reconciles ==
    /\ delivered = ledger
    /\ InLedger \subseteq complete

CloseReconciles ==
    /\ status = "active"
    /\ Idle
    /\ Reconciles
    /\ closing' = "stopping"
    /\ UNCHANGED <<durableVars, started, handleVars, harnessVars, job, worker, boundVars>>

(* stop() takes a last snapshot and closes every bridge.  It raises when it  *)
(* cannot take the snapshot: after a timeout, and on every second attempt.   *)
StopHarness ==
    /\ closing = "stopping"
    /\ \E ok \in BOOLEAN :
           /\ ok => \A s \in Sessions : Usable(s)
           /\ closing' = IF ok THEN "budget" ELSE "no"
    /\ org' = "stopped"
    /\ UNCHANGED <<durableVars, started, handleVars, known, broken, job, worker, boundVars>>

(* A reconciliation that fails or is invalid makes the campaign invalid. *)
GateFails ==
    /\ closing \in {"budget", "compute"}
    /\ status' = "invalid"
    /\ closing' = "no"
    /\ UNCHANGED <<durableVars, started, delivered, harnessVars, job, worker, boundVars>>

BudgetReconciled ==
    /\ closing = "budget"
    /\ closing' = "compute"
    /\ UNCHANGED <<durableVars, started, handleVars, harnessVars, job, worker, boundVars>>

(* The event sink fails between the gates: close() raises, nothing is set. *)
EventFails ==
    /\ closing = "compute"
    /\ closing' = "no"
    /\ UNCHANGED <<durableVars, started, handleVars, harnessVars, job, worker, boundVars>>

(* The campaign.closed event may fail: the handle is closed all the same, *)
(* and no result is returned.                                             *)
ComputeReconciled ==
    /\ closing = "compute"
    /\ status' = "closed"
    /\ results' \in {results, results \cup {Delivered}}
    /\ closing' = "no"
    /\ UNCHANGED <<outboxVars, prompts, saved, reported, started, delivered, harnessVars,
                   job, worker, boundVars>>

Worker(s) ==
    \/ Check(s)
    \/ Remembered(s)
    \/ FindPrompt(s)
    \/ PromptLands(s)
    \/ PromptReturns(s)
    \/ HarnessFails(s)
    \/ HarnessRefuses(s)
    \/ Acknowledge(s)
    \/ AcknowledgeFails(s)

Join ==
    \/ FanOutFails
    \/ CompletionFails
    \/ \E report \in BOOLEAN : FanOutCompletes(report)

Close ==
    \/ CloseReconciles
    \/ StopHarness
    \/ GateFails
    \/ BudgetReconciled
    \/ EventFails
    \/ ComputeReconciled

Next ==
    \/ \E ok \in BOOLEAN : Start(ok)
    \/ \E j \in Jobs : Prepare(j)
    \/ \E s \in Sessions : Worker(s)
    \/ Join
    \/ Snapshot
    \/ Suspend
    \/ Crash
    \/ Resume
    \/ ResumeFails
    \/ Close

Spec == Init /\ [][Next]_vars

-----------------------------------------------------------------------------
(* Every variable has its type, and the worker threads exist exactly while  *)
(* a deliver() call runs on an active handle.                               *)
DeliveryTypeOK ==
    /\ ledger \in Seq(Jobs)
    /\ complete \subseteq Jobs
    /\ acked \subseteq Pairs
    /\ prompts \in [Pairs -> Nat]
    /\ saved \subseteq [jobs : SUBSET Jobs, known : SUBSET Pairs]
    /\ reported \subseteq Jobs
    /\ results \subseteq SUBSET Jobs
    /\ started \in BOOLEAN
    /\ status \in {"none", "active", "invalid", "closed"}
    /\ delivered \in Seq(Jobs)
    /\ known \subseteq Pairs
    /\ org \in {"absent", "running", "stopped"}
    /\ broken \subseteq Sessions
    /\ job \in Jobs \cup {NoJob}
    /\ worker \in [Sessions -> Places]
    /\ job = NoJob => \A s \in Sessions : worker[s] = "idle"
    /\ job # NoJob => status = "active" /\ job \in InLedger
    /\ closing \in {"no", "stopping", "budget", "compute"}
    /\ closing # "no" => status = "active" /\ job = NoJob
    /\ faults \in 0..MaxFaults
    /\ crashes \in 0..MaxCrashes

(* A job is complete, and reported, only when every session holds its       *)
(* prompt exactly once and its receipt is stored, whatever fan-outs failed  *)
(* and wherever the process died before.                                    *)
CompleteIsEverywhere ==
    /\ reported \subseteq complete
    /\ complete \subseteq InLedger
    /\ \A j \in complete, s \in Sessions : <<j, s>> \in acked
    /\ \A p \in acked \cup known : prompts[p] = 1

(* No crash, lost reply, retry or stale snapshot puts a job to a session    *)
(* twice.                                                                   *)
PromptedOnce == \A p \in Pairs : prompts[p] <= 1

(* The handle lists exactly the jobs the outbox has as complete, each once: *)
(* what a process forgot is recovered and what it did not store is not      *)
(* claimed.                                                                 *)
HandleFollowsOutbox ==
    status # "none" => /\ Delivered = complete
                       /\ \A i, k \in 1..Len(delivered) :
                              delivered[i] = delivered[k] => i = k

(* A saved snapshot never runs ahead of the outbox or of the sessions, so   *)
(* that resume() is not refused however old the snapshot is.                *)
SnapshotIsBehind ==
    \A snap \in saved : /\ snap.jobs \subseteq complete
                        /\ \A p \in snap.known : prompts[p] = 1

(* Whatever was forgotten, retried or restored from an old snapshot: what   *)
(* the process and its snapshot say is delivered follows the outbox.        *)
MemoryFollowsOutbox == HandleFollowsOutbox /\ SnapshotIsBehind

(* The ledgers are reconciled, and the campaign becomes closed or invalid,  *)
(* only after the harness has been stopped.                                 *)
ReconciledWhenStopped ==
    closing \in {"budget", "compute"} \/ status \in {"closed", "invalid"}
        => org = "stopped"

(* The controller, the outbox and the harness together deliver each job     *)
(* exactly once to each session, and a result covers all that was sent.     *)
Contract == INSTANCE DeliveryContract WITH
    Jobs <- Jobs, Sessions <- Sessions,
    prompts <- prompts, complete <- complete, results <- results
ImplementsContract == Contract!Spec

(* docs/MODULE_CONTRACTS.md, Campaign controller: close() "verifies the     *)
(* exact delivered job, session and runtime-receipt set": a handle that     *)
(* lists exactly the ledger's jobs, all complete, passes.                   *)
CompleteSetReconciles ==
    status = "active" /\ Idle /\ Delivered = InLedger /\ InLedger = complete
        => Reconciles

(* controller.py, resume(): "only active campaigns can be resumed".         *)
ClosedIsNotResumed == results # {} => status # "active"

(* A deliver() call returns or raises: every thread of the fan-out comes to *)
(* an end when the harness call it makes does.                              *)
Fairness ==
    /\ \A s \in Sessions : WF_vars(Worker(s))
    /\ WF_vars(Join)

FairSpec == Spec /\ Fairness

DeliverReturns == job # NoJob ~> job = NoJob
=============================================================================
