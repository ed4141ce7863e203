# A TLA+ verification of agent-collab-evals

The repository runs evaluation campaigns in which one agent, or a roster of
isolated, collaborating or native agents, works on jobs under a fixed model-spend
and compute budget.  What a campaign reports is only worth something if its
ledgers are exact after every failure the platform tolerates: lost replies,
client and provider failures, retries, process deaths and restarts.  The modules
here model the components that carry that promise, TLC checks them on small
instances, and TLAPS proves the central invariants for every instance.

Source paths are relative to `src/agent_collab_evals/` unless they begin with
`campaigns/model_serving_v0/` or `scripts/`, which lie beside `src/`.

## The system

| Component | Source | State | Operations | What makes it hard |
|---|---|---|---|---|
| Budget account | `adapters/sqlite_budget.py` | campaign, actor and reservation rows, audit trail (SQLite) | open_campaign, reserve, settle, forfeit, release, reconcile | two envelopes; late and repeated terminal transitions; overruns |
| Budget gateway | `model_gateway.py`, `adapters/openrouter.py` | tokens and request counters in memory | issue, activate, revoke, close, one handler thread per call | revocation racing requests; ambiguous upstream failures; crash with calls in flight |
| Campaign controller, outbox | `controller.py`, `adapters/sqlite_delivery.py` | campaign handle; jobs, intents, receipts (SQLite) | start, deliver, snapshot, resume, close | partial fan-out, crash between prompt and acknowledgement, stale snapshots |
| Harness runtime | `adapters/opencode_harness.py`, `candidate_gateway.py`, `peer_tool.py` | sessions, bridge processes, one credential per gateway | start, create_primary, deliver, snapshot, suspend, resume, stop | eight acquisition steps, any of which fails, while tools are called |
| Native admission | `native_admission.py`, `scripts/runtime/native_admission_plugin.mjs` | ledger of child sessions (SQLite) | reserve, complete, reconcile | lost replies, late handling, dying runtime |
| Submission registry, compute broker | `adapters/sqlite_submissions.py`, `adapters/sqlite_compute.py` | candidates, evaluations, selections; reservations (two SQLite files) | submit, evaluate_visible, close, select, evaluate_hidden | no common transaction |
| Compute execution | `adapters/sqlite_execution_backend.py`, `adapters/sqlite_compute_spend.py`, `adapters/sqlite_compute_routes.py` | execution, authorization and route rows | submit, collect, reconcile, issue, consume, seal | at most one paid dispatch across crashes |
| Measurement command | `campaigns/model_serving_v0/reference/modal_vllm.py`, `adapters/modal_vllm_*compute.py`, `adapters/local_measurements.py` | dispatch record, staging and durable volumes, bundle store | dispatch, collect, retry, publish, commit | commands that die, race and are repeated; files written one by one |
| Hidden evaluators | `adapters/composite_hidden_evaluator.py`, `split_scope`, `quality_series`, `performance_series` | receipts; seconds used, in memory | hidden_evaluate, resolve | several executions for one verdict; retries by other threads and processes |
| Scoring | `campaigns/serving_*.py` | none | pure functions | rounding, ties, boundaries |
| Artifacts, publications, board | `artifact_service.py`, `adapters/local_artifact_storage.py`, `adapters/sqlite_publications.py`, `adapters/sqlite_collaboration.py` | blobs and rows, publications, entries, cursors | put, seal, publish, resolve, materialize; the five reads | prepare, append, bind over three databases; cursors over a growing board |
| Pilot run | `solo_pilot_command.py`, `solo_pilot_runner.py`, `pilot_spend_guard.py` | the phases of one run and its audit | run | any step may raise, the unwinding included |
| Pilot spend | `pilot_spend.py`, `pilot_retry.py`, `pilot_spend_batch.py`, `modal_pilot_cost.py`, `peer_stock_control.py` | a journal of irrevocable admissions | admit, release by amendment, batches | thirteen amendments; several controllers on one journal |
| Study | `study_registration.py`, `study_schedule.py`, `study_rehearsal.py` | write-once documents, event logs | register, authorize, rehearse, verify | a command given again after its death |

The composition (`solo_pilot_stack.py`, `solo_pilot_command.py`) provisions the
budget, starts the harness, which issues one token per session and gateway,
delivers the jobs, evaluates, closes the campaign (outbox, harness, budget and
compute gates in that order), and closes the gateways last.  Stages call each
other synchronously.  What they share is SQLite files (one per component, no
common transactions), the sessions of the harness and the in-memory tokens of the
gateways.  A process death loses handles, tokens and threads; ledgers survive it.

### What makes each component correct

* **Budget**: counters equal the sums over the rows; a reservation ends once; one
  actor does not spend another's allocation; a call the provider may bill never
  becomes free; a revoked token has no request in flight.
* **Delivery**: a job reaches each session exactly once over failures, restarts
  and stale snapshots; a result covers all that was sent.
* **Harness**: no credential and no process outlives the operation that created
  it unless stop() can still find it; no tool call outlives its access.
* **Native fleet**: no more identities than planned, no child with two tasks.
* **Registry and broker**: verdicts are backed by compute; the selected artifact
  is the best eligible one, for ever.
* **Compute**: a request is paid once at most; an uncertain dispatch is never
  repeated; closure and recovery overlook no call.
* **Measurement**: the evidence of an attempt is one call's; at most one attempt
  of a repetition is valid; only a complete measurement is eligible.
* **Hidden evaluation**: the plan is followed, every run is counted once, and
  whoever asks is told one verdict.
* **Scoring**: the integer arithmetic agrees with what the verdicts are defined
  to mean, and a candidate that gets better does not score less.
* **Artifacts and board**: a publication resolves only with its entry, quotas and
  seals hold, and pages neither skip nor repeat.
* **Pilot run and spend**: no phase spends before those it rests on; an audit
  tells of all that may still run; what may be billed stays reserved.
* **Study**: an audit that was accepted can be verified again.

The hazards, each at its line and with the properties that cover it, are listed
in `PROJECT.json`.

## Modules

| Module | Role |
|---|---|
| `RosterTotals`, `ModelBudget` | running sums over a roster; the ledger, one action per transaction of `SqliteBudgetAccount` |
| `ModelGateway` | tokens, handler threads, revocation, close and crash; composed with the ledger, whose operations its actions call and whose transactions may fail |
| `DeliveryContract`, `CampaignDelivery` | what delivery promises; controller, outbox and harness, which implement it |
| `HarnessSessions` | creation, resumption, unwinding and stop of sessions with bridges and credentials, and the tool calls meanwhile |
| `NativeAdmission` | the ledger of a native fleet, the hooks of the task tool and the runtime |
| `CandidateLifecycle` | submission registry, compute broker and evaluator |
| `ComputeExecution` | execution backend, spend authorization, routes, callers, provider, closure and recovery plan |
| `MeasurementLanes`, `RemoteEvidence` | what a GPU call measures in each lane and what is made of it; how its evidence reaches the bundle store (extends the lanes) |
| `EvaluationContract`, `HiddenEvaluation` | one verdict that follows from all measurements; the evaluators that implement it |
| `ServingScores`, `ScoreStudies` | the arithmetic of scores, limits and comparisons; reference definitions and what a better candidate may expect |
| `ArtifactStore`, `PublicationContract`, `ArtifactPublication` | blobs, rows, quotas and seal; what publication promises; prepare, append and bind over store and board (extends the store) |
| `CollaborationBoard` | pages, cursors, notifications and threads |
| `PilotRun` | the phases of a run, its unwinding and its audit |
| `PilotAmendments`, `PilotSpend` | the chain v1 to v13 with the amounts of the code; the journal, its controllers and its batches |
| `StudyRehearsal` | composition, authority, rehearsal and audit of a study |
| `*Proofs` | theorems about the module they extend |
| `MC*` | instances for TLC; `MCMeasured`, `MCAgents`, `MCVerdicts` and `MCAccounts` put several parts side by side |

Definitions called *mutants* are plausible wrong versions of a definition that
follows them.  No specification uses them; they show that each property fails
when the code is wrong in that way.

### ModelBudget and ModelGateway

`campReserved`, `campCharged`, `actReserved` and `actCharged` are the counters of
the campaign and actor rows, `rows` the reservation rows by call, `audit` the
audit records of a call's terminal transition, `refusals` the rejections with
their reason.  `OpenCampaign`, `Reserve`, `Refuse`, `Settle`, `Forfeit` and
`Release` are whole `BEGIN IMMEDIATE` transactions, so each is one action.
`settle()` commits an overrun and raises afterwards; the model commits it.  A
token moves from unissued over issued and active to gone; `active` is its
`active_requests`; `call` is the program point of a handler thread; `billed` is
what the provider will bill, known to it and not to the gateway.  Two exceptions
leave a handler with its reservation open: `HeadersFail` is the write of the
response headers between the two try blocks, `LedgerFails` a database error of the
release, forfeit or settle itself, of which the handler catches none.

### CampaignDelivery

`ledger`, `complete` and `acked` are the outbox; `prompts` counts what each
session's own messages hold; `saved` are the snapshots that may be on disk;
`known`, `org` and `broken` are the harness; `worker` is the program point of
the thread for each session in the fan-out.  A bridge call may fail before or
after the prompt landed (`HarnessFails`), a retry looks for the prompt in the
session's messages (`FindPrompt`), an acknowledgement may fail after the prompt,
and a resumed process rebuilds the handle from the outbox.  `close()` is the four
gates in the code's order.

### HarnessSessions

An operation is a list of steps (`todo`), each an acquisition or a release of a
bridge, a credential or an index entry; `Raises` makes any of them fail and
installs the unwinding of the code: `Unwind` for create_primary(), the callbacks
of the ExitStack (`undo`) for resume().  `cred` is what each gateway holds for an
actor, `stray` the process groups nothing refers to any more: a bridge whose close
fails inside resume()'s own unwinding is one.  Tool calls are looked up and then
wait for the lock of their access, so a revocation fits in between.

### NativeAdmission

`permit` is the table `native_calls`, `place` the program point of a call in
plugin and runtime, `sent` the requests the service has not handled.  A hook that
gives up, or dies with its runtime, leaves its request behind (`GivenUp`), and the
service may handle it later or never.  A task argument is an existing child or
none.  `FleetSnapshot` is the reconciliation that snapshot() demands, and with it
suspend() and stop().

### CandidateLifecycle

`admission`, `receipt`, `failed`, `closed`, `selection` and `hidden` are the
registry, `visible` and `hiddenCompute` the broker, `at` and `hat` the program
points of the calls.  Each transaction of either database is an action, so
another call, a failed transaction or a crash fits between any two.  `measured`
is fixed per artifact: an evaluation of the same bytes under the same key yields
one result.

### ComputeExecution

`exec` is the status of `compute_executions`, `spend` that of the authorization,
`acked` the rows with a call ID, `registered` and `sealed` the inventory, `bundle`
the terminal evidence on disk: what the provider made of the call, or "error" when
asking for the result raised, which is retained as a failure while the call may run.
`flying` are dispatch commands, child processes
that outlive a dead parent; `started` and `outcome` belong to the provider.
`Claim` creates the row and takes the dispatch in one transaction, `Consume` uses
the authorization in the other database, then come the command and the record.
`Close` is the evaluation closure over reconcile(); `Plan` is the recovery plan.

### MeasurementLanes and RemoteEvidence

A trial is what happens inside the container; a lane turns it into a document
(`Document`), and a transport turns the document into an outcome (`Told`).
`dispatched` is the dispatch record of a slot <<repetition, attempt>>, `staging`
and `volume` the two volumes, `bundles` the local store, `command` the program
point of each running command.  A command spawns the call before it writes the
record, so a death in between lets another one spawn a second call into one root.
`GetRaises` is the error that commits a failed attempt while the call still runs.

### HiddenEvaluation

`backend` are the executions of the plan's runs, `leaf` and `rows` the receipts of
each evaluator, `usedRun` and `usedRow` the seconds the live process remembers.
The calls in `evals` walk the plan in its order; one may bring another candidate
than the one that was planned.  `EvaluationContract` knows the measurements and the
one result they determine.

### ServingScores and ScoreStudies

Fixed-point integers in millionths, rounded as the code rounds its Decimal
values.  Families, cases, buckets and draws are sequences in the code's order, and
sums over them the running sums of `RosterTotals`.  A quality run is a set of passed
cases, a benchmark point the latencies of its requests with the good requests the
server counted; a calibration point also carries the percentile the server reports,
from which the limits are derived (it may be below the slowest request).
`ScoreStudies` states the verdicts again as sets and cross-multiplied inequalities
without rounding, and steps from one input to one where a request is faster or a
case more is passed.  `Studies` is every input the code takes: repetitions are odd in
number (the median of a calibration insists, a candidate has three), a point has
requests, a limit is positive.  `Promotable` is the check of a scoring profile that
refuses a reference scalar below one: the largest of them is a divisor.

### Artifacts and board

A put() is three steps, file, force and admission; a publish() walks its
publications in the registry, appends, and walks them again to bind; calls of an
actor overlap and a failed append aborts.  `CollaborationBoard` follows one view at
a time while entries arrive between its pages; `view.told` is what the reader has
been shown and `view.after` its cursor, in numbers of the scope or of the actor.  The
rows of a query are any listing of the selected entries in ascending order.

### PilotRun, PilotSpend, PilotAmendments

`at` is the step of `_execute_solo_pilot`; each may raise, after which the run
unwinds through the same handlers as the code: campaign close, gateways, remote
calls, audit.  The parts it calls are reduced to what the run depends on, a request
that is registered, authorized, dispatched and resolved, or "disowned": an error of
asking for its result was retained as its failure, and the call may run on.  Each
gateway is closed once, at a step named after it; a close that raises may leave it
open, as `ModelBudgetGateway.close` does at the first token it cannot revoke.
`PilotSpend` takes the
receipts, limits and releases from `PilotAmendments`, which states for each
amendment what its aborted attempt left, which bill it accepts and what it frees.
`billed` is what the billing evidence of an attempt states, which no estimate caps:
the cost profile is an admission estimate, and an amendment that gives something
back accepts only some bills.  `Exposure` is what an account must hold by that
evidence; how much Modal may invoice beyond it, the journal does not bound.
`released` is the journal's sum of those releases by account: the code derives it
from the retained amendments, which never change, so it is written by `Approve` only.
`BegunIsAffordable` is about the attempts and the first two follow-ups: the third
checks nothing in advance and may be refused midway, which stops it.

### StudyRehearsal

`runFiles` are write-once documents, `eventLog` only grows, `outbox` stays, `held`
(the fake harness) is lost with the command.  The source tree and the registered
files may be edited between commands.

## Runs

TLC's run of a "side by side" module chooses one part in the initial state and
leaves the others where they begin.  The parts share no state, so the run is the
union of their runs.

| Run | Expect | Shows |
|---|---|---|
| `model_gateway` | pass | handlers, failing transactions, revocations, close and a crash over the ledger: no unbilled call, no overspending but overruns, both waits end if the clients let them |
| `campaign_delivery` | pass | two jobs, two sessions, failures and a death: refinement of `DeliveryContract`, memory follows the outbox, every deliver() ends |
| `measured` | pass | candidates: verdicts are backed by compute, the selection is best; remote evidence: one call's evidence, one valid attempt, eligible means measured |
| `agents` | pass | publication (and its contract), board, sessions, pilot run and rehearsal |
| `verdicts` | pass | compute execution, scores, and hidden evaluation (and its contract) |
| `accounts` | pass | the ledger of model calls, the spend journal, and the ledger of a native fleet |
| `budget_isolation`, `gateway_quiescence`, `delivery_order`, `delivery_reopen`, `candidate_jobs`, `publication_recovery` | violation | the findings below, one each |

Deadlock checking is off: a campaign that has been closed, or has used up its
calls and failures, stops.

### Bounds, and why they are enough

* `model_gateway`: two tokens of different actors and two calls reach every pair
  of program points; costs 1 and 2 over a maximum of 1 give an exact and an
  overrunning call; one crash at any point gives every combination of a lost
  process with a surviving ledger.
* `campaign_delivery`: two sessions are needed for a partial fan-out, two jobs for
  a change of order; two failures (`MaxFaults`) make a retry fail again, one death
  (`MaxCrashes`) at any step resumes from a snapshot of any age.
* `measured`: two candidates of one actor whose allowance affords one exercise
  refusal and provisional rows, the third gives ties; results 0, 1 and 2 are
  ineligible, eligible and better; one failed transaction and one death between
  any two steps.  Remote: two commands, two attempts of two repetitions, two calls
  (`MaxCalls`), one fault (`MaxRemoteFaults`): the second call in one root, the
  retry, the next repetition, and the death between any two files all happen.
  Commands that race are in the performance lane, and their trials are a complete
  one and one on the wrong host (`Races`).  Every lane, with every trial over two
  points, is met by commands that come one after the other and spawn one call
  (`AnyTrial`).
* `agents`: three writes of two actors, of which two share a key and the third
  exceeds an allowance; three requests, two of one key; two overlapping calls; one
  fault (`MaxStoreFaults`).  Three entries (`BoardSize`) with pages of one make a
  full page the last page.  Two actors, two tool calls and three faults
  (`MaxSessionFaults`) let an acquisition, its unwinding and a later stop fail.
  Four raising steps (`MaxPilotFaults`) are one for the run and one for each stage
  of its unwinding; three hidden phases.  One block of four runs, three commands
  (`MaxCommands`) and two edits (`MaxEdits`): two deaths and a change of a file
  before and after the authority.
* `verdicts`: two callers suffice for the race on a row, since it admits one
  owner; the second request stays unplanned, unapproved or unsubmitted; nothing is
  cut.  Scores: thousands of small measurements at, below and above each limit,
  with the guard, the margins and the draws scaled to them; each of three
  calibration repetitions is one of nine bundles.  The theorems cover all
  measurements.  Evaluation: a correctness run, two quality repetitions with the
  reference in either order and two performance runs; two callers, two faults
  (`MaxEvalFaults`), two entries of which one was sealed.
* `accounts`: three calls are one more than two actors need to compete for the
  envelope after an overrun; all thirteen amendments, each with a bill that its
  evidence accepts (for v13, which accepts a range, the highest as well) and, for the
  first, the second and the last two attempts, bills above the range or above every
  allowance of the attempt, to v13 and the two batches after it.  Cut: a second controller is started in attempts 0 and 7 only
  (`Crowded`; an old controller has ended before the next approval elsewhere),
  attempt 11 has dispatched all its six calls when v12 follows (`Followed`),
  batches are approved from v13 on (`PinsFrom`), one controller dies
  (`MaxHostCrashes`).  Fleet: three task calls, three children of which two
  may be admitted beside the primary session (`MaxIdentities`), and one
  fault (`MaxFleetFaults`): a third child is refused, a slot is continued, a reservation is handled after its
  hook gave up, a runtime dies with two tasks.

Calls, commands, hosts and dispatches are interchangeable wherever symmetry is
declared, and no run that checks liveness declares any.

### Fairness

* Gateway: weak fairness of a handler where it waits for no client, of the waiting
  revocation and of the closing thread.  The provider's socket has a timeout and its
  response a byte bound, the database a timeout, and the condition variable wakes
  the waiting thread.  The sockets to clients have no timeout, so a handler in
  `ClientWaits` (reading the body, writing headers, chunks or an error) is not fair:
  `WaitersReturn` says that the waits end if no client keeps its handler for ever,
  as its premise.  Issuing, authorizing and crashing are not fair.
* Delivery: weak fairness of each worker thread and of the join.  A bridge request
  has a timeout, after which the bridge is terminated and the call raises.
* Compute: weak fairness of a caller's orderly steps, which include the time limit
  of the dispatch command (`timeout=120`) and the caller's own deadline.  Failing
  steps are not fair, and neither is the provider: it may never take or end a call,
  and the caller returns all the same.

The other parts are checked for safety only: their progress depends on an operator
who gives a command again, or on an agent.

## Proofs

All theorems hold for every value of the constants under the named assumptions of
the modules (rosters are natural numbers, limits positive, amounts natural, the
names of things and of nothing distinct).  Every invariant, action property and refinement that a passing run checks is a
theorem, and so are type correctness and several further invariants that no run
repeats.

* **Ledger** (`RosterTotalsProofs`, `ModelGatewayProofs`).  The difficulty is that
  reconcile() recomputes sums of unbounded length.  A running sum is characterised
  by its recurrence; that changing one addend moves the total by the difference is
  shown by a least-counterexample argument (`LeastNatural`), which needs no
  induction schema.  `LedgerInv` adds "an overrun row exceeds its maximum"; it is
  inductive because every transaction rewrites one row and moves the counters by
  the same amounts.
* **Gateway** (the same module).  `GatewayInv` adds what a handler at each
  program point knows of its own row, and the equality of `active` with the number
  of calls in flight under a token.  Each gateway step is a ledger transaction or
  leaves the ledger alone (`StepMapsToLedger`), so `LedgerInv` is a part of it.
* **Delivery** (`CampaignProofs`).  `DeliveryInv` says what each worker
  knows: before a prompt lands there is none, after it there is one, and receipts
  in memory, in the outbox and in any snapshot are true.  From it follow
  exactly-once prompting, completeness, the order of closing, and the refinement of
  `DeliveryContract`.  `HandleInv` adds that neither ledger nor handle repeats a
  job, from which the handle lists exactly the completed jobs (`MemoryFollows`).
* **Candidates** (`MeasuredProofs`).  `CandidateInv` ties the place of
  each call to the pair of rows.  A closed job has terminal rows only, from which
  finality follows; finality keeps the recomputed selection equal to the stored
  one.  That a best candidate exists among finitely many is again a least-number
  argument (`BestExists`).
* **Remote evidence** (`MeasuredProofs`).  Any number of commands work on one
  attempt, so `RemoteInv` rests on what no step takes back (`Grows`): a call keeps
  its slot and its trial, and files, manifest, normalised document and bundle are
  written once, in this order.  What a command has found then stays as it found it
  (`CommandStands`), whoever else writes.  An attempt that has a call or a bundle
  waited for those before it (`Admitted`); since a committed bundle never changes,
  it waited for good, which gives one valid attempt per repetition.
* **Publication** (`PublicationProofs`).  `PublicationInv` says what each call has
  prepared and found when it acts, what a row may become, and that the store keeps
  its files and allowances; a failed write of put() leaves at most files nobody
  counts.  From it follow the soundness of store and binding, and, step by step,
  that three databases and their retries refine one atomic post per key
  (`PublicationContract`).
* **Board** (`PublicationProofs`).  The numbers a reader is shown follow the order
  of the entries it can see, and a new entry is numbered ahead of every cursor
  (`ColumnOrder`, `PostedEntry`); so a view has always told of the entries that fit
  it as far as it has come (`BoardInv`), through every page, full or not.  That
  `get_thread()` selects by the stored root and yet returns the entries that answer
  one another is `ThreadIsConnected`: a least entry on the wrong side of a closed
  set would disagree with the one it answers.
* **Sessions** (`HarnessProofs`).  An operation is a program of steps that
  FlattenSeq joins from those of the actors.  `SessionsInv`: whatever an actor has
  is held by a session, or its release is a step of the program still to come, or
  of the stack that resume() would run.  Each step that is done or fails is the
  head of the program, so the lemmas are about what a program and its tail still
  release and in which order; the joined programs are characterised by an
  iteration and a least-counterexample argument, since `FlattenSeq` is recursive.
* **Compute** (`VerdictProofs`).  `ExecutionInv` follows one claim: the
  owner's place determines whether the authorization is used, the command runs or
  the provider has the call; nobody else can move a `dispatching` row.
* **Hidden evaluation** (`VerdictProofs`).  The program of hidden_evaluate() is
  joined from the runs of the series, whose places and roles are first derived from
  the sealed plan.  `EvaluationInv` says what lies behind a call: its runs are
  complete and bound to its candidate, its receipts name that candidate, and the
  process knows their seconds.  No step of another call takes that back (`Kept`,
  `Remembered`), and a death forgets the seconds together with the calls.  So a run
  starts on measured runs only, a receipt stands on its parts, and the parts'
  seconds add up to the composite's.  For the refinement of `EvaluationContract` the
  result that resolves is computed to be the contract's judgement, slot by slot;
  since measurements never change once all are there, it is the same for everyone.
* **Scores** (`VerdictProofs`).  Nothing moves but the input, which stays one the
  code takes (`ScoresInv`); the work is in the arithmetic.  Rounding half to even
  moves a quotient by half a unit at most, keeps the order of numerators, and leaves
  whole quotients alone (`RoundedBounds`, `RoundedMonotone`, `RoundedWhole`); this
  gives the margins of quality and attainment without rounding, and the score of
  exactly one of the reference against itself.  `sorted()` is described by counting
  how many values are less and how many not greater; that such a value exists is a
  least-number argument (`AtPlace`), that it grows with the list a comparison of two
  counts (`PlacesKeepOrder`), and the median's two halves follow from the same
  counts.  Sums grow with their addends (`TotalMonotone`).  So every verdict is a
  monotone function of passes and good requests, through the resampling as well,
  which is `BetterScoresNoLess`.  That a reference does not clear its own bound
  needs `Promotable`, and that it scores the same under the promoted
  profile needs that all its requests were completed, which admission demands.  The
  assumptions are what policy, plan and profile refuse to load without
  (`ScoringAssumption`) and that inputs are such measurements (`InputsAssumption`);
  draws are any indices in range, so the random generator does not matter.
* **Native fleet** (`HarnessProofs`).  Slots are counted before a task may
  run, and children are the work of slots: `FleetInv` names for every child the
  call that first reserved its slot.  That gives the bound on the fleet by
  cardinality, and one active call per slot gives one task per child, whatever
  requests are handled late.
* **Pilot run** (`CampaignProofs`).  `PilotIInv` says what each phase may rely on
  (`Earned`), what the audit may say at each step (`AuditSound`) and what may be
  left behind unsaid (`LeftBehind`); the last is needed because the three facts an
  audit reports are written by different steps of the unwinding.
* **Rehearsal** (`CampaignProofs`).  `StudyInv` ties what a command holds to what
  is on disk.  A command that works found no study audit and has verified every run
  before its own; the documents of those runs are written once and the command
  writes to its own run only (`VerifiedStays`), so they verify when the study audit
  is retained, and nothing is written any more once it is there (`AuditsStay`).
* **Spend journal** (`PilotSpendProofs`), in three layers.  `FundedInv` relates
  receipts, work and the place of each controller: what is dispatched is admitted,
  and at most one execution of an attempt is in flight.  `SettledInv` says that an
  attempt is for ever as the next amendment found it, because nobody works on an
  aborted attempt again: its controllers find it ended, and whoever starts anew
  starts under the new version; so `released` is a known table of what the chain gives back, and each
  account's reserve is compared with its exposure by the amounts of the amendments
  (`ReservesCover`).  `AffordInv` says what the newest attempt has still to find is
  left by all other accounts.  An attempt that begins has checked it; an amendment
  is retained only if the journal is within its limits, and the bounds on the others
  from v8 on are sums of the bills and limits the amendments accept.  Every
  reservation moves one addend of the sum (`RosterTotalsProofs`), which keeps what
  the others hold.

Only model-checked: liveness (the prover has no rule for fairness and ENABLED).  That
is: every waiting revocation and close of the gateway ends, every deliver() ends,
every compute caller returns.

The proofs are grouped like the runs: `CampaignProofs` covers delivery, pilot run
and rehearsal, `HarnessProofs` the sessions and the native fleet, `MeasuredProofs`
measured candidates and their evidence, `PublicationProofs` artifacts and board,
`VerdictProofs` executions, hidden evaluation and scores.

## Where code and documentation differ

1. `budget_isolation`: the documentation says another actor's spending cannot
   cause a request to be rejected; after an overrun it does.  Without one the
   statement is proved (`Isolation`).
2. `gateway_quiescence`: revocation is documented as a barrier after which every
   authenticated call has settled, released or forfeited; a client that is gone
   when the headers are written leaves its reservation open, and so does a ledger
   transaction that fails (which this run switches off with `LedgerMayFail`).  No
   spend is lost: the campaign then does not reconcile as valid.
3. `delivery_order`: close() compares the delivered jobs as sequences in two
   different orders where the documentation speaks of a set.
4. `delivery_reopen`: the check that only active campaigns can be resumed can
   never fail, since a stored snapshot always says active.
5. `candidate_jobs`: closing one job compares it with the reservations of the
   whole campaign.
6. `publication_recovery`: a failed write aborts the preparations although a
   durable entry may already carry them; the entry's publications never resolve.

Observed while modelling, and followed by the models as the code has it:

* A client that holds a connection to the model gateway and neither sends nor reads
  keeps its handler, and `revoke()` and `close()` with it, waiting for ever
  (`model_gateway.py:463-470`, `653`, `719`: the handler class sets no timeout).
* A receipt with `valid=False` is not told as a failure in the hidden performance
  lane (`adapters/modal_vllm_performance_compute.py:241-273`, against
  `docs/MODULE_CONTRACTS.md:609-610`).
* A command that dies between publishing the normalized document and saving the
  bundle makes a later collection refuse it as different content
  (`campaigns/model_serving_v0/reference/modal_vllm.py:1936-1940`).
* An error of asking for a result is retained as terminal evidence of a failure
  (`campaigns/model_serving_v0/reference/modal_vllm.py:2606-2655`), so the cleanup of
  an aborted run reports `terminal_confirmed` for a call that may run on, and does not
  cancel it (`adapters/sqlite_compute_routes.py:153-159`).
* `audit["cleanup_failure"]` keeps the type of the last failing service only, and a
  start that fails and cannot be cleaned up leaves a running runtime that is told
  only as the type of the failure (`uncleaned`).
* A rehearsal that dies after a run's final harness snapshot is written cannot be
  continued if its fake harness had delivered jobs; an audited run may hold a
  snapshot without the jobs delivered before a restart.
* `ModelServingCampaign.materialize` reads the mission file again after its digest
  was taken.
* Nothing in `src/` completes an interrupted native dispatch (the docstring of
  `SqliteNativeAdmission` says "until explicitly reconciled", and reconcile() only
  reads): a fleet with one lost completion can never be snapshotted, suspended or
  stopped without an error.  The database waits thirty seconds where the hook waits
  ten, so a reservation may follow an accepted snapshot.

## Assumptions

* SQLite transactions are atomic and durable, and a failed one changes nothing.
* One dispatcher per campaign; the controller's calls do not overlap.  One call at
  a time works on a candidate: the session gateway serialises an actor's calls, and
  the host evaluates only when the tools do not.
* No bridge process of a dead controller delivers a prompt after the campaign has
  been resumed (the code terminates bridges on a timeout but cannot do so after its
  own death; listed as a hazard).
* The composition stops the harness before it closes the gateway, so no token is
  issued during close().
* One rehearsal command runs at a time (`single_campaign_controller`).
* Digest comparisons, which detect a tampered file or a reused key, succeed.

## Not modelled

Reasons are in the notes of `PROJECT.json`.  Whole components: provider receipts
(parsing; a choice of valid or invalid usage in the models), campaign definitions
and registered profiles (equality of documents), sandboxes (operating system),
hidden bundle retention (the protocol of `RemoteEvidence` with more actors),
qualification, readiness and the command line (sequential operator tooling).
Parts of modelled ones: the visible lane and the paired serving evaluator; source
identity, namespace document and paired measurements of the measurement command;
reset(), audit table and search normalization of the board; a pilot run whose
process dies (its directory refuses the same run id, and what it left is the
recovery plan); seeds and identifiers of a study plan; the two rehearsals with
local adapters, which compose modelled parts; the digest and the scope of a native
fleet.

## Plan

Done so far, in the order of the cost of an error: what is spent, what is reported,
what is paid to the provider, what is measured and concluded, what agents publish
and read, how runs start, end and are paid for, how scores follow from measurements.
Every safety property that is checked is proved.  Next:

1. The correspondence between `EvaluationContract` and the single evaluation that
   `CandidateLifecycle` calls, by a refinement instead of an assumption.
2. The visible lane and the paired evaluator in `HiddenEvaluation`; retention in
   `RemoteEvidence`.
3. A bridge that survives its controller, in `CampaignDelivery`: the hazard that no
   property covers.
