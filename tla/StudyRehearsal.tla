--------------------------- MODULE StudyRehearsal ---------------------------
(***************************************************************************)
(* The rehearsal of a registered study: from the composition, which pins   *)
(* its files, and a randomized block plan an authority is written, every   *)
(* run of the plan goes through a whole campaign without agents, models or *)
(* compute, and the study audit is put together from what the runs left.   *)
(*                                                                         *)
(* The command may die between any two steps and may be given again with   *)
(* the same arguments; one command runs at a time (the authority's         *)
(* "single_campaign_controller").  Every document is written once; the     *)
(* event log is only appended to, the outbox keeps what it has, and the    *)
(* fake harness forgets everything with its process.                       *)
(*                                                                         *)
(* Left out: seeds and identifiers of a plan, which are derived from its   *)
(* arguments, and block-plan.json, which no command reads.                 *)
(***************************************************************************)
EXTENDS Naturals, Sequences, SequencesExt

CONSTANTS Blocks,            \* how many blocks the plan has
          ConditionOrder,    \* the conditions of each block, by sha256
          OrganisationSize,  \* actors of a peer condition
          StudyJobs,         \* how many jobs a block materializes
          SourceVersions,    \* contents the platform's source tree may have
          FileVersions,      \* contents a registered file may have
          PinnedVersion,     \* the content the composition pins
          Unwritten,         \* a document that is not there
          MaxCommands,       \* bound on the commands that are given
          MaxEdits           \* bound on the changes of the repository

Conditions == {"solo", "native_multiagent", "peer_isolated", "peer_collab"}

(* The files a composition pins: the campaign with its mission, and the     *)
(* scoring, calibration and component profiles.                             *)
RegisteredFiles == {"mission", "profile"}

(* BlockAssignment: every condition once, in positions 1 to 4.              *)
Balanced(order) == Len(order) = 4 /\ ToSet(order) = Conditions

ASSUME StudyAssumption ==
    /\ Blocks \in Nat \ {0} /\ OrganisationSize \in Nat \ {0}
    /\ SourceVersions # {} /\ Unwritten \notin SourceVersions
    /\ \A b \in 1..Blocks : Balanced(ConditionOrder[b])
    /\ PinnedVersion \in FileVersions

VARIABLES repository,   \* the source tree and the registered files
          authority,    \* authority.json
          runFiles,     \* the documents of each run
          eventLog,     \* the event log of each run
          outbox,       \* the delivery rows of each run
          studyAudit,   \* study-audit.json
          command,      \* the running command
          held,         \* the jobs its fake harness delivered
          commands,     \* commands given so far
          edits

studyVars == <<repository, authority, runFiles, eventLog, outbox, studyAudit,
               command, held, commands, edits>>

(* The plan: blocks in order, in each four runs in order of position.       *)
RehearsedRuns == 1..(4 * Blocks)
BlockOf(r)    == ((r - 1) \div 4) + 1
PositionOf(r) == ((r - 1) % 4) + 1
ConditionOf(r) == ConditionOrder[BlockOf(r)][PositionOf(r)]
PlannedSessions(r) == 1..(IF ConditionOf(r) \in {"peer_isolated", "peer_collab"}
                          THEN OrganisationSize ELSE 1)

(* resolve(): the authority of one run, a function of plan and authority.   *)
Resolved(r, a) == [study |-> a, run |-> r, condition |-> ConditionOf(r)]

NoRow     == [status |-> "absent", mission |-> PinnedVersion, acked |-> {}]
NoFiles   == [resolved |-> Unwritten, frozen |-> FALSE, snapshot |-> Unwritten,
              audit |-> Unwritten]
NoCommand == [at |-> "none", run |-> 1, job |-> 1, authority |-> Unwritten,
              mission |-> PinnedVersion, audits |-> <<>>]

StudyInit ==
    /\ repository = [source |-> CHOOSE s \in SourceVersions : TRUE, registered |-> [f \in RegisteredFiles |-> PinnedVersion]]
    /\ authority = Unwritten /\ studyAudit = Unwritten
    /\ runFiles = [r \in RehearsedRuns |-> NoFiles]
    /\ eventLog = [r \in RehearsedRuns |-> <<>>]
    /\ outbox = [r \in RehearsedRuns |-> [j \in 1..StudyJobs |-> NoRow]]
    /\ command = NoCommand /\ held = {} /\ commands = 0 /\ edits = 0
-----------------------------------------------------------------------------
(* _write_once(): a document that is there must be the same.                *)
WritesOnce(old, content) == old \in {Unwritten, content}

Reaches(from, to) == command.at = from /\ command' = [command EXCEPT !.at = to]

(* The command raises, dies or returns; its memory goes with it.            *)
CommandEnds == command' = NoCommand /\ held' = {}

Appends(r, event) == eventLog' = [eventLog EXCEPT ![r] = Append(@, event)]

OutsideRuns == <<repository, authority, studyAudit, commands, edits>>

(* _file_ref() and _validate_registered_profiles(): every registered file   *)
(* is the one the composition, and the files that name it, pin.             *)
PinsHold == \A f \in RegisteredFiles : repository.registered[f] = PinnedVersion

(* StudyCompositionCandidate.load() raises before anything is written.      *)
Compose ==
    /\ command.at = "none" /\ commands < MaxCommands
    /\ PinsHold
    /\ command' = [NoCommand EXCEPT !.at = "composed"]
    /\ commands' = commands + 1
    /\ UNCHANGED <<repository, authority, runFiles, eventLog, outbox, studyAudit, held, edits>>

(* A rehearsal that has its audit is run again.                             *)
AuthorizedAnew == WritesOnce(authority, repository.source)

(* NoSpendStudyAuthority.create() and load(), the runner's checks, and the  *)
(* first of run(): a rehearsal that has its audit is not run again.         *)
Authorized == WritesOnce(authority, repository.source) /\ studyAudit = Unwritten

AuthorizeStudy ==
    /\ command.at = "composed"
    /\ IF Authorized
       THEN /\ command' = [command EXCEPT !.at = "authorized", !.authority = repository.source]
            /\ UNCHANGED held
       ELSE CommandEnds
    /\ authority' = IF authority = Unwritten THEN repository.source ELSE authority
    /\ UNCHANGED <<repository, runFiles, eventLog, outbox, studyAudit, commands, edits>>

(* The first run of a block reads the mission, whose digest was taken when  *)
(* the composition was loaded; then resolved-run.json is written.           *)
ResolveRun(r) ==
    /\ command.at = "authorized" /\ command.run = r
    /\ LET content == Resolved(r, command.authority) IN
       IF WritesOnce(runFiles[r].resolved, content)
       THEN /\ runFiles' = [runFiles EXCEPT ![r].resolved = content]
            /\ command' = [command EXCEPT
                   !.at = "resolved", !.job = 1,
                   !.mission = IF PositionOf(r) = 1 THEN repository.registered["mission"] ELSE @]
            /\ UNCHANGED held
       ELSE CommandEnds /\ UNCHANGED runFiles
    /\ UNCHANGED <<OutsideRuns, eventLog, outbox>>

(* The compute manifest of a run without compute.                           *)
FreezeCompute(r) ==
    /\ command.run = r /\ Reaches("resolved", "frozen")
    /\ runFiles' = [runFiles EXCEPT ![r].frozen = TRUE]
    /\ UNCHANGED <<OutsideRuns, eventLog, outbox, held>>

(* CampaignController.start() on a new fake harness.                        *)
StartRun(r) ==
    /\ command.run = r /\ Reaches("frozen", "delivering")
    /\ held' = {}
    /\ Appends(r, "campaign.started")
    /\ UNCHANGED <<OutsideRuns, runFiles, outbox>>

(* prepare(): the row is inserted, or must be of the same job document.     *)
PrepareJob(r, j) ==
    /\ command.at = "delivering" /\ command.run = r /\ command.job = j
    /\ \/ /\ outbox[r][j].status = "absent"
          /\ outbox' = [outbox EXCEPT ![r][j].status = "prepared", ![r][j].mission = command.mission]
          /\ command' = [command EXCEPT !.at = "prepared"]
          /\ UNCHANGED held
       \/ /\ outbox[r][j].status # "absent"
          /\ IF outbox[r][j].mission = command.mission
             THEN command' = [command EXCEPT !.at = "prepared"] /\ UNCHANGED held
             ELSE CommandEnds
          /\ UNCHANGED outbox
    /\ UNCHANGED <<OutsideRuns, runFiles, eventLog>>

(* A worker delivers to its session and stores the receipt; a session whose *)
(* receipt is stored is passed over, whatever this harness knows of it.     *)
DeliverTo(r, j, s) ==
    /\ command.at = "prepared" /\ command.run = r /\ command.job = j
    /\ s \notin outbox[r][j].acked
    /\ held' = held \cup {<<j, s>>}
    /\ outbox' = [outbox EXCEPT ![r][j].acked = @ \cup {s}]
    /\ UNCHANGED <<OutsideRuns, runFiles, eventLog, command>>

CompleteJob(r, j) ==
    /\ command.run = r /\ command.job = j /\ Reaches("prepared", "completed")
    /\ outbox[r][j].acked = PlannedSessions(r)
    /\ outbox' = [outbox EXCEPT ![r][j].status = "complete"]
    /\ UNCHANGED <<OutsideRuns, runFiles, eventLog, held>>

AnnounceJob(r, j) ==
    /\ command.at = "completed" /\ command.run = r /\ command.job = j
    /\ command' = IF j = StudyJobs THEN [command EXCEPT !.at = "closing"]
                  ELSE [command EXCEPT !.at = "delivering", !.job = j + 1]
    /\ Appends(r, "job.delivered")
    /\ UNCHANGED <<OutsideRuns, runFiles, outbox, held>>
-----------------------------------------------------------------------------
(* reconcile() of the outbox: every job of the run is complete, and its     *)
(* receipts are of exactly the sessions of the run.                         *)
RunReconciles(r) ==
    \A j \in 1..StudyJobs :
        outbox[r][j].status = "complete" /\ outbox[r][j].acked = PlannedSessions(r)

(* CampaignController.close(): one event after each ledger that agrees; the *)
(* budget of a campaign without model calls always does, the compute ledger *)
(* when the run's manifest allows none.                                     *)
CloseSteps == <<
    [at |-> "closing",  event |-> "campaign.delivery_reconciled", to |-> "stopped"],
    [at |-> "stopped",  event |-> "campaign.budget_reconciled",   to |-> "budgeted"],
    [at |-> "budgeted", event |-> "campaign.compute_reconciled",  to |-> "computed"],
    [at |-> "computed", event |-> "campaign.closed",              to |-> "closed"]>>

CloseRun(r) == \E i \in DOMAIN CloseSteps :
    /\ command.run = r /\ Reaches(CloseSteps[i].at, CloseSteps[i].to)
    /\ i = 1 => RunReconciles(r)
    /\ i = 3 => runFiles[r].frozen
    /\ Appends(r, CloseSteps[i].event)
    /\ UNCHANGED <<OutsideRuns, runFiles, outbox, held>>

(* The snapshot the harness gave when it was stopped.                       *)
RetainSnapshot(r) ==
    /\ command.at = "closed" /\ command.run = r
    /\ IF WritesOnce(runFiles[r].snapshot, held)
       THEN /\ runFiles' = [runFiles EXCEPT ![r].snapshot = held]
            /\ command' = [command EXCEPT !.at = "snapshotted"]
            /\ UNCHANGED held
       ELSE CommandEnds /\ UNCHANGED runFiles
    /\ UNCHANGED <<OutsideRuns, eventLog, outbox>>

RunAudit(r) ==
    [run |-> Resolved(r, command.authority),
     sessions |-> PlannedSessions(r),
     receipts |-> [j \in 1..StudyJobs |-> outbox[r][j].acked],
     events |-> eventLog[r],
     snapshot |-> held]

RetainRunAudit(r) ==
    /\ command.at = "snapshotted" /\ command.run = r
    /\ IF WritesOnce(runFiles[r].audit, RunAudit(r))
       THEN /\ runFiles' = [runFiles EXCEPT ![r].audit = RunAudit(r)]
            /\ command' = [command EXCEPT
                   !.audits = Append(@, RunAudit(r)), !.run = r + 1,
                   !.at = IF r + 1 \in RehearsedRuns THEN "authorized" ELSE "rehearsed"]
            /\ UNCHANGED held
       ELSE CommandEnds /\ UNCHANGED runFiles
    /\ UNCHANGED <<OutsideRuns, eventLog, outbox>>

(* The study audit names the authority and holds the audits of all runs.    *)
RetainStudyAudit ==
    /\ Reaches("rehearsed", "audited")
    /\ studyAudit' = [authority |-> command.authority, runs |-> command.audits]
    /\ UNCHANGED <<repository, authority, runFiles, eventLog, outbox, held, commands, edits>>

(* The command verifies what it wrote, and returns or raises.               *)
CommandReturns ==
    /\ command.at = "audited"
    /\ CommandEnds
    /\ UNCHANGED <<OutsideRuns, runFiles, eventLog, outbox>>

CommandDies ==
    /\ command.at \notin {"none", "audited"}
    /\ CommandEnds
    /\ UNCHANGED <<OutsideRuns, runFiles, eventLog, outbox>>

(* Someone changes the repository, or changes it back.                      *)
EditRepository ==
    /\ edits < MaxEdits
    /\ edits' = edits + 1
    /\ \/ \E v \in SourceVersions \ {repository.source} :
             repository' = [repository EXCEPT !.source = v]
       \/ \E f \in RegisteredFiles : \E v \in FileVersions \ {repository.registered[f]} :
             repository' = [repository EXCEPT !.registered[f] = v]
    /\ UNCHANGED <<authority, runFiles, eventLog, outbox, studyAudit, command, held, commands>>

StudyNext ==
    \/ Compose \/ AuthorizeStudy
    \/ \E r \in RehearsedRuns :
          \/ ResolveRun(r) \/ FreezeCompute(r) \/ StartRun(r)
          \/ \E j \in 1..StudyJobs :
                \/ PrepareJob(r, j) \/ CompleteJob(r, j) \/ AnnounceJob(r, j)
                \/ \E s \in PlannedSessions(r) : DeliverTo(r, j, s)
          \/ CloseRun(r) \/ RetainSnapshot(r) \/ RetainRunAudit(r)
    \/ RetainStudyAudit \/ CommandReturns \/ CommandDies \/ EditRepository

StudySpec == StudyInit /\ [][StudyNext]_studyVars
-----------------------------------------------------------------------------
(* _verify_run_audit(): the audit of a run against what is on disk.         *)
RunVerified(r, audit) ==
    /\ audit.run = Resolved(r, authority)
    /\ audit.sessions = PlannedSessions(r)
    /\ runFiles[r].audit = audit
    /\ runFiles[r].resolved = audit.run
    /\ runFiles[r].frozen
    /\ RunReconciles(r)
    /\ audit.receipts = [j \in 1..StudyJobs |-> outbox[r][j].acked]
    /\ audit.events = eventLog[r]
    /\ audit.snapshot = runFiles[r].snapshot

(* verify_no_spend_study_audit() with the authority of the rehearsal, which *)
(* loads the composition again.                                             *)
AuditVerifies ==
    /\ PinsHold
    /\ repository.source = authority
    /\ studyAudit.authority = authority
    /\ Len(studyAudit.runs) = 4 * Blocks
    /\ \A r \in RehearsedRuns : RunVerified(r, studyAudit.runs[r])

(* A study audit stays verifiable from retained evidence alone: whatever    *)
(* commands died before it was written and are given after it, it verifies  *)
(* whenever the registered files are the pinned ones and the platform's     *)
(* source is the one the authority names.                                   *)
AuditStands ==
    (studyAudit # Unwritten /\ PinsHold /\ repository.source = authority) => AuditVerifies

=============================================================================
