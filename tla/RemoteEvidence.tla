--------------------------- MODULE RemoteEvidence ---------------------------
(***************************************************************************)
(* How the evidence of a billed GPU call reaches the local bundle store:   *)
(* the repetition commands of reference/modal_vllm.py, which may be        *)
(* started again and again for one attempt, by hand or by a transport, and *)
(* adapters/local_measurements.py.                                         *)
(*                                                                         *)
(* A command spawns the call, then writes the dispatch record, then waits. *)
(* The call stages a bundle and then its manifest in a volume of its own   *)
(* evidence root.  A collector copies the staged evidence to the durable   *)
(* volume, file by file and the manifest last, publishes the normalised    *)
(* document next to it, and commits both to the local store.  A command    *)
(* may die between any two of these steps.                                 *)
(*                                                                         *)
(* One measurement series is modelled: its attempts are slots              *)
(* <<repetition, attempt>>, and its evidence roots are the slots of the    *)
(* namespace of one store.  Evidence bytes are named by the call that      *)
(* produced them, so equal digests are equal names.                        *)
(***************************************************************************)
EXTENDS MeasurementLanes

CONSTANTS
  Commands,        \* processes that run the command line
  MaxRepetitions,
  MaxAttempts,     \* attempts of one repetition
  MaxCalls,        \* bound: calls spawned in a behaviour
  LanesRun,        \* the lanes the behaviours start in
  Modes,           \* how the commands are used: "dispatch", "run", "collect"
  Likely,          \* the trials a call may meet
  MaxRemoteFaults  \* bound: crashes, lost connections and lost calls

ASSUME RemoteAssumption ==
  /\ {MaxRepetitions, MaxAttempts, MaxCalls} \subseteq Nat \ {0}
  /\ Modes \subseteq {"dispatch", "run", "collect"}
  /\ MaxRemoteFaults \in Nat /\ LanesRun \subseteq Lanes /\ Likely \subseteq Trials

Slots == (1 .. MaxRepetitions) \X (1 .. MaxAttempts)
Calls == 1 .. MaxCalls
NoCall == 0
NoSlot == <<0, 0>>
Files == {"remote-receipt", "raw"}

VARIABLES
  lane,          \* the lane of the series
  dispatched,    \* .dispatch/...json of a slot: the recorded call
  calls,         \* the provider's calls: their slot, their state, their trial
  staging,       \* the staging volume under a slot's evidence root
  volume,        \* the durable evidence volume under it
  bundles,       \* the local store: the committed attempts
  command,       \* the commands that run
  remoteFaults

remoteVars ==
  <<lane, dispatched, calls, staging, volume, bundles, command, remoteFaults>>

NoTrial == [failed |-> {}, garbled |-> {}, canary |-> FALSE, host |-> "other", good |-> FALSE]
NoBundle == [doc |-> FailureDocument, from |-> NoCall, named |-> NoCall, committed |-> FALSE]
NoDocument == [from |-> NoCall, named |-> NoCall, observed |-> 0]
Quit == [at |-> "idle", slot |-> NoSlot, mode |-> "run", call |-> NoCall,
         pointer |-> NoCall, missing |-> {}]

RemoteInit ==
  /\ lane \in LanesRun
  /\ dispatched = [s \in Slots |-> NoCall]
  /\ calls = [c \in Calls |-> [slot |-> NoSlot, at |-> "unused", trial |-> NoTrial]]
  /\ staging = [s \in Slots |-> [bundle |-> NoCall, manifest |-> NoCall]]
  /\ volume = [s \in Slots |->
                 [files |-> [f \in Files |-> NoCall], manifest |-> NoCall,
                  normalized |-> NoDocument]]
  /\ bundles = [s \in Slots |-> NoBundle]
  /\ command = [p \in Commands |-> Quit]
  /\ remoteFaults = 0

IsCommitted(slot) == bundles[slot].committed
ValidAttempt(slot) == IsCommitted(slot) /\ bundles[slot].doc.valid

Moves(p, at) == command' = [command EXCEPT ![p].at = at]
Ends(p) == command' = [command EXCEPT ![p] = Quit]
Unfinished == remoteFaults < MaxRemoteFaults /\ remoteFaults' = remoteFaults + 1

-----------------------------------------------------------------------------
(* The commands.                                                            *)

\* Mutant of RetryAdmitted: a retry asks for committed evidence only.
RetryOfAnything(slot) == slot[2] > 1 => IsCommitted(<<slot[1], slot[2] - 1>>)

\* A retry needs the committed and invalid evidence of the attempt before it.
RetryAdmitted(slot) ==
  slot[2] > 1 => /\ IsCommitted(<<slot[1], slot[2] - 1>>)
                 /\ ~ValidAttempt(<<slot[1], slot[2] - 1>>)

\* Mutant of PriorsAdmitted: committed evidence of the ones before it will do.
PriorsCommitted(slot) ==
  lane # "correctness" =>
    \A r \in 1 .. slot[1] - 1 : \E a \in 1 .. MaxAttempts : IsCommitted(<<r, a>>)

\* A performance or quality repetition of a series needs a valid attempt of
\* every repetition before it; a correctness repetition does not ask.
PriorsAdmitted(slot) ==
  lane # "correctness" =>
    \A r \in 1 .. slot[1] - 1 : \E a \in 1 .. MaxAttempts : ValidAttempt(<<r, a>>)

\* The command is started: refused for an attempt already committed.
Begin(p, slot, mode) ==
  /\ command[p] = Quit
  /\ ~IsCommitted(slot) /\ RetryAdmitted(slot) /\ PriorsAdmitted(slot)
  /\ command' = [command EXCEPT ![p].at = "read", ![p].slot = slot, ![p].mode = mode]
  /\ UNCHANGED <<lane, dispatched, calls, staging, volume, bundles, remoteFaults>>

\* It reads the dispatch record.  Without one a collector gives up and any
\* other command spawns the call; with one it waits for the recorded call.
ReadDispatch(p) ==
  /\ command[p].at = "read"
  /\ LET me == command[p]
         call == dispatched[me.slot]
     IN  CASE call # NoCall /\ me.mode # "dispatch" ->
                command' = [command EXCEPT ![p].at = "wait", ![p].call = call]
           [] call = NoCall /\ me.mode # "collect" -> Moves(p, "spawn")
           [] OTHER -> Ends(p)
  /\ UNCHANGED <<lane, dispatched, calls, staging, volume, bundles, remoteFaults>>

\* function.spawn(): the provider has the call, the local disk does not yet.
Spawn(p) ==
  /\ command[p].at = "spawn"
  /\ \E c \in Calls :
       /\ calls[c].at = "unused" /\ \A d \in 1 .. c - 1 : calls[d].at # "unused"
       /\ calls' = [calls EXCEPT ![c].slot = command[p].slot, ![c].at = "running"]
       /\ command' = [command EXCEPT ![p].at = "record", ![p].call = c]
  /\ UNCHANGED <<lane, dispatched, staging, volume, bundles, remoteFaults>>

\* _write_json_atomic(): the record replaces whatever is there.
WriteDispatch(p) ==
  /\ command[p].at = "record"
  /\ dispatched' = [dispatched EXCEPT ![command[p].slot] = command[p].call]
  /\ IF command[p].mode = "dispatch" THEN Ends(p) ELSE Moves(p, "wait")
  /\ UNCHANGED <<lane, calls, staging, volume, bundles, remoteFaults>>

-----------------------------------------------------------------------------
(* _get_scored_call_result().                                               *)
Answered(p, call) ==
  command' = [command EXCEPT ![p].at = "stage", ![p].pointer = call]

\* A collector looks for a staged manifest before it asks for the result.
StagedPointer(p) ==
  /\ command[p].at = "wait" /\ command[p].mode = "collect"
  /\ staging[command[p].slot].manifest # NoCall
  /\ Answered(p, staging[command[p].slot].manifest)
  /\ UNCHANGED <<lane, dispatched, calls, staging, volume, bundles, remoteFaults>>

\* The result of the recorded call: its pointer, or the exception it ended in.
CallResult(p) ==
  /\ command[p].at = "wait"
  /\ command[p].mode = "collect" => staging[command[p].slot].manifest = NoCall
  /\ \/ calls[command[p].call].at = "returned" /\ Answered(p, command[p].call)
     \/ calls[command[p].call].at \in {"failed", "expired"} /\ Moves(p, "fail")
  /\ UNCHANGED <<lane, dispatched, calls, staging, volume, bundles, remoteFaults>>

\* The call still runs when a collector's timeout ends: nothing is committed.
Pending(p) ==
  /\ command[p].at = "wait" /\ command[p].mode = "collect"
  /\ staging[command[p].slot].manifest = NoCall
  /\ calls[command[p].call].at \in {"running", "bundled", "staged"}
  /\ Ends(p)
  /\ UNCHANGED <<lane, dispatched, calls, staging, volume, bundles, remoteFaults>>

\* get() raises: a lost connection ends the command, anything else is taken
\* for the end of the call, whatever the call does.
GetRaises(p) ==
  /\ command[p].at = "wait" /\ Unfinished
  /\ Ends(p) \/ Moves(p, "fail")
  /\ UNCHANGED <<lane, dispatched, calls, staging, volume, bundles>>

\* LocalMeasurementBundleStore.save(), under the lock of the measurement.
Save(p, bundle) ==
  /\ bundles' = IF IsCommitted(command[p].slot) THEN bundles
                ELSE [bundles EXCEPT ![command[p].slot] = bundle]
  /\ Ends(p)

SaveFailure(p) ==
  /\ command[p].at = "fail"
  /\ Save(p, [doc |-> FailureDocument, from |-> NoCall, named |-> command[p].call,
              committed |-> TRUE])
  /\ UNCHANGED <<lane, dispatched, calls, staging, volume, remoteFaults>>

-----------------------------------------------------------------------------
(* _ensure_durable_evidence().                                              *)

\* _collect_staged_bundle(): the manifest must be the pointer's, the bundle
\* must be the manifest's.
CollectStaged(p) ==
  /\ command[p].at = "stage"
  /\ LET here == staging[command[p].slot]
     IN  IF here.manifest = command[p].pointer /\ here.bundle = here.manifest
           THEN Moves(p, "check") ELSE Ends(p)
  /\ UNCHANGED <<lane, dispatched, calls, staging, volume, bundles, remoteFaults>>

\* Mutant of CheckFiles: the files that are there are taken to be the same.
CheckAbsence(p) ==
  /\ command[p].at = "check"
  /\ LET absent == {f \in Files : volume[command[p].slot].files[f] = NoCall}
     IN  command' = [command EXCEPT ![p].missing = absent,
                       ![p].at = IF absent = {} THEN "manifest" ELSE "upload"]
  /\ UNCHANGED <<lane, dispatched, calls, staging, volume, bundles, remoteFaults>>

\* _persist_evidence_from_client() compares the files that are there.
CheckFiles(p) ==
  /\ command[p].at = "check"
  /\ LET there == volume[command[p].slot].files
         absent == {f \in Files : there[f] = NoCall}
     IN  IF \E f \in Files \ absent : there[f] # command[p].pointer THEN Ends(p)
         ELSE command' = [command EXCEPT ![p].missing = absent,
                            ![p].at = IF absent = {} THEN "manifest" ELSE "upload"]
  /\ UNCHANGED <<lane, dispatched, calls, staging, volume, bundles, remoteFaults>>

Uploaded(p, some) ==
  volume' = [volume EXCEPT ![command[p].slot].files =
               [f \in Files |-> IF f \in some THEN command[p].pointer ELSE @[f]]]

\* It uploads the missing ones: a file that has come meanwhile is refused.
UploadFiles(p) ==
  /\ command[p].at = "upload"
  /\ IF \A f \in command[p].missing : volume[command[p].slot].files[f] = NoCall
       THEN Uploaded(p, command[p].missing) /\ Moves(p, "manifest")
       ELSE UNCHANGED volume /\ Ends(p)
  /\ UNCHANGED <<lane, dispatched, calls, staging, bundles, remoteFaults>>

\* The upload breaks off with some of the files stored.
UploadBreaks(p) ==
  /\ command[p].at = "upload" /\ Unfinished
  /\ \A f \in command[p].missing : volume[command[p].slot].files[f] = NoCall
  /\ \E some \in SUBSET command[p].missing : Uploaded(p, some)
  /\ Ends(p)
  /\ UNCHANGED <<lane, dispatched, calls, staging, bundles>>

\* The manifest is published last, and never over another.
UploadManifest(p) ==
  /\ command[p].at = "manifest"
  /\ LET there == volume[command[p].slot].manifest
     IN  IF there \in {NoCall, command[p].pointer}
           THEN /\ volume' = [volume EXCEPT ![command[p].slot].manifest = command[p].pointer]
                /\ Moves(p, "load")
           ELSE UNCHANGED volume /\ Ends(p)
  /\ UNCHANGED <<lane, dispatched, calls, staging, bundles, remoteFaults>>

\* _collect_remote_evidence(): what is committed is read back from the volume,
\* every file against the manifest.
LoadDurable(p) ==
  /\ command[p].at = "load"
  /\ LET here == volume[command[p].slot]
     IN  IF here.manifest = command[p].pointer
            /\ \A f \in Files : here.files[f] = here.manifest
           THEN Moves(p, "publish") ELSE Ends(p)
  /\ UNCHANGED <<lane, dispatched, calls, staging, volume, bundles, remoteFaults>>

\* The normalised document holds the call the record names and the time this
\* collector observed, which another collection may or may not observe again.
Normalized(p, ms) ==
  [from |-> command[p].pointer, named |-> command[p].call, observed |-> ms]

\* Mutant of PublishNormalized: the later collection replaces the earlier one.
\* _publish_normalized_evidence(): write-once, compared byte for byte.
PublishNormalized(p) ==
  /\ command[p].at = "publish"
  /\ LET there == volume[command[p].slot].normalized
     IN  \E ms \in 1 .. 2 :
           IF there \in {NoDocument, Normalized(p, ms)}
             THEN /\ volume' = [volume EXCEPT ![command[p].slot].normalized =
                                  Normalized(p, ms)]
                  /\ Moves(p, "commit")
             ELSE UNCHANGED volume /\ Ends(p)
  /\ UNCHANGED <<lane, dispatched, calls, staging, bundles, remoteFaults>>

CommitBundle(p) ==
  /\ command[p].at = "commit"
  /\ Save(p, [doc |-> Document(lane, calls[command[p].pointer].trial),
              from |-> command[p].pointer, named |-> command[p].call, committed |-> TRUE])
  /\ UNCHANGED <<lane, dispatched, calls, staging, volume, remoteFaults>>

\* The command dies, or loses the provider, between two of its steps.
CommandDies(p) ==
  /\ command[p] # Quit /\ Unfinished
  /\ Ends(p)
  /\ UNCHANGED <<lane, dispatched, calls, staging, volume, bundles>>

-----------------------------------------------------------------------------
(* The calls: retries = 0, one container each, one evidence root per slot.  *)

\* The container measures and writes the bundle exclusively.  A container that
\* was started before another one's bundle was visible may replace it.
MeasureAndStage(c) ==
  /\ calls[c].at = "running"
  /\ LET root == calls[c].slot
     IN  \/ \E trial \in Likely :
              /\ calls' = [calls EXCEPT ![c].at = "bundled", ![c].trial = trial]
              /\ staging' = [staging EXCEPT ![root].bundle = c]
         \/ /\ staging[root].bundle # NoCall
            /\ calls' = [calls EXCEPT ![c].at = "failed"]
            /\ UNCHANGED staging
  /\ UNCHANGED <<lane, dispatched, volume, bundles, command, remoteFaults>>

StageManifest(c) ==
  /\ calls[c].at = "bundled"
  /\ LET root == calls[c].slot
     IN  \/ /\ calls' = [calls EXCEPT ![c].at = "staged"]
            /\ staging' = [staging EXCEPT ![root].manifest = c]
         \/ /\ staging[root].manifest # NoCall
            /\ calls' = [calls EXCEPT ![c].at = "failed"]
            /\ UNCHANGED staging
  /\ UNCHANGED <<lane, dispatched, volume, bundles, command, remoteFaults>>

CallReturns(c) ==
  /\ calls[c].at = "staged"
  /\ calls' = [calls EXCEPT ![c].at = "returned"]
  /\ UNCHANGED <<lane, dispatched, staging, volume, bundles, command, remoteFaults>>

\* The container is lost or times out, or the provider forgets the result.
CallIsLost(c) ==
  /\ Unfinished
  /\ \/ /\ calls[c].at \in {"running", "bundled", "staged"}
        /\ calls' = [calls EXCEPT ![c].at = "failed"]
     \/ /\ calls[c].at = "returned"
        /\ calls' = [calls EXCEPT ![c].at = "expired"]
  /\ UNCHANGED <<lane, dispatched, staging, volume, bundles, command>>

-----------------------------------------------------------------------------
CommandSteps(p) ==
  \/ ReadDispatch(p) \/ Spawn(p) \/ WriteDispatch(p)
  \/ StagedPointer(p) \/ CallResult(p) \/ Pending(p) \/ SaveFailure(p)
  \/ CollectStaged(p) \/ CheckFiles(p) \/ UploadFiles(p) \/ UploadManifest(p)
  \/ LoadDurable(p) \/ PublishNormalized(p) \/ CommitBundle(p)

CallSteps(c) == MeasureAndStage(c) \/ StageManifest(c) \/ CallReturns(c)

RemoteNext ==
  \/ \E p \in Commands, slot \in Slots, mode \in Modes :
       Begin(p, slot, mode)
  \/ \E p \in Commands : CommandSteps(p)
  \/ \E p \in Commands : GetRaises(p) \/ UploadBreaks(p) \/ CommandDies(p)
  \/ \E c \in Calls : CallSteps(c)
  \/ \E c \in Calls : CallIsLost(c)

RemoteSpec == RemoteInit /\ [][RemoteNext]_remoteVars

-----------------------------------------------------------------------------
(* The evidence is one call's.  Two commands that both found no record may  *)
(* spawn two calls into one evidence root, and uploads break off anywhere:  *)
(* a published manifest still describes files of the one call it names, a   *)
(* normalised document describes them too, and a committed measurement is   *)
(* the outcome of a call of that very attempt, judged by its own trial      *)
(* (_persist_evidence_from_client, _collect_volume_evidence).               *)
EvidenceIsOneCalls ==
  \A s \in Slots :
    /\ volume[s].manifest # NoCall =>
         \A f \in Files : volume[s].files[f] = volume[s].manifest
    /\ volume[s].normalized # NoDocument =>
         volume[s].normalized.from = volume[s].manifest
    /\ (IsCommitted(s) /\ ~bundles[s].doc.failure) =>
         /\ bundles[s].from = volume[s].manifest
         /\ calls[bundles[s].from].slot = s
         /\ bundles[s].doc = Document(lane, calls[bundles[s].from].trial)
         /\ bundles[s].named = volume[s].normalized.named

(* A repetition is measured until it is valid and then left alone: at most  *)
(* one attempt of it is valid, that one is the last committed, and nothing  *)
(* was spawned for a repetition while an earlier one had no valid attempt   *)
(* ("a valid repetition cannot be retried").                                *)
OneValidAttempt ==
  \A r \in 1 .. MaxRepetitions, a, b \in 1 .. MaxAttempts :
    /\ (a < b /\ IsCommitted(<<r, b>>)) => IsCommitted(<<r, a>>) /\ ~ValidAttempt(<<r, a>>)
    /\ (lane # "correctness" /\ r > 1 /\ \E c \in Calls : calls[c].slot = <<r, a>>) =>
         \E e \in 1 .. MaxAttempts : ValidAttempt(<<r - 1, e>>)

(* What the hidden evaluation takes for a complete and eligible measurement *)
(* was measured: every case ran and was read, on the pinned GPU throughout  *)
(* and with a score the scorer accepts.                                     *)
EligibleWasMeasured ==
  \A s \in Slots :
    (IsCommitted(s) /\ Told(lane, bundles[s].doc) = Complete(TRUE)) =>
      LET trial == calls[bundles[s].from].trial
      IN  /\ bundles[s].from # NoCall
          /\ trial.failed = {} /\ trial.garbled = {}
          /\ trial.host = "pinned" /\ trial.good

=============================================================================
