-------------------------- MODULE HarnessSessions --------------------------
(***************************************************************************)
(* OpenCodeHarnessRuntime and the gateways that give its sessions access:   *)
(* every primary actor has a bridge process and one credential per gateway. *)
(* create_primary(), resume(), rollback_resume(), suspend() and stop()      *)
(* acquire and release them step by step; any step may fail, and tool calls *)
(* of the agents are under way meanwhile.                                   *)
(*                                                                         *)
(* The controller runs one of these operations at a time.  A native         *)
(* organisation has the "native" gateway in the place of "candidate", the   *)
(* same class.  Left out: what deliver() does (module CampaignDelivery),    *)
(* and the documents and digests a snapshot carries.                        *)
(***************************************************************************)
EXTENDS Integers, Sequences, SequencesExt

CONSTANTS CrewSize,          \* primary actors, in the order of their ordinals
          Callers,           \* handler threads of the gateways
          MaxSessionFaults   \* bound on failed steps, dead bridges and process deaths

ASSUME SessionsAssumption == CrewSize \in Nat /\ MaxSessionFaults \in Nat

Members == 1..CrewSize
Kinds  == {"model", "peer", "candidate"}

VARIABLES org,     \* the organisation in _organisations
          sess,    \* state.sessions
          indexed, \* _session_to_organisation
          bridge,  \* the bridge of each actor
          cred,    \* the credential each gateway holds for each actor
          bound,   \* <<actor, kind>> whose access has its session
          stray,   \* actors with process groups nothing refers to any more
          saved,   \* a durable snapshot of all sessions exists
          op,      \* the operation under way
          todo,    \* its remaining steps
          undo,    \* the callbacks of resume()'s ExitStack
          errors,  \* a cleanup step has raised
          toolCalls,   \* the tool calls of the agents
          sessionFaults

resources == <<bridge, cred, bound>>
program   == <<op, todo, undo, errors>>
sessVars  == <<org, sess, indexed, resources, stray, saved, program, toolCalls, sessionFaults>>

Step(do, a, k) == [do |-> do, actor |-> a, kind |-> k]
NoKind == "none"
Idle == [stage |-> "idle", actor |-> 1, kind |-> NoKind]

SessionsInit ==
    /\ org = "none" /\ sess = {} /\ indexed = {}
    /\ bridge = [a \in Members |-> "none"]
    /\ cred = [a \in Members |-> [k \in Kinds |-> "none"]]
    /\ bound = {}
    /\ stray = {}
    /\ saved = FALSE
    /\ op = "idle" /\ todo = <<>> /\ undo = <<>> /\ errors = FALSE
    /\ toolCalls = [c \in Callers |-> Idle]
    /\ sessionFaults = 0
-----------------------------------------------------------------------------
(* create_primary().                                                        *)
Acquire(a) ==
    <<Step("issue", a, "model"), Step("issue", a, "peer"), Step("issue", a, "candidate"),
      Step("bridge", a, NoKind), Step("session", a, NoKind),
      Step("activate", a, "model"), Step("activate", a, "candidate"),
      Step("activate", a, "peer"), Step("register", a, NoKind)>>

(* One turn of the loop of resume().                                        *)
AcquireAgain(a) ==
    <<Step("issue", a, "model"), Step("issue", a, "peer"), Step("issue", a, "candidate"),
      Step("bridge", a, NoKind), Step("session", a, NoKind),
      Step("activate", a, "model"), Step("activate", a, "candidate"),
      Step("activate", a, "peer"), Step("verify", a, NoKind), Step("register", a, NoKind)>>

Revoke(a, k) == <<Step("revoke", a, k), Step("expire", a, k)>>

(* The cleanups of one session in stop(), rollback_resume() and suspend().  *)
ReleaseSteps(a) ==
    <<Step("close", a, NoKind),
      Step("revoke", a, "model"), Step("expire", a, "model"),
      Step("revoke", a, "peer"), Step("expire", a, "peer"),
      Step("revoke", a, "candidate"), Step("expire", a, "candidate")>>

(* Mutant: the branch forgets the model credential.                         *)
UnwindTools(a) ==
    <<Step("close", a, NoKind)>> \o Revoke(a, "peer") \o Revoke(a, "candidate")

(* The except branches of create_primary(); nested finally clauses attempt  *)
(* every one of them.                                                       *)
Unwind(a) ==
    <<Step("close", a, NoKind),
      Step("revoke", a, "peer"), Step("expire", a, "peer"),
      Step("revoke", a, "candidate"), Step("expire", a, "candidate"),
      Step("revoke", a, "model"), Step("expire", a, "model")>>

(* In the order of the actors' ordinals.                                    *)
RollbackSteps(S) ==
    FlattenSeq([a \in Members |-> IF a \in S THEN ReleaseSteps(a) ELSE <<>>])

StopSteps(S) == <<Step("snapshot", 1, NoKind)>> \o RollbackSteps(S)

SuspendSteps(S) ==
    <<Step("snapshot", 1, NoKind)>>
    \o FlattenSeq([a \in Members |->
           IF a \in S THEN Append(ReleaseSteps(a), Step("forget", a, NoKind)) ELSE <<>>])

(* What resume() has pushed on its stack once a step has succeeded.         *)
Callback(s) ==
    CASE s.do = "issue"    -> Revoke(s.actor, s.kind)
      [] s.do = "bridge"   -> <<Step("close", s.actor, NoKind)>>
      [] s.do = "register" -> <<Step("forget", s.actor, NoKind)>>
      [] OTHER             -> <<>>

Runs(name, steps) == op' = name /\ todo' = steps

(* Process groups whose bridge object goes away without having been closed. *)
Abandoned == {a \in Members : bridge[a] \in {"running", "broken"}}
NoBridges == [a \in Members |-> "none"]
-----------------------------------------------------------------------------
Calling(a, k) == \E c \in Callers : toolCalls[c].stage = "running"
                                      /\ toolCalls[c].actor = a /\ toolCalls[c].kind = k

(* Mutant: a gateway does not wait for the calls of an access.              *)
ClearNow(s) == TRUE

(* The peer gateway holds its one lock for a whole call; the others wait    *)
(* for the calls of the access that expires.                                *)
Clear(s) ==
    CASE s.kind = "peer" -> \A a \in Members : ~Calling(a, "peer")
      [] s.do = "expire" -> ~Calling(s.actor, s.kind)
      [] OTHER           -> TRUE

(* What a step has done once it has returned.                               *)
Effect(s) ==
    /\ bridge' = CASE s.do = "bridge" -> [bridge EXCEPT ![s.actor] = "running"]
                   [] s.do = "close"  -> [bridge EXCEPT ![s.actor] = "none"]
                   [] OTHER           -> bridge
    /\ cred' = CASE s.do = "issue"    -> [cred EXCEPT ![s.actor][s.kind] = "pending"]
                 [] s.do = "activate" -> [cred EXCEPT ![s.actor][s.kind] = "active"]
                 [] s.do = "revoke"   -> [cred EXCEPT ![s.actor][s.kind] = "none"]
                 [] OTHER             -> cred
    /\ bound' = CASE s.do = "activate" -> bound \cup {<<s.actor, s.kind>>}
                  [] s.do = "expire" \/ (s.do = "revoke" /\ s.kind = "peer")
                                       -> bound \ {<<s.actor, s.kind>>}
                  [] OTHER             -> bound
    /\ indexed' = CASE s.do = "register" -> indexed \cup {s.actor}
                  [] s.do = "forget"   -> indexed \ {s.actor}
                  [] OTHER             -> indexed
    /\ sess' = IF s.do = "register" /\ op = "start" THEN sess \cup {s.actor} ELSE sess
    /\ saved' = (saved \/ (s.do = "snapshot" /\ op = "suspend"))
    /\ UNCHANGED <<org, stray, toolCalls, sessionFaults>>

(* A request needs its bridge; a snapshot asks every bridge, a session that *)
(* is registered must not be known yet.                                     *)
Possible(s) ==
    CASE s.do \in {"session", "verify"} -> bridge[s.actor] = "running"
      [] s.do = "snapshot" -> \A a \in sess : bridge[a] = "running"
      [] s.do = "register" -> s.actor \notin indexed
      [] OTHER -> TRUE

StepReturns ==
    /\ todo # <<>>
    /\ LET s == Head(todo)
       IN  /\ Possible(s) /\ Clear(s)
           /\ Effect(s)
           /\ undo' = IF op = "resume" THEN Callback(s) \o undo ELSE undo
    /\ todo' = Tail(todo)
    /\ UNCHANGED <<op, errors>>

(* Where an exception leads: create_primary() unwinds, resume() empties its *)
(* stack, stop() and the rollbacks note the error and go on, suspend()      *)
(* gives up.                                                                *)
Raises(s) ==
    CASE op = "start"   -> /\ Runs("unwind", Unwind(s.actor))
                           /\ UNCHANGED <<undo, errors>>
      [] op = "resume"  -> Runs("rewind", undo) /\ undo' = <<>> /\ UNCHANGED errors
      [] op = "suspend" -> Runs("idle", <<>>) /\ UNCHANGED <<undo, errors>>
      [] OTHER          -> Runs(op, Tail(todo)) /\ errors' = TRUE /\ UNCHANGED undo

(* A failed step has no effect, or has done its work but for a socket file; *)
(* a timeout or an unkillable group leaves a broken bridge.                 *)
StepFails ==
    /\ todo # <<>>
    /\ sessionFaults < MaxSessionFaults
    /\ LET s == Head(todo)
       IN  /\ s.do \notin {"register", "forget"} /\ Clear(s)
           /\ bridge' \in CASE s.do \in {"session", "verify", "close"} /\ bridge[s.actor] # "none"
                                 -> {[bridge EXCEPT ![s.actor] = "broken"]}
                                    \cup (IF s.do = "close" THEN {} ELSE {bridge})
                            [] OTHER -> {bridge}
           /\ stray' \in {stray} \cup (IF s.do = "bridge" THEN {stray \cup {s.actor}} ELSE {})
           /\ cred' = IF s.do = "revoke" THEN [cred EXCEPT ![s.actor][s.kind] = "none"] ELSE cred
           /\ bound' = IF s.do \in {"revoke", "expire"} THEN bound \ {<<s.actor, s.kind>>} ELSE bound
           /\ s.do = "revoke" => s.kind = "peer"
           /\ Raises(s)
    /\ sessionFaults' = sessionFaults + 1
    /\ UNCHANGED <<org, sess, indexed, saved, toolCalls>>

(* A step that cannot succeed raises.                                       *)
StepImpossible ==
    /\ todo # <<>>
    /\ ~Possible(Head(todo))
    /\ Raises(Head(todo))
    /\ UNCHANGED <<org, sess, indexed, resources, stray, saved, toolCalls, sessionFaults>>
-----------------------------------------------------------------------------
(* CampaignController.start().                                              *)
StartOrganisation ==
    /\ op = "idle" /\ org = "none" /\ ~saved
    /\ org' = "active"
    /\ Runs("start", FlattenSeq([a \in Members |-> Acquire(a)]))
    /\ UNCHANGED <<sess, indexed, resources, stray, saved, undo, errors, toolCalls, sessionFaults>>

(* resume() under an organisation the runtime does not hold; the surface    *)
(* and the receipts of every session are verified before it is registered.  *)
Resume ==
    /\ op = "idle" /\ org = "none" /\ saved
    /\ Runs("resume", FlattenSeq([a \in Members |-> AcquireAgain(a)]))
    /\ undo' = <<>> /\ errors' = FALSE
    /\ UNCHANGED <<org, sess, indexed, resources, stray, saved, toolCalls, sessionFaults>>

(* The controller's snapshot().                                             *)
TakeSnapshot ==
    /\ op = "idle" /\ org = "active"
    /\ Possible(Step("snapshot", 1, NoKind))
    /\ saved' = TRUE
    /\ UNCHANGED <<org, sess, indexed, resources, stray, program, toolCalls, sessionFaults>>

Suspend ==
    /\ op = "idle" /\ org = "active"
    /\ Runs("suspend", SuspendSteps(sess))
    /\ UNCHANGED <<org, sess, indexed, resources, stray, saved, undo, errors, toolCalls, sessionFaults>>

(* stop() may be called again after it has failed.                          *)
Stop ==
    /\ op = "idle"
    /\ org = "active" \/ (org = "stopped" /\ errors)
    /\ Runs("stop", StopSteps(sess))
    /\ errors' = FALSE
    /\ UNCHANGED <<org, sess, indexed, resources, stray, saved, undo, toolCalls, sessionFaults>>

(* A rollback that failed is retried on the handle that was kept.           *)
RetryRollback ==
    /\ op = "idle" /\ org = "stopped" /\ errors
    /\ Runs("rollback", RollbackSteps(sess))
    /\ errors' = FALSE
    /\ UNCHANGED <<org, sess, indexed, resources, stray, saved, undo, toolCalls, sessionFaults>>

(* The last step has returned.                                              *)
StartDone ==
    /\ op = "start" /\ todo = <<>>
    /\ \/ Runs("idle", <<>>) /\ UNCHANGED <<errors, sessionFaults>>
       \/ /\ sessionFaults < MaxSessionFaults /\ sessionFaults' = sessionFaults + 1
          /\ Runs("stop", StopSteps(sess)) /\ errors' = FALSE
    /\ UNCHANGED <<org, sess, indexed, resources, stray, saved, undo, toolCalls>>

UnwindDone ==
    /\ op = "unwind" /\ todo = <<>>
    /\ Runs("stop", StopSteps(sess))
    /\ stray' = stray \cup (Abandoned \ sess)
    /\ bridge' = [a \in Members |-> IF a \in sess THEN bridge[a] ELSE "none"]
    /\ errors' = FALSE
    /\ UNCHANGED <<org, sess, indexed, cred, bound, saved, undo, toolCalls, sessionFaults>>

StopDone ==
    /\ op = "stop" /\ todo = <<>>
    /\ org' = "stopped"
    /\ Runs("idle", <<>>)
    /\ UNCHANGED <<sess, indexed, resources, stray, saved, undo, errors, toolCalls, sessionFaults>>

SuspendDone ==
    /\ op = "suspend" /\ todo = <<>>
    /\ org' = "none" /\ sess' = {}
    /\ Runs("idle", <<>>)
    /\ UNCHANGED <<indexed, resources, stray, saved, undo, errors, toolCalls, sessionFaults>>

(* The campaign.resumed event may fail: the controller rolls back.          *)
ResumeDone ==
    /\ op = "resume" /\ todo = <<>>
    /\ org' = "active" /\ sess' = Members /\ undo' = <<>>
    /\ \/ Runs("idle", <<>>) /\ UNCHANGED sessionFaults
       \/ /\ sessionFaults < MaxSessionFaults /\ sessionFaults' = sessionFaults + 1
          /\ Runs("rollback", RollbackSteps(Members))
    /\ UNCHANGED <<indexed, resources, stray, saved, errors, toolCalls>>

(* The sessions resume() has restored are dropped with its stack.           *)
RewindDone ==
    /\ op = "rewind" /\ todo = <<>>
    /\ Runs("idle", <<>>)
    /\ stray' = stray \cup Abandoned
    /\ bridge' = NoBridges
    /\ UNCHANGED <<org, sess, indexed, cred, bound, saved, undo, errors, toolCalls, sessionFaults>>

(* rollback_resume() keeps the handle, stopped, until every transport is    *)
(* released.                                                                *)
RollbackDone ==
    /\ op = "rollback" /\ todo = <<>>
    /\ IF errors THEN org' = "stopped" /\ UNCHANGED <<sess, indexed>>
       ELSE org' = "none" /\ sess' = {} /\ indexed' = indexed \ sess
    /\ Runs("idle", <<>>)
    /\ UNCHANGED <<resources, stray, saved, undo, errors, toolCalls, sessionFaults>>

Done == StartDone \/ UnwindDone \/ StopDone \/ SuspendDone \/ ResumeDone
            \/ RewindDone \/ RollbackDone
-----------------------------------------------------------------------------
Sets(c, stage, a, k) == toolCalls' = [toolCalls EXCEPT ![c] = [stage |-> stage, actor |-> a, kind |-> k]]
onlyCalls == <<org, sess, indexed, resources, stray, saved, program, sessionFaults>>

(* A model or peer call finds an active access under the gateway's lock and *)
(* goes on, a peer call still holding it.                                   *)
CallStarts(c, a, k) ==
    /\ toolCalls[c].stage = "idle" /\ bridge[a] = "running"
    /\ k # "candidate" /\ cred[a][k] = "active"
    /\ k = "peer" => \A b \in Members : ~Calling(b, "peer")
    /\ Sets(c, "running", a, k)
    /\ UNCHANGED onlyCalls

(* A candidate call looks its access up under the gateway's lock, and only  *)
(* then waits for the lock of the access.                                   *)
CallLooks(c, a) ==
    /\ toolCalls[c].stage = "idle" /\ bridge[a] = "running"
    /\ cred[a]["candidate"] # "none"
    /\ Sets(c, "looked", a, "candidate")
    /\ UNCHANGED onlyCalls

CallRuns(c) ==
    LET a == toolCalls[c].actor
    IN  /\ toolCalls[c].stage = "looked"
        /\ ~Calling(a, "candidate")
        /\ IF <<a, "candidate">> \in bound THEN Sets(c, "running", a, "candidate")
           ELSE toolCalls' = [toolCalls EXCEPT ![c] = Idle]
        /\ UNCHANGED onlyCalls

CallEnds(c) ==
    /\ toolCalls[c].stage = "running"
    /\ toolCalls' = [toolCalls EXCEPT ![c] = Idle]
    /\ UNCHANGED onlyCalls

BridgeDies(a) ==
    /\ bridge[a] = "running"
    /\ sessionFaults < MaxSessionFaults /\ sessionFaults' = sessionFaults + 1
    /\ bridge' = [bridge EXCEPT ![a] = "broken"]
    /\ UNCHANGED <<org, sess, indexed, cred, bound, stray, saved, program, toolCalls>>

(* The process dies; a bridge is a process group of its own.                *)
ProcessDies ==
    /\ sessionFaults < MaxSessionFaults /\ sessionFaults' = sessionFaults + 1
    /\ org' = "none" /\ sess' = {} /\ indexed' = {}
    /\ stray' = stray \cup Abandoned
    /\ bridge' = NoBridges
    /\ cred' = [a \in Members |-> [k \in Kinds |-> "none"]]
    /\ bound' = {}
    /\ op' = "idle" /\ todo' = <<>> /\ undo' = <<>> /\ errors' = FALSE
    /\ toolCalls' = [c \in Callers |-> Idle]
    /\ UNCHANGED saved

SessionsNext ==
    \/ StepReturns \/ StepFails \/ StepImpossible
    \/ StartOrganisation \/ Resume \/ TakeSnapshot \/ Suspend \/ Stop \/ RetryRollback
    \/ Done
    \/ \E c \in Callers :
          \/ \E a \in Members : CallLooks(c, a) \/ \E k \in Kinds : CallStarts(c, a, k)
          \/ CallRuns(c) \/ CallEnds(c)
    \/ \E a \in Members : BridgeDies(a)
    \/ ProcessDies

SessionsSpec == SessionsInit /\ [][SessionsNext]_sessVars
-----------------------------------------------------------------------------
(* Between operations, however many steps of them have failed: a credential *)
(* or a running bridge belongs to a session of an active organisation, so   *)
(* that stop() will find it, and an organisation that is not active has     *)
(* neither but for bridges whose own termination failed.  deliver() finds   *)
(* no session but those.                                                    *)
NothingLeaks ==
    op = "idle" =>
        /\ \A a \in Members :
              (bridge[a] = "running" \/ \E k \in Kinds : cred[a][k] # "none")
                  => a \in sess /\ org = "active"
        /\ \A t \in bound : t[1] \in sess /\ org = "active"
        /\ \A a \in Members : bridge[a] = "broken" => a \in sess
        /\ indexed \subseteq sess

(* No tool or model call is under way for a session whose access has been   *)
(* revoked: once stop() is over the campaign can be closed and sealed.      *)
NoCallOutlives ==
    /\ \A c \in Callers : toolCalls[c].stage = "running"
                              => <<toolCalls[c].actor, toolCalls[c].kind>> \in bound
    /\ op = "idle" /\ org # "active" => \A c \in Callers : toolCalls[c].stage # "running"
=============================================================================
