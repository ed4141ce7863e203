-------------------------- MODULE NativeAdmission --------------------------
(***************************************************************************)
(* The fleet of a native organisation: its primary hands tasks to child    *)
(* sessions through the stock task tool.  A hook in front of the tool       *)
(* reserves a slot in a durable ledger (SqliteNativeAdmission), and a hook  *)
(* behind it reports the child.  Task calls run at the same time; a request *)
(* of a hook may be handled after the hook has given it up; a task, and the *)
(* runtime with all its tasks, may end at any point.                        *)
(*                                                                         *)
(* A permit is named by its call, and a slot by the call that first reserved *)
(* it.  Left out: the credential of the primary session, module             *)
(* HarnessSessions.  The task tool itself belongs to the runtime.           *)
(***************************************************************************)
EXTENDS Naturals, FiniteSets

CONSTANTS Dispatches,     \* call identities of the task tool
          ChildIds,       \* identities of child sessions
          Unnamed,        \* no child: a task that starts a new one
          MaxIdentities,  \* of a fleet, its primary included
          MaxFleetFaults  \* bound on requests given up and runtimes that die

ASSUME FleetAssumption ==
    /\ IsFiniteSet(Dispatches) /\ Unnamed \notin ChildIds
    /\ MaxIdentities \in Nat \ {0} /\ MaxFleetFaults \in Nat

VARIABLES permit,    \* native_calls
          place,     \* of each call in the runtime and its hooks
          works,     \* the child session a call has worked in
          children,  \* child sessions of the runtime
          sent,      \* requests the service has not handled
          evidence,  \* the children of the last snapshot
          fleetFaults

fleetVars == <<permit, place, works, children, sent, evidence, fleetFaults>>

NoPermit == [slot |-> "none", child |-> Unnamed, status |-> "none"]
Rows  == {c \in Dispatches : permit[c].status # "none"}
Slots == {permit[c].slot : c \in Rows}
Known(t) == {c \in Rows : permit[c].child = t}
Active(s) == \E c \in Rows : permit[c].slot = s /\ permit[c].status = "active"

FleetInit ==
    /\ permit = [c \in Dispatches |-> NoPermit]
    /\ place = [c \in Dispatches |-> "idle"]
    /\ works = [c \in Dispatches |-> Unnamed]
    /\ children = {} /\ sent = {} /\ evidence = {} /\ fleetFaults = 0
-----------------------------------------------------------------------------
Post(op, c, t) == [op |-> op, call |-> c, child |-> t, awaited |-> TRUE]
GivenUp(p) == [p EXCEPT !.awaited = FALSE]

(* The hook before the tool.  A runtime may dispatch a call once more.      *)
BeginTask(c, t) ==
    /\ place[c] \in {"idle", "failed"}
    /\ place' = [place EXCEPT ![c] = "reserving"]
    /\ sent' = sent \cup {Post("reserve", c, t)}
    /\ UNCHANGED <<permit, works, children, evidence, fleetFaults>>

(* The reply of a handled request reaches a hook that still waits for it.   *)
Reply(p, there) ==
    /\ sent' = sent \ {p}
    /\ place' = IF p.awaited THEN [place EXCEPT ![p.call] = there] ELSE place

(* Mutant: the identity of the primary is forgotten.                        *)
HasSlotBesidePrimary(t) ==
    IF t = Unnamed THEN Cardinality(Slots) < MaxIdentities
    ELSE /\ Known(t) # {}
         /\ \A c \in Known(t) : ~Active(permit[c].slot)

(* A new child takes a slot beside the primary; a known one is not at work. *)
HasSlot(t) ==
    IF t = Unnamed THEN Cardinality(Slots) < MaxIdentities - 1
    ELSE /\ Known(t) # {}
         /\ \A c \in Known(t) : ~Active(permit[c].slot)

SlotFor(c, t) == IF t = Unnamed THEN c ELSE permit[CHOOSE d \in Known(t) : TRUE].slot

(* reserve(), a transaction.                                                *)
ReserveSlot(p) ==
    /\ p \in sent /\ p.op = "reserve"
    /\ permit[p.call] = NoPermit /\ HasSlot(p.child)
    /\ permit' = [permit EXCEPT ![p.call] =
           [slot |-> SlotFor(p.call, p.child), child |-> p.child, status |-> "active"]]
    /\ Reply(p, "admitted")
    /\ UNCHANGED <<works, children, evidence, fleetFaults>>

(* The call is in the ledger, the fleet is at its size, or the child is     *)
(* unknown or at work: the hook raises, and the tool is not executed.       *)
ReserveDenied(p) ==
    /\ p \in sent /\ p.op = "reserve"
    /\ permit[p.call] # NoPermit \/ ~HasSlot(p.child)
    /\ Reply(p, "failed")
    /\ UNCHANGED <<permit, works, children, evidence, fleetFaults>>

(* The stock task tool: a new child, or one that exists.                    *)
StartTask(c) ==
    /\ place[c] = "admitted"
    /\ place' = [place EXCEPT ![c] = "working"]
    /\ \/ /\ permit[c].child = Unnamed
          /\ \E x \in ChildIds \ children :
                children' = children \cup {x} /\ works' = [works EXCEPT ![c] = x]
       \/ /\ permit[c].child # Unnamed
          /\ works' = [works EXCEPT ![c] = permit[c].child]
          /\ UNCHANGED children
    /\ UNCHANGED <<permit, sent, evidence, fleetFaults>>

(* The tool raises or goes to the background: no report follows.            *)
TaskFails(c) ==
    /\ place[c] \in {"admitted", "working"}
    /\ place' = [place EXCEPT ![c] = "failed"]
    /\ UNCHANGED <<permit, works, children, sent, evidence, fleetFaults>>

(* The hook behind the tool.                                                *)
TaskEnds(c) ==
    /\ place[c] = "working"
    /\ place' = [place EXCEPT ![c] = "completing"]
    /\ sent' = sent \cup {Post("complete", c, works[c])}
    /\ UNCHANGED <<permit, works, children, evidence, fleetFaults>>

IsBoundTo(c, x) ==
    /\ permit[c].child \in {Unnamed, x}
    /\ \A d \in Known(x) : permit[d].slot = permit[c].slot

(* complete(), a transaction.                                               *)
Complete(p) ==
    /\ p \in sent /\ p.op = "complete" /\ IsBoundTo(p.call, p.child)
    /\ permit' = [permit EXCEPT ![p.call].child = p.child, ![p.call].status = "complete"]
    /\ Reply(p, "done")
    /\ UNCHANGED <<works, children, evidence, fleetFaults>>

CompleteRaises(p) ==
    /\ p \in sent /\ p.op = "complete" /\ ~IsBoundTo(p.call, p.child)
    /\ Reply(p, "failed")
    /\ UNCHANGED <<permit, works, children, evidence, fleetFaults>>

Faulty == fleetFaults < MaxFleetFaults /\ fleetFaults' = fleetFaults + 1

(* The request fails or takes too long; the service may handle it yet.      *)
GiveUp(p) ==
    /\ p \in sent /\ p.awaited /\ Faulty
    /\ place' = [place EXCEPT ![p.call] = "failed"]
    /\ sent' \in {sent \ {p}, (sent \ {p}) \cup {GivenUp(p)}}
    /\ UNCHANGED <<permit, works, children, evidence>>

UnderWay == {c \in Dispatches : place[c] \in {"reserving", "admitted", "working", "completing"}}

(* The runtime ends with its tasks and is resumed over what it has stored.  *)
RuntimeDies ==
    /\ UnderWay # {} /\ Faulty
    /\ place' = [c \in Dispatches |-> IF c \in UnderWay THEN "failed" ELSE place[c]]
    /\ sent' = {GivenUp(p) : p \in sent}
    /\ UNCHANGED <<permit, works, children, evidence>>

FleetReconciles ==
    /\ \A c \in Rows : permit[c].status = "complete"
    /\ {permit[c].child : c \in Rows} = children
    /\ Cardinality(Slots) < MaxIdentities

(* snapshot() of a runtime that is quiet; suspend() and stop() take one.    *)
FleetSnapshot ==
    /\ UnderWay = {} /\ FleetReconciles
    /\ evidence' = children
    /\ UNCHANGED <<permit, place, works, children, sent, fleetFaults>>

FleetNext ==
    \/ \E c \in Dispatches :
          \/ \E t \in children \cup {Unnamed} : BeginTask(c, t)
          \/ StartTask(c) \/ TaskFails(c) \/ TaskEnds(c)
    \/ \E p \in sent :
          \/ ReserveSlot(p) \/ ReserveDenied(p)
          \/ Complete(p) \/ CompleteRaises(p) \/ GiveUp(p)
    \/ RuntimeDies
    \/ FleetSnapshot

FleetSpec == FleetInit /\ [][FleetNext]_fleetVars
-----------------------------------------------------------------------------
(* However many calls are lost, repeated or interrupted: a fleet never has  *)
(* more identities than its plan allows, a completed slot is one child and  *)
(* a child one slot, no child works for two calls at once, and the children *)
(* of a snapshot are those of the ledger from then on.                      *)
FleetIsBounded ==
    /\ Cardinality(children) < MaxIdentities
    /\ \A c, d \in Rows : permit[c].status = "complete" /\ permit[d].status = "complete" =>
          (permit[c].slot = permit[d].slot <=> permit[c].child = permit[d].child)
    /\ \A c, d \in Dispatches :
          place[c] = "working" /\ place[d] = "working" /\ works[c] = works[d] => c = d
    /\ \A x \in evidence : \E c \in Rows : permit[c].child = x /\ permit[c].status = "complete"
=============================================================================
