----------------------------- MODULE ModelBudget -----------------------------
(***************************************************************************)
(* SqliteBudgetAccount: the durable model-spend ledger of one campaign.    *)
(* Every operation is one BEGIN IMMEDIATE transaction, so one action here. *)
(* The campaign row and the actor rows hold running counters; each model   *)
(* call has one reservation row; the audit table records every terminal    *)
(* transition a second time.  Amounts are integer nanodollars.             *)
(*                                                                         *)
(* A call index stands for one (actor, call_id) key.  Request and usage    *)
(* digests, receipts and the rate card are left out: the receipts a row    *)
(* needs are written by the transaction that writes its status, and a      *)
(* repeated reserve() of a key that has a row changes nothing, whether it  *)
(* returns the row or raises.                                              *)
(***************************************************************************)
EXTENDS RosterTotals, Sequences

CONSTANTS NumActors,    \* actors of the roster, by ordinal
          NumCalls,     \* bound on the model calls of a behaviour
          Limit,        \* each actor's fixed allocation
          Maxima,       \* what reserve_maximum() may return
          Costs         \* what charge() may return; the provider may exceed the maximum

Actors == 1..NumActors
Calls  == 1..NumCalls

ASSUME RosterAssumption   == NumActors \in Nat /\ NumCalls \in Nat
ASSUME LimitAssumption    == Limit \in [Actors -> Nat \ {0}]
ASSUME AmountsAssumption  == Maxima \subseteq Nat \ {0} /\ Costs \subseteq Nat

VARIABLES opened,        \* the campaign and actor rows exist
          campReserved,  \* budget_campaigns.reserved_usd_nanos
          campCharged,   \* budget_campaigns.charged_usd_nanos
          actReserved,   \* budget_actors.reserved_usd_nanos
          actCharged,    \* budget_actors.charged_usd_nanos
          rows,          \* budget_reservations
          audit,         \* the reservation.* audit entries of each call
          refusals       \* the reservation.rejected audit entries

ledgerVars == <<opened, campReserved, campCharged, actReserved, actCharged,
                rows, audit, refusals>>

Terminal  == {"settled", "overrun", "forfeited", "released"}
Statuses  == {"none", "reserved"} \cup Terminal
Row       == [status : Statuses, actor : 0..NumActors, maximum : Nat, charged : Nat]
NoRow     == [status |-> "none", actor |-> 0, maximum |-> 0, charged |-> 0]
Refusal   == [actor : Actors, call : Calls,
              reason : {"actor_budget_exhausted", "organisation_budget_exhausted"}]
AuditEntry == [kind : Terminal, actor : Actors, charged : Nat]

(* The allocations partition the organisation's envelope exactly. *)
OrgLimit == Total(NumActors, Limit)

LedgerInit ==
    /\ opened = FALSE
    /\ campReserved = 0
    /\ campCharged = 0
    /\ actReserved = [a \in Actors |-> 0]
    /\ actCharged = [a \in Actors |-> 0]
    /\ rows = [c \in Calls |-> NoRow]
    /\ audit = [c \in Calls |-> <<>>]
    /\ refusals = {}

ActorRemaining(a) == Limit[a] - actReserved[a] - actCharged[a]
OrgRemaining      == OrgLimit - campReserved - campCharged

(* Reopening an open campaign compares and returns: a stutter. *)
OpenCampaign ==
    /\ ~ opened
    /\ opened' = TRUE
    /\ UNCHANGED <<campReserved, campCharged, actReserved, actCharged, rows,
                   audit, refusals>>

CanReserve(a, c) == opened /\ rows[c].status = "none"

(* Mutant: the admission overlooks what calls in flight have reserved. *)
FitsCharged(a, m) == m <= Limit[a] - actCharged[a] /\ m <= OrgLimit - campCharged

Fits(a, m) == m <= ActorRemaining(a) /\ m <= OrgRemaining

Reserve(a, c, m) ==
    /\ CanReserve(a, c)
    /\ Fits(a, m)
    /\ rows' = [rows EXCEPT ![c] =
                   [status |-> "reserved", actor |-> a, maximum |-> m, charged |-> 0]]
    /\ campReserved' = campReserved + m
    /\ actReserved' = [actReserved EXCEPT ![a] = @ + m]
    /\ UNCHANGED <<opened, campCharged, actCharged, audit, refusals>>

(* Mutant: the organisation's envelope is compared first. *)
RefusalReasonOrgFirst(a, m) ==
    IF m > OrgRemaining THEN "organisation_budget_exhausted" ELSE "actor_budget_exhausted"

RefusalReason(a, m) ==
    IF m > ActorRemaining(a) THEN "actor_budget_exhausted"
                             ELSE "organisation_budget_exhausted"

Refuse(a, c, m) ==
    /\ CanReserve(a, c)
    /\ ~ Fits(a, m)
    /\ refusals' = refusals \cup {[actor |-> a, call |-> c, reason |-> RefusalReason(a, m)]}
    /\ UNCHANGED <<opened, campReserved, campCharged, actReserved, actCharged, rows, audit>>

(* The one transaction every terminal transition is made of: the row, both  *)
(* pairs of counters and the audit entry.                                   *)
Terminate(c, status, amount) ==
    LET a == rows[c].actor
        m == rows[c].maximum
    IN  /\ rows[c].status = "reserved"
        /\ rows' = [rows EXCEPT ![c] = [status |-> status, actor |-> a,
                                         maximum |-> m, charged |-> amount]]
        /\ campReserved' = campReserved - m
        /\ campCharged' = campCharged + amount
        /\ actReserved' = [actReserved EXCEPT ![a] = @ - m]
        /\ actCharged' = [actCharged EXCEPT ![a] = @ + amount]
        /\ audit' = [audit EXCEPT ![c] =
                        Append(@, [kind |-> status, actor |-> a, charged |-> amount])]
        /\ UNCHANGED <<opened, refusals>>

SettledStatus(c, cost) == IF cost > rows[c].maximum THEN "overrun" ELSE "settled"

(* An overrun is committed first and raised to the caller afterwards. *)
Settle(c, cost) == Terminate(c, SettledStatus(c, cost), cost)

(* Usage is missing or ambiguous: the whole reservation is consumed. *)
Forfeit(c) == Terminate(c, "forfeited", rows[c].maximum)

(* The provider certainly did not start: nothing is consumed. *)
Release(c) == Terminate(c, "released", 0)

LedgerNext ==
    \/ OpenCampaign
    \/ \E a \in Actors, c \in Calls, m \in Maxima : Reserve(a, c, m)
    \/ \E a \in Actors, c \in Calls, m \in Maxima : Refuse(a, c, m)
    \/ \E c \in Calls, cost \in Costs : Settle(c, cost)
    \/ \E c \in Calls : Forfeit(c)
    \/ \E c \in Calls : Release(c)

LedgerSpec == LedgerInit /\ [][LedgerNext]_ledgerVars

-----------------------------------------------------------------------------
(* reconcile(): the close-time audit, recomputed from the rows. *)

WithStatus(s) == {c \in Calls : rows[c].status = s}

Held(a)  == [c \in Calls |-> IF rows[c].status = "reserved" /\ rows[c].actor = a
                             THEN rows[c].maximum ELSE 0]
Spent(a) == [c \in Calls |-> IF rows[c].status \in {"settled", "overrun", "forfeited"}
                                /\ rows[c].actor = a
                             THEN rows[c].charged ELSE 0]

ExpectedReserved(a) == Total(NumCalls, Held(a))
ExpectedCharged(a)  == Total(NumCalls, Spent(a))

AuditAgrees(c) ==
    IF rows[c].status \in Terminal
    THEN audit[c] = <<[kind |-> rows[c].status, actor |-> rows[c].actor,
                       charged |-> rows[c].charged]>>
    ELSE audit[c] = <<>>

CountersAgree ==
    /\ \A a \in Actors : /\ actReserved[a] = ExpectedReserved(a)
                         /\ actCharged[a] = ExpectedCharged(a)
    /\ campReserved = Total(NumActors, actReserved)
    /\ campCharged = Total(NumActors, actCharged)
    /\ campReserved = Total(NumActors, [a \in Actors |-> ExpectedReserved(a)])
    /\ campCharged = Total(NumActors, [a \in Actors |-> ExpectedCharged(a)])

WithinLimits ==
    /\ campReserved + campCharged <= OrgLimit
    /\ \A a \in Actors : actReserved[a] + actCharged[a] <= Limit[a]

LedgerErrorFree ==
    /\ CountersAgree
    /\ WithinLimits
    /\ \A c \in Calls : AuditAgrees(c)
    /\ \A c \in WithStatus("forfeited") : rows[c].charged = rows[c].maximum

ReconcileValid ==
    /\ WithStatus("reserved") = {}
    /\ WithStatus("forfeited") = {}
    /\ WithStatus("overrun") = {}
    /\ LedgerErrorFree

-----------------------------------------------------------------------------
(* Every variable has its type: the counters never go negative, as          *)
(* reconcile() demands of the campaign and actor rows.                      *)
LedgerTypeOK ==
    /\ opened \in BOOLEAN
    /\ campReserved \in Nat
    /\ campCharged \in Nat
    /\ actReserved \in [Actors -> Nat]
    /\ actCharged \in [Actors -> Nat]
    /\ rows \in [Calls -> Row]
    /\ \A c \in Calls : rows[c].status # "none" => rows[c].actor \in Actors
    /\ audit \in [Calls -> Seq(AuditEntry)]
    /\ refusals \subseteq Refusal

(* The counters that reserve() decides on, and the audit trail reconcile()  *)
(* compares them with, always agree with the reservation rows.              *)
LedgerConsistent == CountersAgree /\ \A c \in Calls : AuditAgrees(c)

Excess(a) == [c \in Calls |-> IF rows[c].status = "overrun" /\ rows[c].actor = a
                              THEN rows[c].charged - rows[c].maximum ELSE 0]

(* An actor's commitments pass its allocation by no more than what the      *)
(* provider billed above that actor's own conservative maxima, so that      *)
(* without an overrun no interleaving of calls can pass the allocation.     *)
OverspendIsExcess ==
    \A a \in Actors :
        actReserved[a] + actCharged[a] <= Limit[a] + Total(NumCalls, Excess(a))

(* Suballocations are not transferable: as long as no call overran, an      *)
(* actor is refused only for its own spending, never because the others     *)
(* have exhausted the organisation's envelope.                              *)
IsolatedAbsentOverrun ==
    (\E r \in refusals : r.reason = "organisation_budget_exhausted")
        => WithStatus("overrun") # {}

(* Close-time reconciliation accepts exactly the ledgers whose calls all    *)
(* settled or were released; its recomputation raises no false alarm.       *)
ReconcileIsExact ==
    ReconcileValid
        <=> \A c \in Calls : rows[c].status \in {"none", "settled", "released"}

(* A terminal row is final: a late or repeated settle, forfeit or release   *)
(* of the call neither charges it again nor gives its budget back.          *)
TerminalIsFinal ==
    [][\A c \in Calls : rows[c].status \in Terminal
           => rows'[c] = rows[c] /\ audit'[c] = audit[c]]_ledgerVars

(* docs/ARCHITECTURE.md, BudgetGateway: "another actor's spending cannot    *)
(* cause a request to be admitted or rejected".                             *)
OthersNeverReject ==
    \A r \in refusals : r.reason = "actor_budget_exhausted"
=============================================================================
