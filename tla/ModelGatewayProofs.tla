------------------------- MODULE ModelGatewayProofs -------------------------
(***************************************************************************)
(* The ledger's guarantees for every roster, every allocation, every bound *)
(* on the calls and every set of prices, and then the gateway's: it        *)
(* counts its requests correctly and never leaves the provider's bill      *)
(* outside the ledger, for every set of tokens, whichever transactions     *)
(* fail and however often the process dies.  The ledger's inductive invariant is LedgerInv;*)
(* its sums move by the lemmas of RosterTotalsProofs.                      *)
(***************************************************************************)
EXTENDS ModelGateway, RosterTotalsProofs, FiniteSetTheorems

(* Only a charge above the reserved maximum is recorded as an overrun.      *)
OverrunsExceed == \A c \in WithStatus("overrun") : rows[c].charged > rows[c].maximum

(* Overspending and isolation are inductive on top of consistent counters. *)
LedgerInv ==
    /\ LedgerTypeOK
    /\ LedgerConsistent
    /\ OverrunsExceed
    /\ OverspendIsExcess
    /\ IsolatedAbsentOverrun

(* The rows seen as addends are integer functions, and naturals where the  *)
(* amounts are.                                                            *)
LEMMA AddendTypes ==
    ASSUME rows \in [Calls -> Row], NEW a \in Actors
    PROVE  /\ Held(a) \in [Calls -> Nat]
           /\ Spent(a) \in [Calls -> Nat]
           /\ Excess(a) \in [Calls -> Int]
<1>1. ASSUME NEW c \in Calls
      PROVE  /\ rows[c].maximum \in Nat
             /\ rows[c].charged \in Nat
             /\ rows[c].charged - rows[c].maximum \in Int
  BY DEF Row
<1>. QED
  BY <1>1 DEF Held, Spent, Excess

(* Rewriting one row moves each of the actor's sums by that row's addend.  *)
LEMMA RowChange ==
    ASSUME rows \in [Calls -> Row], NEW c \in Calls, NEW r \in Row,
           rows' = [rows EXCEPT ![c] = r], NEW a \in Actors
    PROVE  /\ ExpectedReserved(a)' = ExpectedReserved(a) - Held(a)[c] + Held(a)'[c]
           /\ ExpectedCharged(a)' = ExpectedCharged(a) - Spent(a)[c] + Spent(a)'[c]
           /\ Total(NumCalls, Excess(a))' =
                Total(NumCalls, Excess(a)) - Excess(a)[c] + Excess(a)'[c]
<1>1. rows' \in [Calls -> Row] /\ \A d \in Calls : d # c => rows'[d] = rows[d]
  OBVIOUS
<1>2. /\ Held(a) \in [Calls -> Int] /\ Spent(a) \in [Calls -> Int] /\ Excess(a) \in [Calls -> Int]
      /\ Held(a)' \in [Calls -> Int] /\ Spent(a)' \in [Calls -> Int] /\ Excess(a)' \in [Calls -> Int]
  <2>1. ASSUME NEW d \in Calls
        PROVE  /\ rows'[d].maximum \in Nat
               /\ rows'[d].charged \in Nat
               /\ rows'[d].charged - rows'[d].maximum \in Int
    BY <1>1 DEF Row
  <2>2. Held(a)' \in [Calls -> Int] /\ Spent(a)' \in [Calls -> Int] /\ Excess(a)' \in [Calls -> Int]
    BY <2>1 DEF Held, Spent, Excess
  <2>3. ASSUME NEW d \in Calls
        PROVE  /\ rows[d].maximum \in Nat
               /\ rows[d].charged \in Nat
               /\ rows[d].charged - rows[d].maximum \in Int
    BY DEF Row
  <2>4. Held(a) \in [Calls -> Int] /\ Spent(a) \in [Calls -> Int] /\ Excess(a) \in [Calls -> Int]
    BY <2>3 DEF Held, Spent, Excess
  <2>. QED
    BY <2>2, <2>4
<1>3. \A d \in Calls : d # c => /\ Held(a)'[d] = Held(a)[d]
                                /\ Spent(a)'[d] = Spent(a)[d]
                                /\ Excess(a)'[d] = Excess(a)[d]
  BY <1>1 DEF Held, Spent, Excess
<1>4. NumCalls \in Nat /\ Calls = 1..NumCalls
  BY RosterAssumption DEF Calls
<1>5. Total(NumCalls, Held(a)') = Total(NumCalls, Held(a)) - Held(a)[c] + Held(a)'[c]
  BY <1>2, <1>3, <1>4, TotalChange
<1>6. Total(NumCalls, Spent(a)') = Total(NumCalls, Spent(a)) - Spent(a)[c] + Spent(a)'[c]
  BY <1>2, <1>3, <1>4, TotalChange
<1>7. Total(NumCalls, Excess(a)') = Total(NumCalls, Excess(a)) - Excess(a)[c] + Excess(a)'[c]
  BY <1>2, <1>3, <1>4, TotalChange
<1>8. /\ ExpectedReserved(a)' = Total(NumCalls, Held(a)')
      /\ ExpectedCharged(a)' = Total(NumCalls, Spent(a)')
      /\ Total(NumCalls, Excess(a))' = Total(NumCalls, Excess(a)')
  BY DEF ExpectedReserved, ExpectedCharged, Total, Held, Spent, Excess
<1>. QED
  BY <1>5, <1>6, <1>7, <1>8 DEF ExpectedReserved, ExpectedCharged

(* The recomputed counters of an actor are natural numbers. *)
LEMMA ExpectedTypes ==
    ASSUME rows \in [Calls -> Row], NEW a \in Actors
    PROVE  ExpectedReserved(a) \in Nat /\ ExpectedCharged(a) \in Nat
BY AddendTypes, TotalNat, RosterAssumption DEF ExpectedReserved, ExpectedCharged, Calls

(* Moving one actor's counter moves the sum over the roster alike. *)
LEMMA RosterMove ==
    ASSUME NEW f \in [Actors -> Int], NEW a \in Actors, NEW d \in Int
    PROVE  Total(NumActors, [f EXCEPT ![a] = f[a] + d]) = Total(NumActors, f) + d
<1>. DEFINE v == f[a] + d
<1>1. v \in Int /\ f[a] \in Int
  OBVIOUS
<1>2. Total(NumActors, f) \in Int
  BY TotalType, RosterAssumption DEF Actors
<1>3. Total(NumActors, [f EXCEPT ![a] = v]) = Total(NumActors, f) - f[a] + v
  <2>. HIDE DEF v
  <2>. QED
    BY <1>1, TotalUpdate, RosterAssumption DEF Actors
<1>. QED
  BY <1>1, <1>2, <1>3

(* The addends of row c move by dr and dc for its actor a, and for no one  *)
(* else; the counters of a and of the campaign move by the same amounts.   *)
AddendsMove(c, a, dr, dc) ==
    \A b \in Actors : /\ Held(b)'[c] = Held(b)[c] + (IF b = a THEN dr ELSE 0)
                      /\ Spent(b)'[c] = Spent(b)[c] + (IF b = a THEN dc ELSE 0)

CountersMoved(a, dr, dc) ==
    /\ actReserved' = [actReserved EXCEPT ![a] = actReserved[a] + dr]
    /\ actCharged' = [actCharged EXCEPT ![a] = actCharged[a] + dc]
    /\ campReserved' = campReserved + dr
    /\ campCharged' = campCharged + dc

(* Rewriting one row and moving the counters of one actor and of the       *)
(* campaign by that row's change keeps the counters and the rows agreed.   *)
LEMMA CountersMove ==
    ASSUME LedgerTypeOK, CountersAgree,
           NEW c \in Calls, NEW r \in Row, rows' = [rows EXCEPT ![c] = r],
           NEW a \in Actors, NEW dr \in Int, NEW dc \in Int,
           CountersMoved(a, dr, dc), AddendsMove(c, a, dr, dc)
    PROVE  /\ CountersAgree'
           /\ campReserved' \in Nat /\ campCharged' \in Nat
           /\ actReserved' \in [Actors -> Nat] /\ actCharged' \in [Actors -> Nat]
<1>1. rows \in [Calls -> Row] /\ rows' \in [Calls -> Row]
  BY DEF LedgerTypeOK
<1>2. actReserved \in [Actors -> Int] /\ actCharged \in [Actors -> Int]
  BY DEF LedgerTypeOK
<1>3. ASSUME NEW b \in Actors
      PROVE  actReserved'[b] = ExpectedReserved(b)' /\ actCharged'[b] = ExpectedCharged(b)'
  <2>1. /\ Held(b)[c] \in Int /\ Spent(b)[c] \in Int
        /\ ExpectedReserved(b) \in Int /\ ExpectedCharged(b) \in Int
    BY <1>1, AddendTypes, ExpectedTypes
  <2>2. /\ ExpectedReserved(b)' = ExpectedReserved(b) - Held(b)[c] + Held(b)'[c]
        /\ ExpectedCharged(b)' = ExpectedCharged(b) - Spent(b)[c] + Spent(b)'[c]
    BY <1>1, RowChange
  <2>3. actReserved[b] = ExpectedReserved(b) /\ actCharged[b] = ExpectedCharged(b)
    BY DEF CountersAgree
  <2>4. CASE b = a
    <3>1. Held(b)'[c] = Held(b)[c] + dr /\ Spent(b)'[c] = Spent(b)[c] + dc
      BY <2>4 DEF AddendsMove
    <3>2. actReserved'[b] = actReserved[b] + dr /\ actCharged'[b] = actCharged[b] + dc
      BY <1>2, <2>4 DEF CountersMoved
    <3>. QED
      BY <2>1, <2>2, <2>3, <3>1, <3>2
  <2>5. CASE b # a
    <3>1. Held(b)'[c] = Held(b)[c] /\ Spent(b)'[c] = Spent(b)[c]
      BY <2>1, <2>5 DEF AddendsMove
    <3>2. actReserved'[b] = actReserved[b] /\ actCharged'[b] = actCharged[b]
      BY <1>2, <2>5 DEF CountersMoved
    <3>. QED
      BY <2>1, <2>2, <2>3, <3>1, <3>2
  <2>. QED
    BY <2>4, <2>5
<1>4. ASSUME NEW b \in Actors
      PROVE  ExpectedReserved(b)' \in Nat /\ ExpectedCharged(b)' \in Nat
  <2>1. Held(b)' \in [Calls -> Nat] /\ Spent(b)' \in [Calls -> Nat]
    <3>1. ASSUME NEW d \in Calls PROVE rows'[d].maximum \in Nat /\ rows'[d].charged \in Nat
      BY <1>1 DEF Row
    <3>. QED
      BY <3>1 DEF Held, Spent
  <2>2. Total(NumCalls, Held(b)') \in Nat /\ Total(NumCalls, Spent(b)') \in Nat
    BY <2>1, TotalNat, RosterAssumption DEF Calls
  <2>. QED
    BY <2>2 DEF ExpectedReserved, ExpectedCharged, Total, Held, Spent
<1>5. actReserved' \in [Actors -> Nat] /\ actCharged' \in [Actors -> Nat]
  <2>1. /\ actReserved' = [b \in Actors |-> actReserved'[b]]
        /\ actCharged' = [b \in Actors |-> actCharged'[b]]
    BY <1>2 DEF CountersMoved
  <2>2. \A b \in Actors : actReserved'[b] \in Nat /\ actCharged'[b] \in Nat
    BY <1>3, <1>4
  <2>. QED
    BY <2>1, <2>2
<1>6. campReserved' = Total(NumActors, actReserved') /\ campCharged' = Total(NumActors, actCharged')
  <2>1. campReserved = Total(NumActors, actReserved) /\ campCharged = Total(NumActors, actCharged)
    BY DEF CountersAgree
  <2>2. Total(NumActors, actReserved') = Total(NumActors, actReserved) + dr
    BY <1>2, RosterMove DEF CountersMoved
  <2>3. Total(NumActors, actCharged') = Total(NumActors, actCharged) + dc
    BY <1>2, RosterMove DEF CountersMoved
  <2>. QED
    BY <2>1, <2>2, <2>3 DEF CountersMoved
<1>7. campReserved' \in Nat /\ campCharged' \in Nat
  BY <1>5, <1>6, TotalNat, RosterAssumption DEF Actors
<1>8. /\ actReserved' = [b \in Actors |-> ExpectedReserved(b)']
      /\ actCharged' = [b \in Actors |-> ExpectedCharged(b)']
  BY <1>3, <1>5
<1>9. CountersAgree'
  <2>1. \A b \in Actors : actReserved'[b] = ExpectedReserved(b)' /\ actCharged'[b] = ExpectedCharged(b)'
    BY <1>3
  <2>2. /\ campReserved' = Total(NumActors, [b \in Actors |-> ExpectedReserved(b)'])
        /\ campCharged' = Total(NumActors, [b \in Actors |-> ExpectedCharged(b)'])
    BY <1>6, <1>8
  <2>. QED
    BY <1>6, <2>1, <2>2 DEF CountersAgree
<1>. QED
  BY <1>5, <1>7, <1>9

(* The excess of an actor's overruns is a natural number.                  *)
LEMMA ExcessNat ==
    ASSUME rows \in [Calls -> Row], OverrunsExceed, NEW a \in Actors
    PROVE  Total(NumCalls, Excess(a)) \in Nat
<1>1. ASSUME NEW c \in Calls, rows[c].status = "overrun"
      PROVE  rows[c].charged - rows[c].maximum \in Nat
  <2>1. rows[c].charged > rows[c].maximum
    BY <1>1 DEF OverrunsExceed, WithStatus
  <2>. QED
    BY <2>1 DEF Row
<1>2. Excess(a) \in [Calls -> Nat]
  BY <1>1 DEF Excess
<1>. QED
  BY <1>2, TotalNat, RosterAssumption DEF Calls

(* Before the first overrun no actor has an excess.                        *)
LEMMA ExcessZero ==
    ASSUME WithStatus("overrun") = {}, NEW a \in Actors
    PROVE  Total(NumCalls, Excess(a)) = 0
<1>1. Excess(a) = [c \in Calls |-> 0]
  BY DEF Excess, WithStatus
<1>. QED
  BY <1>1, TotalZero, RosterAssumption DEF Calls

(* What the actors have left adds up to what the organisation has left.    *)
Slack == [b \in Actors |-> Limit[b] - actReserved[b] - actCharged[b]]

(* The unused part of the envelope is the sum of what the actors have left. *)
LEMMA SlackTotal ==
    ASSUME LedgerTypeOK, CountersAgree
    PROVE  /\ Slack \in [Actors -> Int]
           /\ Total(NumActors, Slack) = OrgRemaining
           /\ OrgLimit \in Int
<1>. DEFINE used == [b \in Actors |-> actReserved[b] + actCharged[b]]
            all == [b \in Actors |-> Slack[b] + used[b]]
<1>1. /\ Limit \in [Actors -> Int]
      /\ actReserved \in [Actors -> Int]
      /\ actCharged \in [Actors -> Int]
  BY LimitAssumption DEF LedgerTypeOK
<1>2. Slack \in [Actors -> Int] /\ used \in [Actors -> Int]
  BY <1>1 DEF Slack
<1>3. all = Limit
  <2>1. \A b \in Actors : Slack[b] + used[b] = Limit[b]
    BY <1>1 DEF Slack
  <2>. QED
    BY <1>1, <2>1
<1>4. Total(NumActors, used) = Total(NumActors, actReserved) + Total(NumActors, actCharged)
  BY <1>1, TotalOfSum, RosterAssumption DEF Actors
<1>5. Total(NumActors, all) = Total(NumActors, Slack) + Total(NumActors, used)
  <2>. HIDE DEF used
  <2>. QED
    BY <1>2, TotalOfSum, RosterAssumption DEF Actors
<1>6. /\ Total(NumActors, Slack) \in Int /\ Total(NumActors, used) \in Int
      /\ Total(NumActors, Limit) \in Int
      /\ Total(NumActors, actReserved) \in Int /\ Total(NumActors, actCharged) \in Int
  <2>. HIDE DEF used
  <2>. QED
    BY <1>1, <1>2, TotalType, RosterAssumption DEF Actors
<1>7. OrgRemaining = Total(NumActors, Limit) - Total(NumActors, actReserved) - Total(NumActors, actCharged)
  BY DEF OrgRemaining, OrgLimit, CountersAgree
<1>8. Total(NumActors, Limit) = Total(NumActors, Slack) + Total(NumActors, used)
  BY <1>3, <1>5
<1>9. Total(NumActors, Slack) = OrgRemaining
  <2>. HIDE DEF used
  <2>. QED
    BY <1>4, <1>6, <1>7, <1>8
<1>. QED
  BY <1>2, <1>6, <1>9 DEF OrgLimit

(* Without an overrun every actor has a natural remainder, so has the      *)
(* organisation, and the organisation's covers each actor's.               *)
LEMMA SlackCovers ==
    ASSUME LedgerInv, WithStatus("overrun") = {}
    PROVE  /\ \A b \in Actors : ActorRemaining(b) \in Nat /\ ActorRemaining(b) <= OrgRemaining
           /\ OrgRemaining \in Nat
<1>1. \A b \in Actors : Slack[b] = ActorRemaining(b)
  BY DEF Slack, ActorRemaining
<1>2. ASSUME NEW b \in Actors PROVE ActorRemaining(b) \in Nat
  <2>1. actReserved[b] + actCharged[b] <= Limit[b] + 0
    BY ExcessZero DEF LedgerInv, OverspendIsExcess
  <2>2. Limit[b] \in Int /\ actReserved[b] \in Int /\ actCharged[b] \in Int
    BY LimitAssumption DEF LedgerInv, LedgerTypeOK
  <2>. QED
    BY <2>1, <2>2 DEF ActorRemaining
<1>3. Slack \in [Actors -> Nat]
  <2>1. \A b \in Actors : Limit[b] - actReserved[b] - actCharged[b] \in Nat
    BY <1>2 DEF ActorRemaining
  <2>. QED
    BY <2>1 DEF Slack
<1>4. Total(NumActors, Slack) = OrgRemaining
  BY SlackTotal DEF LedgerInv, LedgerConsistent
<1>5. Total(NumActors, Slack) \in Nat
  BY <1>3, TotalNat, RosterAssumption DEF Actors
<1>6. \A b \in Actors : Slack[b] <= Total(NumActors, Slack)
  BY <1>3, TotalCoversAddend, RosterAssumption DEF Actors
<1>. QED
  BY <1>1, <1>2, <1>4, <1>5, <1>6

-----------------------------------------------------------------------------
(* The initial ledger satisfies the invariant. *)
LEMMA LedgerInitial == LedgerInit => LedgerInv
<1>. SUFFICES ASSUME LedgerInit PROVE LedgerInv
  OBVIOUS
<1>. USE DEF LedgerInit
<1>1. rows \in [Calls -> Row] /\ \A c \in Calls : rows[c].status = "none"
  <2>1. NoRow \in Row /\ NoRow.status = "none"
    BY RosterAssumption DEF NoRow, Row, Statuses
  <2>. QED
    BY <2>1
<1>2. LedgerTypeOK
  <2>1. <<>> \in Seq(AuditEntry)
    OBVIOUS
  <2>2. audit \in [Calls -> Seq(AuditEntry)]
    BY <2>1
  <2>. QED
    BY <1>1, <2>2 DEF LedgerTypeOK
<1>3. ASSUME NEW a \in Actors PROVE ExpectedReserved(a) = 0 /\ ExpectedCharged(a) = 0
  <2>1. Held(a) = [c \in Calls |-> 0] /\ Spent(a) = [c \in Calls |-> 0]
    BY <1>1 DEF Held, Spent
  <2>. QED
    BY <2>1, TotalZero, RosterAssumption DEF ExpectedReserved, ExpectedCharged, Calls
<1>4. Total(NumActors, [a \in Actors |-> 0]) = 0
  BY TotalZero, RosterAssumption DEF Actors
<1>5. /\ [a \in Actors |-> ExpectedReserved(a)] = [a \in Actors |-> 0]
      /\ [a \in Actors |-> ExpectedCharged(a)] = [a \in Actors |-> 0]
  BY <1>3
<1>6. CountersAgree
  BY <1>3, <1>4, <1>5 DEF CountersAgree
<1>7. \A c \in Calls : AuditAgrees(c)
  BY <1>1 DEF AuditAgrees, Terminal
<1>8. WithStatus("overrun") = {}
  BY <1>1 DEF WithStatus
<1>9. OverspendIsExcess
  <2>1. ASSUME NEW a \in Actors
        PROVE  actReserved[a] + actCharged[a] <= Limit[a] + Total(NumCalls, Excess(a))
    <3>1. Total(NumCalls, Excess(a)) = 0
      BY <1>8, ExcessZero
    <3>2. actReserved[a] = 0 /\ actCharged[a] = 0 /\ Limit[a] \in Nat
      BY LimitAssumption
    <3>. QED
      BY <3>1, <3>2
  <2>. QED
    BY <2>1 DEF OverspendIsExcess
<1>. QED
  BY <1>2, <1>6, <1>7, <1>8, <1>9
     DEF LedgerInv, LedgerConsistent, OverrunsExceed, IsolatedAbsentOverrun

(* Every operation that leaves the rows and the counters alone. *)
LEMMA SameRows ==
    ASSUME LedgerInv,
           UNCHANGED <<campReserved, campCharged, actReserved, actCharged, rows, audit>>
    PROVE  LedgerConsistent' /\ OverrunsExceed' /\ OverspendIsExcess'
<1>0. ASSUME NEW a \in Actors
      PROVE  /\ ExpectedReserved(a)' = ExpectedReserved(a)
             /\ ExpectedCharged(a)' = ExpectedCharged(a)
             /\ Total(NumCalls, Excess(a))' = Total(NumCalls, Excess(a))
  BY DEF ExpectedReserved, ExpectedCharged, Held, Spent, Excess, Total
<1>1. CountersAgree'
  <2>1. /\ [a \in Actors |-> ExpectedReserved(a)'] = [a \in Actors |-> ExpectedReserved(a)]
        /\ [a \in Actors |-> ExpectedCharged(a)'] = [a \in Actors |-> ExpectedCharged(a)]
    BY <1>0
  <2>. QED
    BY <1>0, <2>1 DEF LedgerInv, LedgerConsistent, CountersAgree
<1>2. \A c \in Calls : AuditAgrees(c)'
  BY DEF LedgerInv, LedgerConsistent, AuditAgrees
<1>3. OverrunsExceed'
  BY DEF LedgerInv, OverrunsExceed, WithStatus
<1>4. OverspendIsExcess'
  BY <1>0 DEF LedgerInv, OverspendIsExcess
<1>. QED
  BY <1>1, <1>2, <1>3, <1>4 DEF LedgerConsistent

(* Opening the campaign preserves the invariant. *)
LEMMA OpenPreserves == LedgerInv /\ OpenCampaign => LedgerInv'
<1>. SUFFICES ASSUME LedgerInv, OpenCampaign PROVE LedgerInv'
  OBVIOUS
<1>1. LedgerConsistent' /\ OverrunsExceed' /\ OverspendIsExcess'
  BY SameRows DEF OpenCampaign
<1>2. LedgerTypeOK'
  BY DEF LedgerInv, LedgerTypeOK, OpenCampaign
<1>3. IsolatedAbsentOverrun'
  BY DEF LedgerInv, IsolatedAbsentOverrun, WithStatus, OpenCampaign
<1>. QED
  BY <1>1, <1>2, <1>3 DEF LedgerInv

(* A refusal preserves the invariant: without an overrun the organisation  *)
(* has at least what the refused actor has, so the actor's own allocation  *)
(* was the reason.                                                         *)
LEMMA RefusePreserves ==
    ASSUME LedgerInv, NEW a \in Actors, NEW c \in Calls, NEW m \in Maxima, Refuse(a, c, m)
    PROVE  LedgerInv'
<1>1. LedgerConsistent' /\ OverrunsExceed' /\ OverspendIsExcess'
  BY SameRows DEF Refuse
<1>2. [actor |-> a, call |-> c, reason |-> RefusalReason(a, m)] \in Refusal
  BY DEF Refusal, RefusalReason
<1>3. LedgerTypeOK'
  BY <1>2 DEF LedgerInv, LedgerTypeOK, Refuse
<1>4. WithStatus("overrun") = {} => RefusalReason(a, m) = "actor_budget_exhausted"
  <2>1. SUFFICES ASSUME WithStatus("overrun") = {} PROVE m > ActorRemaining(a)
    BY DEF RefusalReason
  <2>2. m \in Nat /\ ActorRemaining(a) \in Nat /\ OrgRemaining \in Nat
        /\ ActorRemaining(a) <= OrgRemaining
    BY <2>1, SlackCovers, AmountsAssumption
  <2>. QED
    BY <2>2 DEF Refuse, Fits
<1>5. IsolatedAbsentOverrun'
  <2>1. WithStatus("overrun")' = WithStatus("overrun")
    BY DEF Refuse, WithStatus
  <2>2. \A r \in refusals' : r \in refusals
             \/ r.reason = RefusalReason(a, m)
    BY DEF Refuse
  <2>. QED
    BY <1>4, <2>1, <2>2 DEF LedgerInv, IsolatedAbsentOverrun
<1>. QED
  BY <1>1, <1>3, <1>5 DEF LedgerInv

(* Admitting a call preserves the invariant. *)
LEMMA ReservePreserves ==
    ASSUME LedgerInv, NEW a \in Actors, NEW c \in Calls, NEW m \in Maxima, Reserve(a, c, m)
    PROVE  LedgerInv'
<1>. DEFINE r == [status |-> "reserved", actor |-> a, maximum |-> m, charged |-> 0]
<1>1. m \in Nat /\ r \in Row
  <2>1. m \in Nat
    BY AmountsAssumption
  <2>2. a \in 0..NumActors
    BY RosterAssumption DEF Actors
  <2>. QED
    BY <2>1, <2>2 DEF Row, Statuses
<1>2. /\ rows \in [Calls -> Row]
      /\ rows' = [rows EXCEPT ![c] = r]
      /\ rows' \in [Calls -> Row]
      /\ rows'[c] = r /\ rows[c].status = "none"
      /\ \A d \in Calls : d # c => rows'[d] = rows[d]
  BY <1>1 DEF LedgerInv, LedgerTypeOK, Reserve, CanReserve
<1>3. ASSUME NEW b \in Actors
      PROVE  /\ Held(b)[c] = 0 /\ Held(b)'[c] = IF b = a THEN m ELSE 0
             /\ Spent(b)[c] = 0 /\ Spent(b)'[c] = 0
             /\ Excess(b)[c] = 0 /\ Excess(b)'[c] = 0
  BY <1>2 DEF Held, Spent, Excess
<1>4. /\ actReserved \in [Actors -> Nat] /\ actCharged \in [Actors -> Nat]
      /\ campReserved \in Nat /\ campCharged \in Nat
  BY DEF LedgerInv, LedgerTypeOK
<1>5. /\ CountersAgree'
      /\ campReserved' \in Nat /\ campCharged' \in Nat
      /\ actReserved' \in [Actors -> Nat] /\ actCharged' \in [Actors -> Nat]
  <2>1. CountersMoved(a, m, 0)
    BY <1>4 DEF Reserve, CountersMoved
  <2>2. AddendsMove(c, a, m, 0)
    BY <1>1, <1>3 DEF AddendsMove
  <2>3. LedgerTypeOK /\ CountersAgree /\ m \in Int /\ 0 \in Int
    BY <1>1 DEF LedgerInv, LedgerConsistent
  <2>. HIDE DEF r
  <2>. QED
    BY <1>1, <1>2, <2>1, <2>2, <2>3, CountersMove
<1>6. \A d \in Calls : AuditAgrees(d)'
  <2>1. audit' = audit /\ \A d \in Calls : AuditAgrees(d)
    BY DEF LedgerInv, LedgerConsistent, Reserve
  <2>. QED
    BY <1>2, <2>1 DEF AuditAgrees, Terminal
<1>7. WithStatus("overrun")' = WithStatus("overrun")
  BY <1>2 DEF WithStatus
<1>8. OverrunsExceed'
  <2>1. \A d \in WithStatus("overrun") : d # c /\ d \in Calls
    BY <1>2 DEF WithStatus
  <2>. QED
    BY <1>2, <1>7, <2>1 DEF LedgerInv, OverrunsExceed
<1>9. OverspendIsExcess'
  <2>1. ASSUME NEW b \in Actors
        PROVE  actReserved'[b] + actCharged'[b] <= Limit[b] + Total(NumCalls, Excess(b))'
    <3>1. Total(NumCalls, Excess(b)) \in Nat
      BY <1>2, ExcessNat DEF LedgerInv
    <3>2. Total(NumCalls, Excess(b))' = Total(NumCalls, Excess(b)) - Excess(b)[c] + Excess(b)'[c]
      <4>. HIDE DEF r
      <4>. QED
        BY <1>1, <1>2, RowChange
    <3>3. Total(NumCalls, Excess(b))' = Total(NumCalls, Excess(b))
      BY <1>3, <3>1, <3>2
    <3>4. actReserved[b] + actCharged[b] <= Limit[b] + Total(NumCalls, Excess(b))
      BY DEF LedgerInv, OverspendIsExcess
    <3>5. CASE b = a
      <4>1. m <= Limit[b] - actReserved[b] - actCharged[b]
        BY <3>5 DEF Reserve, Fits, ActorRemaining
      <4>2. actReserved'[b] = actReserved[b] + m /\ actCharged'[b] = actCharged[b]
        BY <1>4, <3>5 DEF Reserve
      <4>3. Limit[b] \in Nat /\ actReserved[b] \in Nat /\ actCharged[b] \in Nat
        BY <1>4, LimitAssumption
      <4>. QED
        BY <1>1, <3>1, <3>3, <4>1, <4>2, <4>3
    <3>6. CASE b # a
      <4>1. actReserved'[b] = actReserved[b] /\ actCharged'[b] = actCharged[b]
        BY <1>4, <3>6 DEF Reserve
      <4>. QED
        BY <3>3, <3>4, <4>1
    <3>. QED
      BY <3>5, <3>6
  <2>. QED
    BY <2>1 DEF OverspendIsExcess
<1>10. IsolatedAbsentOverrun'
  BY <1>7 DEF LedgerInv, IsolatedAbsentOverrun, Reserve
<1>11. LedgerTypeOK'
  <2>1. \A d \in Calls : rows'[d].status # "none" => rows'[d].actor \in Actors
    BY <1>2 DEF LedgerInv, LedgerTypeOK
  <2>. QED
    BY <1>2, <1>5, <2>1 DEF LedgerInv, LedgerTypeOK, Reserve
<1>. QED
  BY <1>5, <1>6, <1>8, <1>9, <1>10, <1>11 DEF LedgerInv, LedgerConsistent

(* How a terminal transition may charge: an overrun above the maximum, any *)
(* other status at most the maximum, and a release nothing.                *)
ChargeFits(c, status, amount) ==
    /\ status \in Terminal
    /\ amount \in Nat
    /\ IF status = "overrun" THEN amount > rows[c].maximum
                            ELSE amount <= rows[c].maximum
    /\ status = "released" => amount = 0

(* Every terminal transition preserves the invariant. *)
LEMMA TerminatePreserves ==
    ASSUME LedgerInv, NEW c \in Calls, NEW status, NEW amount,
           ChargeFits(c, status, amount), Terminate(c, status, amount)
    PROVE  LedgerInv'
<1>. DEFINE a == rows[c].actor
            m == rows[c].maximum
            r == [status |-> status, actor |-> a, maximum |-> m, charged |-> amount]
<1>1. /\ rows \in [Calls -> Row] /\ rows[c] \in Row
      /\ rows[c].status = "reserved" /\ a \in Actors /\ m \in Nat
      /\ amount \in Nat /\ status \in Terminal
  BY DEF LedgerInv, LedgerTypeOK, Terminate, Row, ChargeFits
<1>2. r \in Row
  BY <1>1 DEF Row, Statuses
<1>3. /\ rows' = [rows EXCEPT ![c] = r]
      /\ rows' \in [Calls -> Row]
      /\ rows'[c] = r
      /\ \A d \in Calls : d # c => rows'[d] = rows[d]
  <2>1. rows' = [rows EXCEPT ![c] = r]
    BY DEF Terminate
  <2>. QED
    BY <1>1, <1>2, <2>1
<1>4. ASSUME NEW b \in Actors
      PROVE  /\ Held(b)[c] = (IF b = a THEN m ELSE 0) /\ Held(b)'[c] = 0
             /\ Spent(b)[c] = 0 /\ Spent(b)'[c] = (IF b = a THEN amount ELSE 0)
             /\ Excess(b)[c] = 0
             /\ Excess(b)'[c] = IF b = a /\ status = "overrun" THEN amount - m ELSE 0
  <2>1. status # "reserved" /\ (status \notin {"settled", "overrun", "forfeited"} => amount = 0)
    BY <1>1 DEF ChargeFits, Terminal
  <2>. QED
    BY <1>1, <1>3, <2>1 DEF Held, Spent, Excess
<1>5. /\ actReserved \in [Actors -> Nat] /\ actCharged \in [Actors -> Nat]
      /\ campReserved \in Nat /\ campCharged \in Nat
  BY DEF LedgerInv, LedgerTypeOK
<1>6. CountersMoved(a, 0 - m, amount)
  <2>1. actReserved[a] \in Nat /\ actReserved[a] - m = actReserved[a] + (0 - m)
    BY <1>1, <1>5
  <2>2. campReserved - m = campReserved + (0 - m)
    BY <1>1, <1>5
  <2>3. /\ actReserved' = [actReserved EXCEPT ![a] = actReserved[a] - m]
        /\ actCharged' = [actCharged EXCEPT ![a] = actCharged[a] + amount]
        /\ campReserved' = campReserved - m
        /\ campCharged' = campCharged + amount
    BY DEF Terminate
  <2>. QED
    BY <2>1, <2>2, <2>3 DEF CountersMoved
<1>7. AddendsMove(c, a, 0 - m, amount)
  BY <1>1, <1>4 DEF AddendsMove
<1>8. /\ CountersAgree'
      /\ campReserved' \in Nat /\ campCharged' \in Nat
      /\ actReserved' \in [Actors -> Nat] /\ actCharged' \in [Actors -> Nat]
  <2>1. LedgerTypeOK /\ CountersAgree /\ 0 - m \in Int /\ amount \in Int
    BY <1>1 DEF LedgerInv, LedgerConsistent
  <2>. HIDE DEF r, a, m
  <2>. QED
    BY <1>1, <1>2, <1>3, <1>6, <1>7, <2>1, CountersMove
<1>9. LedgerTypeOK'
  <2>1. \A d \in Calls : rows'[d].status # "none" => rows'[d].actor \in Actors
    BY <1>1, <1>3 DEF LedgerInv, LedgerTypeOK
  <2>2. audit' \in [Calls -> Seq(AuditEntry)]
    <3>1. [kind |-> status, actor |-> a, charged |-> amount] \in AuditEntry
      BY <1>1 DEF AuditEntry
    <3>2. audit \in [Calls -> Seq(AuditEntry)]
      BY DEF LedgerInv, LedgerTypeOK
    <3>. QED
      BY <3>1, <3>2 DEF Terminate
  <2>. QED
    BY <1>3, <1>8, <2>1, <2>2 DEF LedgerInv, LedgerTypeOK, Terminate
<1>10. ASSUME NEW d \in Calls PROVE AuditAgrees(d)'
  <2>1. AuditAgrees(d) /\ audit \in [Calls -> Seq(AuditEntry)]
    BY DEF LedgerInv, LedgerConsistent, LedgerTypeOK
  <2>2. CASE d = c
    <3>1. audit[c] = <<>>
      BY <1>1, <2>1, <2>2 DEF AuditAgrees, Terminal
    <3>2. audit'[c] = <<[kind |-> status, actor |-> a, charged |-> amount]>>
      BY <2>1, <3>1 DEF Terminate
    <3>. QED
      BY <1>1, <1>3, <2>2, <3>2 DEF AuditAgrees
  <2>3. CASE d # c
    <3>1. audit'[d] = audit[d] /\ rows'[d] = rows[d]
      BY <1>3, <2>1, <2>3 DEF Terminate
    <3>. QED
      BY <2>1, <3>1 DEF AuditAgrees
  <2>. QED
    BY <2>2, <2>3
<1>11. OverrunsExceed'
  <2>1. ASSUME NEW d \in Calls, rows'[d].status = "overrun"
        PROVE  rows'[d].charged > rows'[d].maximum
    <3>1. CASE d = c
      BY <1>3, <2>1, <3>1 DEF ChargeFits
    <3>2. CASE d # c
      BY <1>3, <2>1, <3>2 DEF LedgerInv, OverrunsExceed, WithStatus
    <3>. QED
      BY <3>1, <3>2
  <2>. QED
    BY <2>1 DEF OverrunsExceed, WithStatus
<1>12. OverspendIsExcess'
  <2>1. ASSUME NEW b \in Actors
        PROVE  actReserved'[b] + actCharged'[b] <= Limit[b] + Total(NumCalls, Excess(b))'
    <3>1. Total(NumCalls, Excess(b)) \in Nat
      BY <1>1, ExcessNat DEF LedgerInv
    <3>2. Total(NumCalls, Excess(b))' = Total(NumCalls, Excess(b)) - Excess(b)[c] + Excess(b)'[c]
      <4>. HIDE DEF r
      <4>. QED
        BY <1>1, <1>2, <1>3, RowChange
    <3>3. actReserved[b] + actCharged[b] <= Limit[b] + Total(NumCalls, Excess(b))
      BY DEF LedgerInv, OverspendIsExcess
    <3>4. Limit[b] \in Nat /\ actReserved[b] \in Nat /\ actCharged[b] \in Nat
      BY <1>5, LimitAssumption
    <3>5. CASE b = a
      <4>1. actReserved'[b] = actReserved[b] - m /\ actCharged'[b] = actCharged[b] + amount
        BY <1>1, <1>5, <3>5 DEF Terminate
      <4>2. CASE status = "overrun"
        <5>1. Total(NumCalls, Excess(b))' = Total(NumCalls, Excess(b)) + (amount - m)
          BY <1>1, <1>4, <3>1, <3>2, <3>5, <4>2
        <5>. QED
          BY <1>1, <3>1, <3>3, <3>4, <4>1, <5>1
      <4>3. CASE status # "overrun"
        <5>1. Total(NumCalls, Excess(b))' = Total(NumCalls, Excess(b))
          BY <1>4, <3>1, <3>2, <4>3
        <5>2. amount <= m
          BY <4>3 DEF ChargeFits
        <5>. QED
          BY <1>1, <3>1, <3>3, <3>4, <4>1, <5>1, <5>2
      <4>. QED
        BY <4>2, <4>3
    <3>6. CASE b # a
      <4>1. actReserved'[b] = actReserved[b] /\ actCharged'[b] = actCharged[b]
        BY <1>5, <3>6 DEF Terminate
      <4>2. Total(NumCalls, Excess(b))' = Total(NumCalls, Excess(b))
        BY <1>4, <3>1, <3>2, <3>6
      <4>. QED
        BY <3>3, <4>1, <4>2
    <3>. QED
      BY <3>5, <3>6
  <2>. QED
    BY <2>1 DEF OverspendIsExcess
<1>13. IsolatedAbsentOverrun'
  <2>1. WithStatus("overrun") \subseteq WithStatus("overrun")'
    BY <1>1, <1>3 DEF WithStatus
  <2>. QED
    BY <2>1 DEF LedgerInv, IsolatedAbsentOverrun, Terminate
<1>. QED
  BY <1>8, <1>9, <1>10, <1>11, <1>12, <1>13 DEF LedgerInv, LedgerConsistent

(* The three operations that end a reservation charge as ChargeFits says.  *)
LEMMA EndingsFit ==
    ASSUME LedgerInv, NEW c \in Calls
    PROVE  /\ \A cost \in Costs : Settle(c, cost) => ChargeFits(c, SettledStatus(c, cost), cost)
           /\ Forfeit(c) => ChargeFits(c, "forfeited", rows[c].maximum)
           /\ Release(c) => ChargeFits(c, "released", 0)
<1>1. rows[c].maximum \in Nat
  BY DEF LedgerInv, LedgerTypeOK, Row
<1>2. \A cost \in Costs : cost \in Nat
  BY AmountsAssumption
<1>3. ASSUME NEW cost \in Costs PROVE ChargeFits(c, SettledStatus(c, cost), cost)
  BY <1>1, <1>2 DEF ChargeFits, SettledStatus, Terminal
<1>. QED
  BY <1>1, <1>3 DEF ChargeFits, Terminal

(* Every step of the ledger preserves the invariant. *)
LEMMA LedgerStep == LedgerInv /\ [LedgerNext]_ledgerVars => LedgerInv'
<1>. SUFFICES ASSUME LedgerInv, [LedgerNext]_ledgerVars PROVE LedgerInv'
  OBVIOUS
<1>1. CASE OpenCampaign
  BY <1>1, OpenPreserves
<1>2. ASSUME NEW a \in Actors, NEW c \in Calls, NEW m \in Maxima, Reserve(a, c, m)
      PROVE  LedgerInv'
  BY <1>2, ReservePreserves
<1>3. ASSUME NEW a \in Actors, NEW c \in Calls, NEW m \in Maxima, Refuse(a, c, m)
      PROVE  LedgerInv'
  BY <1>3, RefusePreserves
<1>4. ASSUME NEW c \in Calls, NEW cost \in Costs, Settle(c, cost) PROVE LedgerInv'
  BY <1>4, EndingsFit, TerminatePreserves DEF Settle
<1>5. ASSUME NEW c \in Calls, Forfeit(c) PROVE LedgerInv'
  BY <1>5, EndingsFit, TerminatePreserves DEF Forfeit
<1>6. ASSUME NEW c \in Calls, Release(c) PROVE LedgerInv'
  BY <1>6, EndingsFit, TerminatePreserves DEF Release
<1>7. CASE UNCHANGED ledgerVars
  <2>1. LedgerConsistent' /\ OverrunsExceed' /\ OverspendIsExcess'
    BY <1>7, SameRows DEF ledgerVars
  <2>2. LedgerTypeOK' /\ IsolatedAbsentOverrun'
    BY <1>7 DEF ledgerVars, LedgerInv, LedgerTypeOK, IsolatedAbsentOverrun, WithStatus
  <2>. QED
    BY <2>1, <2>2 DEF LedgerInv
<1>. QED
  BY <1>1, <1>2, <1>3, <1>4, <1>5, <1>6, <1>7 DEF LedgerNext

(* The inductive invariant holds in every state of the ledger. *)
THEOREM LedgerInvariant == LedgerSpec => []LedgerInv
BY LedgerInitial, LedgerStep, PTL DEF LedgerSpec

(* Every variable of the ledger keeps its type: no interleaving of its     *)
(* transactions drives a counter below zero.                               *)
THEOREM LedgerTypes == LedgerSpec => []LedgerTypeOK
<1>1. LedgerInv => LedgerTypeOK
  BY DEF LedgerInv
<1>. QED
  BY <1>1, LedgerInvariant, PTL

(* The counters reserve() decides on and the audit trail always agree with *)
(* the reservation rows.                                                   *)
THEOREM LedgerIsConsistent == LedgerSpec => []LedgerConsistent
<1>1. LedgerInv => LedgerConsistent
  BY DEF LedgerInv
<1>. QED
  BY <1>1, LedgerInvariant, PTL

(* An actor passes its allocation by at most its own overrun excess.       *)
THEOREM OverspendBounded == LedgerSpec => []OverspendIsExcess
<1>1. LedgerInv => OverspendIsExcess
  BY DEF LedgerInv
<1>. QED
  BY <1>1, LedgerInvariant, PTL

(* Until a call overruns, no actor is refused for the others' spending.    *)
THEOREM Isolation == LedgerSpec => []IsolatedAbsentOverrun
<1>1. LedgerInv => IsolatedAbsentOverrun
  BY DEF LedgerInv
<1>. QED
  BY <1>1, LedgerInvariant, PTL

(* Close-time reconciliation accepts exactly the clean ledgers.            *)
THEOREM ReconcileExact == LedgerSpec => []ReconcileIsExact
<1>1. LedgerInv => ReconcileIsExact
  <2>. SUFFICES ASSUME LedgerInv PROVE ReconcileIsExact
    OBVIOUS
  <2>1. ASSUME ReconcileValid, NEW c \in Calls
        PROVE  rows[c].status \in {"none", "settled", "released"}
    <3>1. rows[c].status \in Statuses
      BY DEF LedgerInv, LedgerTypeOK, Row
    <3>. QED
      BY <2>1, <3>1 DEF ReconcileValid, WithStatus, Statuses, Terminal
  <2>2. ASSUME \A c \in Calls : rows[c].status \in {"none", "settled", "released"}
        PROVE  ReconcileValid
    <3>1. /\ WithStatus("reserved") = {}
          /\ WithStatus("forfeited") = {}
          /\ WithStatus("overrun") = {}
      BY <2>2 DEF WithStatus
    <3>2. \A b \in Actors : ActorRemaining(b) \in Nat /\ OrgRemaining \in Nat
      BY <3>1, SlackCovers
    <3>3. OrgRemaining \in Nat
      BY <3>1, SlackCovers
    <3>4. campReserved + campCharged <= OrgLimit
      <4>1. OrgLimit \in Int /\ campReserved \in Nat /\ campCharged \in Nat
        BY SlackTotal DEF LedgerInv, LedgerConsistent, LedgerTypeOK
      <4>. QED
        BY <3>3, <4>1 DEF OrgRemaining
    <3>5. ASSUME NEW b \in Actors PROVE actReserved[b] + actCharged[b] <= Limit[b]
      <4>1. Limit[b] \in Nat /\ actReserved[b] \in Nat /\ actCharged[b] \in Nat
        BY LimitAssumption DEF LedgerInv, LedgerTypeOK
      <4>. QED
        BY <3>2, <4>1 DEF ActorRemaining
    <3>. QED
      BY <3>1, <3>4, <3>5
         DEF ReconcileValid, LedgerErrorFree, WithinLimits, LedgerInv, LedgerConsistent
  <2>. QED
    BY <2>1, <2>2 DEF ReconcileIsExact
<1>. QED
  BY <1>1, LedgerInvariant, PTL

(* A terminal row is never charged again and never gives its budget back.  *)
THEOREM TerminalRowsFinal == LedgerSpec => TerminalIsFinal
<1>1. LedgerInv /\ [LedgerNext]_ledgerVars
        => [\A c \in Calls : rows[c].status \in Terminal
              => rows'[c] = rows[c] /\ audit'[c] = audit[c]]_ledgerVars
  <2>. SUFFICES ASSUME LedgerInv, LedgerNext, NEW d \in Calls, rows[d].status \in Terminal
                PROVE  rows'[d] = rows[d] /\ audit'[d] = audit[d]
    OBVIOUS
  <2>1. rows[d].status # "none" /\ rows[d].status # "reserved"
    BY DEF Terminal
  <2>2. rows \in [Calls -> Row] /\ audit \in [Calls -> Seq(AuditEntry)]
    BY DEF LedgerInv, LedgerTypeOK
  <2>3. CASE OpenCampaign
    BY <2>3 DEF OpenCampaign
  <2>4. ASSUME NEW a \in Actors, NEW c \in Calls, NEW m \in Maxima,
               Reserve(a, c, m) \/ Refuse(a, c, m)
        PROVE  rows'[d] = rows[d] /\ audit'[d] = audit[d]
    BY <2>1, <2>2, <2>4 DEF Reserve, Refuse, CanReserve
  <2>5. ASSUME NEW c \in Calls, NEW status, NEW amount, Terminate(c, status, amount)
        PROVE  rows'[d] = rows[d] /\ audit'[d] = audit[d]
    BY <2>1, <2>2, <2>5 DEF Terminate
  <2>. QED
    BY <2>3, <2>4, <2>5 DEF LedgerNext, Settle, Forfeit, Release
<1>. QED
  BY <1>1, LedgerInvariant, PTL DEF LedgerSpec, TerminalIsFinal
-----------------------------------------------------------------------------

(* The gateway's own variables, without the ledger's. *)
GatewayTypes ==
    /\ token \in [Tokens -> TokenStates]
    /\ revoked \in [Tokens -> BOOLEAN]
    /\ active \in [Tokens -> Nat]
    /\ call \in [Calls -> CallStates]
    /\ callToken \in [Calls -> Tokens \cup {"none"}]
    /\ \A c \in Calls : call[c] # "idle" => callToken[c] \in Tokens
    /\ billed \in [Calls -> Nat]
    /\ closer \in {"idle", "next", "closed"} \cup Tokens
    /\ crashes \in 0..MaxCrashes

(* Where a handler is determines what its reservation can be ... *)
HandlerPlace(c) ==
    /\ call[c] \in {"idle", "authorized"} => rows[c].status = "none"
    /\ call[c] \in {"upstream", "headers", "streaming", "receipt", "abandoning", "abandoned"}
           => rows[c].status = "reserved"
    /\ call[c] \in {"answering", "unwinding", "done"} => rows[c].status # "reserved"
    /\ call[c] \in {"headers", "streaming", "receipt"} => billed[c] \in Costs
    /\ call[c] \in {"idle", "authorized", "upstream"} => billed[c] = 0

(* ... and what the row says is what the provider did. *)
HandlerBill(c) ==
    /\ rows[c].status \in {"none", "released"} => billed[c] = 0 /\ rows[c].charged = 0
    /\ rows[c].status \in {"settled", "overrun"} => rows[c].charged = billed[c]

HandlersKnow == \A c \in Calls : HandlerPlace(c) /\ HandlerBill(c)

(* A revoked token has only finished calls; a crash loses the tokens of    *)
(* the calls it cuts off.                                                  *)
GoneIsQuiet ==
    \A c \in Calls :
        /\ call[c] # "idle" /\ token[callToken[c]] = "gone" => call[c] \in {"done", "abandoned"}
        /\ call[c] = "crashed" => token[callToken[c]] = "lost"

GatewayInv == GatewayTypes /\ LedgerInv /\ HandlersKnow /\ RequestsHoldTheirToken /\ GoneIsQuiet

(* Sets of calls are finite. *)
LEMMA CallsFinite ==
    ASSUME NEW S, S \subseteq Calls
    PROVE  IsFiniteSet(S) /\ Cardinality(S) \in Nat
<1>1. IsFiniteSet(Calls)
  BY FS_Interval, RosterAssumption DEF Calls
<1>. QED
  BY <1>1, FS_Subset, FS_CardinalityType

(* A step of one handler between two places in flight leaves the tokens'   *)
(* request counts right.                                                   *)
LEMMA ContinueKeepsCounts ==
    ASSUME GatewayTypes, RequestsHoldTheirToken, NEW c \in Calls,
           NEW from \in InFlight, NEW to \in InFlight, Continue(c, from, to)
    PROVE  RequestsHoldTheirToken'
<1>1. /\ call[c] \in InFlight /\ call'[c] \in InFlight
      /\ \A d \in Calls : d # c => call'[d] = call[d]
      /\ callToken' = callToken /\ token' = token /\ active' = active
  BY DEF Continue, GatewayTypes
<1>2. \A t \in Tokens : CallsUnder(t)' = CallsUnder(t)
  BY <1>1 DEF CallsUnder
<1>3. \A t \in Tokens : active'[t] = Cardinality(CallsUnder(t))'
  BY <1>1, <1>2 DEF RequestsHoldTheirToken
<1>4. \A d \in Calls : call'[d] \in InFlight => token'[callToken'[d]] = "active"
  BY <1>1 DEF RequestsHoldTheirToken
<1>. QED
  BY <1>3, <1>4 DEF RequestsHoldTheirToken

(* Authorising a request counts it. *)
LEMMA AuthorizeCounts ==
    ASSUME GatewayTypes, RequestsHoldTheirToken, NEW c \in Calls, NEW t \in Tokens,
           Authorize(c, t)
    PROVE  RequestsHoldTheirToken'
<1>1. /\ call[c] = "idle" /\ call'[c] = "authorized" /\ callToken'[c] = t
      /\ \A d \in Calls : d # c => call'[d] = call[d] /\ callToken'[d] = callToken[d]
      /\ token' = token /\ token[t] = "active"
  BY DEF Authorize, GatewayTypes
<1>2. ASSUME NEW u \in Tokens PROVE active'[u] = Cardinality(CallsUnder(u))'
  <2>1. active[u] = Cardinality(CallsUnder(u)) /\ active[u] \in Nat
    BY DEF RequestsHoldTheirToken, GatewayTypes
  <2>2. IsFiniteSet(CallsUnder(u))
    BY CallsFinite DEF CallsUnder
  <2>3. CASE u = t
    <3>1. CallsUnder(u)' = CallsUnder(u) \cup {c} /\ c \notin CallsUnder(u)
      BY <1>1, <2>3 DEF CallsUnder, InFlight
    <3>2. active'[u] = active[u] + 1
      BY <2>3 DEF Authorize, GatewayTypes
    <3>. QED
      BY <2>1, <2>2, <3>1, <3>2, FS_AddElement
  <2>4. CASE u # t
    <3>1. CallsUnder(u)' = CallsUnder(u)
      BY <1>1, <2>4 DEF CallsUnder, InFlight
    <3>2. active'[u] = active[u]
      BY <2>4 DEF Authorize, GatewayTypes
    <3>. QED
      BY <2>1, <3>1, <3>2
  <2>. QED
    BY <2>3, <2>4
<1>3. \A d \in Calls : call'[d] \in InFlight => token'[callToken'[d]] = "active"
  BY <1>1 DEF RequestsHoldTheirToken
<1>. QED
  BY <1>2, <1>3 DEF RequestsHoldTheirToken

(* Leaving a request uncounts it. *)
LEMMA UnwindCounts ==
    ASSUME GatewayTypes, RequestsHoldTheirToken, NEW c \in Calls, Unwind(c)
    PROVE  RequestsHoldTheirToken' /\ active' \in [Tokens -> Nat]
<1>. DEFINE t == callToken[c]
<1>1. /\ call[c] \in InFlight /\ call'[c] \notin InFlight /\ t \in Tokens
      /\ \A d \in Calls : d # c => call'[d] = call[d]
      /\ callToken' = callToken /\ token' = token
  BY DEF Unwind, GatewayTypes, InFlight
<1>2. ASSUME NEW u \in Tokens
      PROVE  active'[u] = Cardinality(CallsUnder(u))' /\ active'[u] \in Nat
  <2>1. active[u] = Cardinality(CallsUnder(u)) /\ active[u] \in Nat
    BY DEF RequestsHoldTheirToken, GatewayTypes
  <2>2. IsFiniteSet(CallsUnder(u))
    BY CallsFinite DEF CallsUnder
  <2>3. CASE u = t
    <3>1. CallsUnder(u)' = CallsUnder(u) \ {c} /\ c \in CallsUnder(u)
      BY <1>1, <2>3 DEF CallsUnder
    <3>2. active'[u] = active[u] - 1
      BY <2>3 DEF Unwind, GatewayTypes
    <3>3. Cardinality(CallsUnder(u))' = Cardinality(CallsUnder(u)) - 1
      BY <2>2, <3>1, FS_RemoveElement
    <3>4. IsFiniteSet(CallsUnder(u)') /\ Cardinality(CallsUnder(u)') \in Nat
      BY <2>2, <3>1, FS_RemoveElement, FS_CardinalityType
    <3>. QED
      BY <2>1, <3>2, <3>3, <3>4
  <2>4. CASE u # t
    <3>1. CallsUnder(u)' = CallsUnder(u)
      BY <1>1, <2>4 DEF CallsUnder
    <3>2. active'[u] = active[u]
      BY <2>4 DEF Unwind, GatewayTypes
    <3>. QED
      BY <2>1, <3>1, <3>2
  <2>. QED
    BY <2>3, <2>4
<1>3. \A d \in Calls : call'[d] \in InFlight => token'[callToken'[d]] = "active"
  BY <1>1 DEF RequestsHoldTheirToken
<1>4. active' \in [Tokens -> Nat]
  BY <1>2 DEF Unwind, GatewayTypes
<1>. QED
  BY <1>2, <1>3, <1>4 DEF RequestsHoldTheirToken

-----------------------------------------------------------------------------
(* Every gateway step is a ledger step or leaves the ledger alone. *)
LEMMA StepMapsToLedger == GatewayInv /\ [Next]_vars => [LedgerNext]_ledgerVars
<1>. SUFFICES ASSUME GatewayInv, [Next]_vars PROVE [LedgerNext]_ledgerVars
  OBVIOUS
<1>1. CASE Provision
  BY <1>1 DEF Provision, LedgerNext
<1>2. ASSUME NEW t \in Tokens,
             Issue(t) \/ Activate(t) \/ RevokeStart(t) \/ RevokeReturn(t)
      PROVE  UNCHANGED ledgerVars
  BY <1>2 DEF Issue, Activate, RevokeStart, RevokeReturn
<1>3. CASE CloseStart \/ Closer \/ Crash
  BY <1>3 DEF CloseStart, Closer, CloseRevoke, CloseRevoked, CloseReturn, Crash
<1>4. ASSUME NEW c \in Calls, NEW t \in Tokens, Authorize(c, t) PROVE UNCHANGED ledgerVars
  BY <1>4 DEF Authorize
<1>5. ASSUME NEW c \in Calls, Handler(c) PROVE [LedgerNext]_ledgerVars
  <2>1. call[c] = "authorized" => CallActor(c) \in Actors
    BY TokenAssumption DEF CallActor, GatewayInv, GatewayTypes
  <2>2. ASSUME NEW m \in Maxima, ReserveCall(c, m) \/ RefuseCall(c, m) PROVE LedgerNext
    BY <2>1, <2>2 DEF ReserveCall, RefuseCall, Continue, LedgerNext
  <2>3. CASE UpstreamRefuses(c)
    BY <2>3 DEF UpstreamRefuses, LedgerNext
  <2>4. ASSUME NEW cost \in Costs, UpstreamAmbiguous(c, cost) PROVE LedgerNext
    BY <2>4 DEF UpstreamAmbiguous, LedgerNext
  <2>5. CASE StreamBreaks(c) \/ UsageInvalid(c)
    BY <2>5 DEF StreamBreaks, UsageInvalid, LedgerNext
  <2>6. CASE SettleCall(c)
    <3>1. billed[c] \in Costs
      BY <2>6 DEF SettleCall, Continue, GatewayInv, HandlersKnow, HandlerPlace
    <3>. QED
      BY <2>6, <3>1 DEF SettleCall, LedgerNext
  <2>7. ASSUME NEW cost \in Costs, UpstreamAccepts(c, cost) PROVE UNCHANGED ledgerVars
    BY <2>7 DEF UpstreamAccepts
  <2>8. CASE \/ RejectBody(c) \/ HeadersSent(c) \/ HeadersFail(c) \/ StreamCompletes(c)
             \/ LedgerFails(c) \/ Unwind(c)
    BY <2>8 DEF RejectBody, HeadersSent, HeadersFail, StreamCompletes, LedgerFails, Unwind
  <2>. QED
    BY <1>5, <2>2, <2>3, <2>4, <2>5, <2>6, <2>7, <2>8 DEF Handler
<1>6. CASE UNCHANGED vars
  BY <1>6 DEF vars
<1>. QED
  BY <1>1, <1>2, <1>3, <1>4, <1>5, <1>6 DEF Next

(* What the gateway adds to the ledger's invariant. *)
GatewayPart == GatewayTypes /\ HandlersKnow /\ RequestsHoldTheirToken /\ GoneIsQuiet

(* A step of handler c keeps the gateway's part if it leaves c's row and   *)
(* c's bill in agreement with where it puts the handler.                   *)
LEMMA HandlerMoves ==
    ASSUME GatewayPart, NEW c \in Calls,
           NEW from \in InFlight, NEW to \in InFlight, Continue(c, from, to),
           billed' \in [Calls -> Nat],
           \A d \in Calls : d # c => rows'[d] = rows[d] /\ billed'[d] = billed[d],
           HandlerPlace(c)', HandlerBill(c)'
    PROVE  GatewayPart'
<1>1. /\ call[c] = from /\ call'[c] = to
      /\ \A d \in Calls : d # c => call'[d] = call[d]
      /\ callToken' = callToken /\ token' = token
  BY DEF Continue, GatewayPart, GatewayTypes
<1>2. GatewayTypes'
  <2>1. call' \in [Calls -> CallStates]
    BY DEF Continue, GatewayPart, GatewayTypes, CallStates
  <2>2. from # "idle"
    BY DEF InFlight
  <2>. QED
    BY <1>1, <2>1, <2>2 DEF Continue, GatewayPart, GatewayTypes
<1>3. HandlersKnow'
  <2>1. ASSUME NEW d \in Calls, d # c PROVE HandlerPlace(d)' /\ HandlerBill(d)'
    <3>1. call'[d] = call[d] /\ rows'[d] = rows[d] /\ billed'[d] = billed[d]
      BY <1>1, <2>1
    <3>2. HandlerPlace(d) /\ HandlerBill(d)
      BY DEF GatewayPart, HandlersKnow
    <3>. QED
      BY <3>1, <3>2 DEF HandlerPlace, HandlerBill
  <2>. QED
    BY <2>1 DEF HandlersKnow
<1>4. RequestsHoldTheirToken'
  BY ContinueKeepsCounts DEF GatewayPart
<1>5. GoneIsQuiet'
  <2>1. token[callToken[c]] = "active"
    BY <1>1 DEF GatewayPart, RequestsHoldTheirToken
  <2>. QED
    BY <1>1, <2>1 DEF GatewayPart, GoneIsQuiet, InFlight
<1>. QED
  BY <1>2, <1>3, <1>4, <1>5 DEF GatewayPart

(* A step that leaves the requests and the ledger alone. *)
LEMMA TokensMove ==
    ASSUME GatewayPart, GatewayTypes',
           UNCHANGED <<rows, call, callToken, billed, active>>,
           \A t \in Tokens : token[t] = "active" => \/ token'[t] = "active"
                                                   \/ active[t] = 0,
           \A t \in Tokens : token'[t] = "gone" => token[t] = "gone" \/ active[t] = 0,
           \A t \in Tokens : token[t] = "lost" => token'[t] = "lost"
    PROVE  GatewayPart'
<1>1. HandlersKnow'
  <2>1. ASSUME NEW c \in Calls PROVE HandlerPlace(c)' /\ HandlerBill(c)'
    BY DEF GatewayPart, HandlersKnow, HandlerPlace, HandlerBill
  <2>. QED
    BY <2>1 DEF HandlersKnow
<1>2. ASSUME NEW t \in Tokens, active[t] = 0, NEW c \in Calls, callToken[c] = t
      PROVE  call[c] \notin InFlight
  <2>1. Cardinality(CallsUnder(t)) = 0 /\ IsFiniteSet(CallsUnder(t))
    BY <1>2, CallsFinite DEF GatewayPart, RequestsHoldTheirToken, CallsUnder
  <2>2. CallsUnder(t) = {}
    BY <2>1, FS_EmptySet
  <2>. QED
    BY <1>2, <2>2 DEF CallsUnder
<1>3. RequestsHoldTheirToken'
  <2>1. \A t \in Tokens : CallsUnder(t)' = CallsUnder(t)
    BY DEF CallsUnder
  <2>2. \A t \in Tokens : active'[t] = Cardinality(CallsUnder(t))'
    BY <2>1 DEF GatewayPart, RequestsHoldTheirToken
  <2>3. ASSUME NEW c \in Calls, call'[c] \in InFlight PROVE token'[callToken'[c]] = "active"
    <3>1. callToken[c] \in Tokens /\ token[callToken[c]] = "active"
      BY <2>3 DEF GatewayPart, GatewayTypes, RequestsHoldTheirToken, InFlight
    <3>. QED
      BY <1>2, <2>3, <3>1
  <2>. QED
    BY <2>2, <2>3 DEF RequestsHoldTheirToken
<1>4. GoneIsQuiet'
  <2>0. ASSUME NEW c \in Calls, call[c] = "crashed" PROVE token'[callToken[c]] = "lost"
    BY <2>0 DEF GatewayPart, GatewayTypes, GoneIsQuiet
  <2>. SUFFICES ASSUME NEW c \in Calls, call[c] # "idle", token'[callToken[c]] = "gone"
                PROVE  call[c] \in {"done", "abandoned"}
    BY <2>0 DEF GoneIsQuiet
  <2>1. callToken[c] \in Tokens /\ call[c] \in CallStates
    BY DEF GatewayPart, GatewayTypes
  <2>2. CASE token[callToken[c]] = "gone"
    BY <2>2 DEF GatewayPart, GoneIsQuiet
  <2>3. CASE token[callToken[c]] # "gone"
    <3>1. call[c] \notin InFlight /\ call[c] # "crashed"
      BY <1>2, <2>0, <2>1, <2>3
    <3>. QED
      BY <2>1, <3>1 DEF CallStates
  <2>. QED
    BY <2>2, <2>3
<1>. QED
  BY <1>1, <1>3, <1>4 DEF GatewayPart

(* Issuing, activating, revoking and closing keep the gateway's part. *)
LEMMA TokenSteps ==
    ASSUME GatewayPart,
           \/ Provision \/ CloseStart \/ Closer
           \/ \E t \in Tokens : Issue(t) \/ Activate(t) \/ RevokeStart(t) \/ RevokeReturn(t)
    PROVE  GatewayPart'
<1>1. /\ token \in [Tokens -> TokenStates] /\ revoked \in [Tokens -> BOOLEAN]
      /\ active \in [Tokens -> Nat]
  BY DEF GatewayPart, GatewayTypes
<1>2. CASE Provision \/ CloseStart \/ Closer
  <2>1. /\ UNCHANGED <<rows, call, callToken, billed, active, token, crashes>>
        /\ revoked' \in [Tokens -> BOOLEAN]
        /\ closer' \in {"idle", "next", "closed"} \cup Tokens
    BY <1>2, <1>1 DEF Provision, OpenCampaign, gatewayVars, CloseStart, Closer, CloseRevoke,
       CloseRevoked, CloseReturn, ledgerVars, GatewayPart, GatewayTypes
  <2>2. GatewayTypes'
    BY <2>1 DEF GatewayPart, GatewayTypes
  <2>. QED
    BY <2>1, <2>2, TokensMove
<1>3. ASSUME NEW t \in Tokens, Issue(t) \/ Activate(t) \/ RevokeStart(t) \/ RevokeReturn(t)
      PROVE  GatewayPart'
  <2>1. /\ UNCHANGED <<rows, call, callToken, billed, active, closer, crashes>>
        /\ revoked' \in [Tokens -> BOOLEAN]
        /\ token' \in [Tokens -> TokenStates]
    BY <1>3, <1>1 DEF Issue, Activate, RevokeStart, RevokeReturn, ledgerVars, TokenStates
  <2>2. GatewayTypes'
    BY <2>1 DEF GatewayPart, GatewayTypes
  <2>3. /\ \A u \in Tokens : token[u] = "active" => token'[u] = "active" \/ active[u] = 0
        /\ \A u \in Tokens : token'[u] = "gone" => token[u] = "gone" \/ active[u] = 0
        /\ \A u \in Tokens : token[u] = "lost" => token'[u] = "lost"
    BY <1>3, <1>1 DEF Issue, Activate, RevokeStart, RevokeReturn, Registered
  <2>. QED
    BY <2>1, <2>2, <2>3, TokensMove
<1>. QED
  BY <1>2, <1>3

(* Authorising keeps the gateway's part. *)
LEMMA AuthorizeStep ==
    ASSUME GatewayPart, NEW c \in Calls, NEW t \in Tokens, Authorize(c, t)
    PROVE  GatewayPart'
<1>1. /\ call[c] = "idle" /\ call'[c] = "authorized" /\ callToken'[c] = t
      /\ \A d \in Calls : d # c => call'[d] = call[d] /\ callToken'[d] = callToken[d]
      /\ token' = token /\ token[t] = "active" /\ rows' = rows /\ billed' = billed
  BY DEF Authorize, GatewayPart, GatewayTypes, ledgerVars
<1>2. GatewayTypes'
  <2>1. /\ call' \in [Calls -> CallStates]
        /\ callToken' \in [Calls -> Tokens \cup {"none"}]
        /\ active' \in [Tokens -> Nat]
    BY DEF Authorize, GatewayPart, GatewayTypes, CallStates, InFlight
  <2>2. \A d \in Calls : call'[d] # "idle" => callToken'[d] \in Tokens
    BY <1>1 DEF GatewayPart, GatewayTypes
  <2>. QED
    BY <2>1, <2>2 DEF Authorize, GatewayPart, GatewayTypes
<1>3. HandlersKnow'
  <2>1. ASSUME NEW d \in Calls PROVE HandlerPlace(d)' /\ HandlerBill(d)'
    <3>1. HandlerPlace(d) /\ HandlerBill(d)
      BY DEF GatewayPart, HandlersKnow
    <3>. QED
      BY <1>1, <3>1 DEF HandlerPlace, HandlerBill
  <2>. QED
    BY <2>1 DEF HandlersKnow
<1>4. RequestsHoldTheirToken'
  BY AuthorizeCounts DEF GatewayPart
<1>5. GoneIsQuiet'
  BY <1>1 DEF GatewayPart, GoneIsQuiet
<1>. QED
  BY <1>2, <1>3, <1>4, <1>5 DEF GatewayPart

(* Leaving the handler keeps the gateway's part. *)
LEMMA UnwindStep ==
    ASSUME GatewayPart, NEW c \in Calls, Unwind(c)
    PROVE  GatewayPart'
<1>1. /\ call[c] \in {"answering", "unwinding", "abandoning"}
      /\ call'[c] = IF call[c] = "abandoning" THEN "abandoned" ELSE "done"
      /\ \A d \in Calls : d # c => call'[d] = call[d]
      /\ callToken' = callToken /\ token' = token /\ rows' = rows /\ billed' = billed
  BY DEF Unwind, GatewayPart, GatewayTypes, ledgerVars
<1>2. RequestsHoldTheirToken' /\ active' \in [Tokens -> Nat]
  BY UnwindCounts DEF GatewayPart
<1>3. GatewayTypes'
  <2>1. call' \in [Calls -> CallStates]
    BY DEF Unwind, GatewayPart, GatewayTypes, CallStates
  <2>2. \A d \in Calls : call'[d] # "idle" => callToken'[d] \in Tokens
    BY <1>1 DEF GatewayPart, GatewayTypes
  <2>. QED
    BY <1>2, <2>1, <2>2 DEF Unwind, GatewayPart, GatewayTypes
<1>4. HandlersKnow'
  <2>1. ASSUME NEW d \in Calls PROVE HandlerPlace(d)' /\ HandlerBill(d)'
    <3>1. HandlerPlace(d) /\ HandlerBill(d)
      BY DEF GatewayPart, HandlersKnow
    <3>. QED
      BY <1>1, <3>1 DEF HandlerPlace, HandlerBill
  <2>. QED
    BY <2>1 DEF HandlersKnow
<1>5. GoneIsQuiet'
  BY <1>1 DEF GatewayPart, GoneIsQuiet
<1>. QED
  BY <1>2, <1>3, <1>4, <1>5 DEF GatewayPart

(* A crash keeps the gateway's part: every token it loses takes its calls  *)
(* out of flight.                                                          *)
LEMMA CrashStep ==
    ASSUME GatewayPart, Crash
    PROVE  GatewayPart'
<1>1. /\ \A c \in Calls : call'[c] = IF call[c] \in InFlight THEN "crashed" ELSE call[c]
      /\ \A t \in Tokens : token'[t] = IF Registered(t) THEN "lost" ELSE token[t]
      /\ callToken' = callToken /\ rows' = rows /\ billed' = billed
      /\ active' = [t \in Tokens |-> 0]
  BY DEF Crash, ledgerVars
<1>2. GatewayTypes'
  <2>1. call' \in [Calls -> CallStates] /\ token' \in [Tokens -> TokenStates]
    BY DEF Crash, GatewayPart, GatewayTypes, CallStates, TokenStates
  <2>2. crashes' \in 0..MaxCrashes
    BY CrashAssumption DEF Crash, GatewayPart, GatewayTypes
  <2>3. \A d \in Calls : call'[d] # "idle" => callToken'[d] \in Tokens
    BY <1>1 DEF GatewayPart, GatewayTypes, InFlight
  <2>4. revoked' \in [Tokens -> BOOLEAN] /\ active' \in [Tokens -> Nat]
    BY DEF Crash
  <2>. QED
    BY <1>1, <2>1, <2>2, <2>3, <2>4 DEF Crash, GatewayPart, GatewayTypes
<1>3. HandlersKnow'
  <2>1. ASSUME NEW d \in Calls PROVE HandlerPlace(d)' /\ HandlerBill(d)'
    <3>1. HandlerPlace(d) /\ HandlerBill(d)
      BY DEF GatewayPart, HandlersKnow
    <3>. QED
      BY <1>1, <3>1 DEF HandlerPlace, HandlerBill
  <2>. QED
    BY <2>1 DEF HandlersKnow
<1>4. \A c \in Calls : call'[c] \notin InFlight
  BY <1>1 DEF InFlight
<1>5. RequestsHoldTheirToken'
  <2>1. \A t \in Tokens : CallsUnder(t)' = {}
    BY <1>4 DEF CallsUnder
  <2>2. \A t \in Tokens : active'[t] = Cardinality(CallsUnder(t))'
    BY <1>1, <2>1, FS_EmptySet
  <2>. QED
    BY <1>4, <2>2 DEF RequestsHoldTheirToken
<1>6. GoneIsQuiet'
  <2>. SUFFICES ASSUME NEW c \in Calls
                PROVE  /\ call'[c] # "idle" /\ token'[callToken[c]] = "gone"
                              => call'[c] \in {"done", "abandoned"}
                       /\ call'[c] = "crashed" => token'[callToken[c]] = "lost"
    BY <1>1 DEF GoneIsQuiet
  <2>1. call[c] # "idle" => callToken[c] \in Tokens
    BY DEF GatewayPart, GatewayTypes
  <2>2. CASE call[c] \in InFlight
    <3>1. token[callToken[c]] = "active" /\ call[c] # "idle"
      BY <2>2 DEF GatewayPart, RequestsHoldTheirToken, InFlight
    <3>. QED
      BY <1>1, <2>1, <2>2, <3>1 DEF Registered
  <2>3. CASE call[c] \notin InFlight
    BY <1>1, <2>1, <2>3 DEF GatewayPart, GoneIsQuiet, Registered
  <2>. QED
    BY <2>2, <2>3
<1>. QED
  BY <1>2, <1>3, <1>5, <1>6 DEF GatewayPart

(* What a ledger operation on call c does to the rows. *)
LEMMA ReservedRow ==
    ASSUME rows \in [Calls -> Row], NEW c \in Calls, NEW a, NEW m, Reserve(a, c, m)
    PROVE  /\ rows'[c].status = "reserved" /\ rows'[c].charged = 0
           /\ \A d \in Calls : d # c => rows'[d] = rows[d]
BY DEF Reserve

(* A terminal transition leaves the row with the given status. *)
LEMMA TerminatedRow ==
    ASSUME rows \in [Calls -> Row], NEW c \in Calls, NEW status, NEW amount,
           Terminate(c, status, amount)
    PROVE  /\ rows'[c].status = status /\ rows'[c].charged = amount
           /\ \A d \in Calls : d # c => rows'[d] = rows[d]
BY DEF Terminate

(* Every step of a handler thread but the last keeps the gateway's part. *)
LEMMA HandlerSteps ==
    ASSUME GatewayPart, LedgerTypeOK, NEW c \in Calls, Handler(c)
    PROVE  GatewayPart'
<1>. USE DEF InFlight
<1>1. HandlerPlace(c) /\ HandlerBill(c) /\ billed \in [Calls -> Nat] /\ rows \in [Calls -> Row]
      /\ call \in [Calls -> CallStates]
  BY DEF GatewayPart, HandlersKnow, GatewayTypes, LedgerTypeOK
<1>2. CASE RejectBody(c)
  <2>1. rows' = rows /\ billed' = billed
        /\ \E to \in {"answering", "unwinding"} : Continue(c, "authorized", to)
    BY <1>2 DEF RejectBody, ledgerVars
  <2>2. call[c] = "authorized" /\ call'[c] \in {"answering", "unwinding"}
    BY <1>1, <2>1 DEF Continue
  <2>3. HandlerPlace(c)' /\ HandlerBill(c)'
    BY <1>1, <2>1, <2>2 DEF HandlerPlace, HandlerBill
  <2>. QED
    BY <1>1, <2>1, <2>3, HandlerMoves
<1>3. ASSUME NEW m \in Maxima, ReserveCall(c, m) PROVE GatewayPart'
  <2>1. Continue(c, "authorized", "upstream") /\ billed' = billed
        /\ Reserve(CallActor(c), c, m)
    BY <1>3 DEF ReserveCall
  <2>2. call[c] = "authorized" /\ call'[c] = "upstream"
    BY <1>1, <2>1 DEF Continue
  <2>3. /\ rows'[c].status = "reserved" /\ rows'[c].charged = 0
        /\ \A d \in Calls : d # c => rows'[d] = rows[d]
    BY <1>1, <2>1, ReservedRow
  <2>4. HandlerPlace(c)' /\ HandlerBill(c)'
    BY <1>1, <2>1, <2>2, <2>3 DEF HandlerPlace, HandlerBill
  <2>. QED
    BY <1>1, <2>1, <2>3, <2>4, HandlerMoves
<1>4. ASSUME NEW m \in Maxima, RefuseCall(c, m) PROVE GatewayPart'
  <2>1. Continue(c, "authorized", "answering") /\ rows' = rows /\ billed' = billed
    BY <1>4 DEF RefuseCall, Refuse
  <2>2. call[c] = "authorized" /\ call'[c] = "answering"
    BY <1>1, <2>1 DEF Continue
  <2>3. HandlerPlace(c)' /\ HandlerBill(c)'
    BY <1>1, <2>1, <2>2 DEF HandlerPlace, HandlerBill
  <2>. QED
    BY <1>1, <2>1, <2>3, HandlerMoves
<1>5. ASSUME NEW cost \in Costs, UpstreamAccepts(c, cost) PROVE GatewayPart'
  <2>1. Continue(c, "upstream", "headers") /\ rows' = rows
        /\ billed' = [billed EXCEPT ![c] = cost]
    BY <1>5 DEF UpstreamAccepts, ledgerVars
  <2>2. call[c] = "upstream" /\ call'[c] = "headers"
    BY <1>1, <2>1 DEF Continue
  <2>3. /\ billed' \in [Calls -> Nat] /\ billed'[c] = cost
        /\ \A d \in Calls : d # c => billed'[d] = billed[d]
    BY <1>1, <2>1, AmountsAssumption
  <2>4. HandlerPlace(c)' /\ HandlerBill(c)'
    BY <1>1, <2>1, <2>2, <2>3 DEF HandlerPlace, HandlerBill
  <2>. QED
    BY <2>1, <2>3, <2>4, HandlerMoves
<1>6. CASE UpstreamRefuses(c)
  <2>1. Continue(c, "upstream", "answering") /\ billed' = billed
        /\ Terminate(c, "released", 0)
    BY <1>6 DEF UpstreamRefuses, Release
  <2>2. call[c] = "upstream" /\ call'[c] = "answering"
    BY <1>1, <2>1 DEF Continue
  <2>3. /\ rows'[c].status = "released" /\ rows'[c].charged = 0
        /\ \A d \in Calls : d # c => rows'[d] = rows[d]
    BY <1>1, <2>1, TerminatedRow
  <2>4. HandlerPlace(c)' /\ HandlerBill(c)'
    BY <1>1, <2>1, <2>2, <2>3 DEF HandlerPlace, HandlerBill
  <2>. QED
    BY <1>1, <2>1, <2>3, <2>4, HandlerMoves
<1>7. ASSUME NEW cost \in Costs, UpstreamAmbiguous(c, cost) PROVE GatewayPart'
  <2>1. Continue(c, "upstream", "answering") /\ billed' = [billed EXCEPT ![c] = cost]
        /\ Terminate(c, "forfeited", rows[c].maximum)
    BY <1>7 DEF UpstreamAmbiguous, Forfeit
  <2>2. call[c] = "upstream" /\ call'[c] = "answering"
    BY <1>1, <2>1 DEF Continue
  <2>3. /\ rows'[c].status = "forfeited"
        /\ \A d \in Calls : d # c => rows'[d] = rows[d]
    BY <1>1, <2>1, TerminatedRow
  <2>4. /\ billed' \in [Calls -> Nat]
        /\ \A d \in Calls : d # c => billed'[d] = billed[d]
    BY <1>1, <2>1, AmountsAssumption
  <2>5. HandlerPlace(c)' /\ HandlerBill(c)'
    BY <2>2, <2>3 DEF HandlerPlace, HandlerBill
  <2>. QED
    BY <2>1, <2>3, <2>4, <2>5, HandlerMoves
<1>8. ASSUME NEW to \in {"streaming", "receipt", "abandoning"}, NEW from \in {"headers", "streaming"},
             Continue(c, from, to), rows' = rows, billed' = billed
      PROVE  GatewayPart'
  <2>1. call[c] = from /\ call'[c] = to
    BY <1>1, <1>8 DEF Continue
  <2>2. HandlerPlace(c)' /\ HandlerBill(c)'
    BY <1>1, <1>8, <2>1 DEF HandlerPlace, HandlerBill
  <2>. QED
    BY <1>1, <1>8, <2>2, HandlerMoves
<1>9. CASE HeadersSent(c) \/ HeadersFail(c) \/ StreamCompletes(c)
  BY <1>8, <1>9 DEF HeadersSent, HeadersFail, StreamCompletes, ledgerVars
<1>10. CASE StreamBreaks(c) \/ UsageInvalid(c)
  <2>1. PICK from \in {"streaming", "receipt"} : Continue(c, from, "unwinding")
    BY <1>10 DEF StreamBreaks, UsageInvalid
  <2>2. call[c] = from /\ call'[c] = "unwinding"
    BY <1>1, <2>1 DEF Continue
  <2>3. billed' = billed /\ Terminate(c, "forfeited", rows[c].maximum)
    BY <1>10 DEF StreamBreaks, UsageInvalid, Forfeit
  <2>4. /\ rows'[c].status = "forfeited"
        /\ \A d \in Calls : d # c => rows'[d] = rows[d]
    BY <1>1, <2>3, TerminatedRow
  <2>5. HandlerPlace(c)' /\ HandlerBill(c)'
    BY <2>2, <2>4 DEF HandlerPlace, HandlerBill
  <2>. QED
    BY <1>1, <2>1, <2>3, <2>4, <2>5, HandlerMoves
<1>11. CASE SettleCall(c)
  <2>1. Continue(c, "receipt", "unwinding") /\ billed' = billed
        /\ Terminate(c, SettledStatus(c, billed[c]), billed[c])
    BY <1>11 DEF SettleCall, Settle
  <2>2. call[c] = "receipt" /\ call'[c] = "unwinding"
    BY <1>1, <2>1 DEF Continue
  <2>3. /\ rows'[c].status \in {"settled", "overrun"} /\ rows'[c].charged = billed[c]
        /\ \A d \in Calls : d # c => rows'[d] = rows[d]
    BY <1>1, <2>1, TerminatedRow DEF SettledStatus
  <2>4. HandlerPlace(c)' /\ HandlerBill(c)'
    BY <2>1, <2>2, <2>3 DEF HandlerPlace, HandlerBill
  <2>. QED
    BY <1>1, <2>1, <2>3, <2>4, HandlerMoves
<1>12. CASE LedgerFails(c)
  <2>1. PICK from \in {"upstream", "streaming", "receipt"} : Continue(c, from, "abandoning")
    BY <1>12 DEF LedgerFails
  <2>2. call[c] = from /\ call'[c] = "abandoning" /\ rows' = rows
    BY <1>1, <1>12, <2>1 DEF Continue, LedgerFails, ledgerVars
  <2>3. /\ billed' \in [Calls -> Nat]
        /\ \A d \in Calls : d # c => billed'[d] = billed[d]
    BY <1>1, <1>12, AmountsAssumption DEF LedgerFails
  <2>4. HandlerPlace(c)' /\ HandlerBill(c)'
    BY <1>1, <2>2 DEF HandlerPlace, HandlerBill
  <2>. QED
    BY <2>1, <2>2, <2>3, <2>4, HandlerMoves
<1>13. CASE Unwind(c)
  BY <1>13, UnwindStep
<1>. QED
  BY <1>2, <1>3, <1>4, <1>5, <1>6, <1>7, <1>9, <1>10, <1>11, <1>12, <1>13 DEF Handler

-----------------------------------------------------------------------------
(* The gateway starts without tokens and calls. *)
LEMMA GatewayInitial == Init => GatewayInv
<1>. SUFFICES ASSUME Init PROVE GatewayInv
  OBVIOUS
<1>1. LedgerInv
  BY LedgerInitial DEF Init
<1>2. /\ call = [c \in Calls |-> "idle"] /\ billed = [c \in Calls |-> 0]
      /\ rows = [c \in Calls |-> NoRow] /\ active = [t \in Tokens |-> 0]
  BY DEF Init, LedgerInit
<1>3. GatewayTypes
  BY <1>2, CrashAssumption DEF Init, GatewayTypes, TokenStates, CallStates
<1>4. HandlersKnow
  BY <1>2 DEF HandlersKnow, HandlerPlace, HandlerBill, NoRow
<1>5. RequestsHoldTheirToken
  <2>1. \A t \in Tokens : CallsUnder(t) = {}
    BY <1>2 DEF CallsUnder, InFlight
  <2>2. \A t \in Tokens : active[t] = Cardinality(CallsUnder(t))
    BY <1>2, <2>1, FS_EmptySet
  <2>. QED
    BY <1>2, <2>2 DEF RequestsHoldTheirToken, InFlight
<1>6. GoneIsQuiet
  BY <1>2 DEF GoneIsQuiet
<1>. QED
  BY <1>1, <1>3, <1>4, <1>5, <1>6 DEF GatewayInv

(* Every step of the gateway keeps the invariant. *)
LEMMA GatewayStep == GatewayInv /\ [Next]_vars => GatewayInv'
<1>. SUFFICES ASSUME GatewayInv, [Next]_vars PROVE GatewayInv'
  OBVIOUS
<1>1. LedgerInv'
  BY StepMapsToLedger, LedgerStep DEF GatewayInv
<1>2. GatewayPart /\ LedgerTypeOK
  BY DEF GatewayInv, GatewayPart, LedgerInv
<1>3. GatewayPart'
  <2>1. CASE Provision \/ CloseStart \/ Closer
    BY <1>2, <2>1, TokenSteps
  <2>2. ASSUME NEW t \in Tokens, Issue(t) \/ Activate(t) \/ RevokeStart(t) \/ RevokeReturn(t)
        PROVE  GatewayPart'
    BY <1>2, <2>2, TokenSteps
  <2>3. ASSUME NEW c \in Calls, NEW t \in Tokens, Authorize(c, t) PROVE GatewayPart'
    BY <1>2, <2>3, AuthorizeStep
  <2>4. ASSUME NEW c \in Calls, Handler(c) PROVE GatewayPart'
    BY <1>2, <2>4, HandlerSteps
  <2>5. CASE Crash
    BY <1>2, <2>5, CrashStep
  <2>6. CASE UNCHANGED vars
    BY <1>2, <2>6 DEF vars, gatewayVars, ledgerVars, GatewayPart, GatewayTypes, HandlersKnow,
       HandlerPlace, HandlerBill, RequestsHoldTheirToken, CallsUnder, GoneIsQuiet
  <2>. QED
    BY <2>1, <2>2, <2>3, <2>4, <2>5, <2>6 DEF Next
<1>. QED
  BY <1>1, <1>3 DEF GatewayInv, GatewayPart

(* The inductive invariant of the gateway over its ledger.                 *)
THEOREM GatewayInvariant == Spec => []GatewayInv
BY GatewayInitial, GatewayStep, PTL DEF Spec

(* Every variable of the gateway keeps its type.                           *)
THEOREM GatewayTypesHold == Spec => []GatewayTypeOK
<1>1. GatewayInv => GatewayTypeOK
  BY DEF GatewayInv, GatewayTypes, GatewayTypeOK, LedgerInv
<1>. QED
  BY <1>1, GatewayInvariant, PTL

(* active_requests is exactly the number of requests in flight, each under *)
(* an active token.                                                        *)
THEOREM RequestsAreCounted == Spec => []RequestsHoldTheirToken
<1>1. GatewayInv => RequestsHoldTheirToken
  BY DEF GatewayInv
<1>. QED
  BY <1>1, GatewayInvariant, PTL

(* The handlers an exception has left, of the header write or of a ledger  *)
(* transaction that failed, are the only exception to revocation as a      *)
(* quiescence barrier.                                                     *)
THEOREM RevocationLeavesAbandoned == Spec => []OnlyAbandonedStayActive
<1>1. GatewayInv => OnlyAbandonedStayActive
  <2>. SUFFICES ASSUME GatewayInv, NEW c \in Calls, rows[c].status = "reserved",
                       token[callToken[c]] = "gone"
                PROVE  call[c] = "abandoned"
    BY DEF OnlyAbandonedStayActive, WithStatus
  <2>1. HandlerPlace(c)
    BY DEF GatewayInv, HandlersKnow
  <2>2. call[c] # "idle" /\ call[c] # "done"
    BY <2>1 DEF HandlerPlace
  <2>. QED
    BY <2>2 DEF GatewayInv, GoneIsQuiet
<1>. QED
  BY <1>1, GatewayInvariant, PTL

(* No failure and no crash takes a billed call out of the ledger.          *)
THEOREM BillsAreCovered == Spec => []BillIsCovered
<1>1. GatewayInv => BillIsCovered
  <2>. SUFFICES ASSUME GatewayInv, NEW c \in Calls
                PROVE  /\ billed[c] > 0 => rows[c].status \in
                                              {"reserved", "settled", "overrun", "forfeited"}
                       /\ rows[c].status \in {"settled", "overrun"}
                              => rows[c].charged = billed[c]
    BY DEF BillIsCovered
  <2>1. HandlerBill(c) /\ rows[c] \in Row /\ billed[c] \in Nat
    BY DEF GatewayInv, HandlersKnow, GatewayTypes, LedgerInv, LedgerTypeOK
  <2>2. rows[c].status \in Statuses
    BY <2>1 DEF Row
  <2>. QED
    BY <2>1, <2>2 DEF HandlerBill, Statuses, Terminal
<1>. QED
  BY <1>1, GatewayInvariant, PTL

(* A campaign that closes as valid was charged exactly the provider's bill.*)
THEOREM ValidCampaignsAreExact == Spec => []ValidMeansExact
<1>1. GatewayInv => ValidMeansExact
  <2>. SUFFICES ASSUME GatewayInv, ReconcileValid, NEW c \in Calls
                PROVE  rows[c].charged = billed[c]
    BY DEF ValidMeansExact
  <2>1. HandlerBill(c) /\ rows[c] \in Row
    BY DEF GatewayInv, HandlersKnow, LedgerInv, LedgerTypeOK
  <2>2. rows[c].status \in Statuses
    BY <2>1 DEF Row
  <2>3. rows[c].status \notin {"reserved", "forfeited", "overrun"}
    BY DEF ReconcileValid, WithStatus
  <2>. QED
    BY <2>1, <2>2, <2>3 DEF HandlerBill, Statuses, Terminal
<1>. QED
  BY <1>1, GatewayInvariant, PTL

(* revoke() is a barrier for the ledger: once it has returned, no thread   *)
(* of the token's requests changes their rows any more.                    *)
THEOREM RevocationQuietsLedger == Spec => LedgerQuietAfterRevoke
<1>1. GatewayInv /\ [Next]_vars
        => [\A c \in Calls : call[c] # "idle" /\ token[callToken[c]] = "gone"
              => rows'[c] = rows[c]]_vars
  <2>. SUFFICES ASSUME GatewayInv, Next, NEW c \in Calls, call[c] # "idle",
                       token[callToken[c]] = "gone"
                PROVE  rows'[c] = rows[c]
    OBVIOUS
  <2>1. call[c] \notin InFlight
    BY DEF GatewayInv, GoneIsQuiet, InFlight
  <2>2. rows \in [Calls -> Row]
    BY DEF GatewayInv, LedgerInv, LedgerTypeOK
  <2>3. ASSUME NEW d \in Calls, Handler(d) PROVE rows'[c] = rows[c]
    <3>1. call[d] \in InFlight
      BY <2>3 DEF Handler, RejectBody, ReserveCall, RefuseCall, UpstreamAccepts,
         UpstreamRefuses, UpstreamAmbiguous, HeadersSent, HeadersFail, StreamCompletes,
         StreamBreaks, UsageInvalid, SettleCall, LedgerFails, Unwind, Continue, InFlight
    <3>2. c # d
      BY <2>1, <3>1
    <3>3. \/ rows' = rows
          \/ \E m \in Maxima : Reserve(CallActor(d), d, m)
          \/ \E status, amount : Terminate(d, status, amount)
      BY <2>3 DEF Handler, RejectBody, ReserveCall, RefuseCall, Refuse, UpstreamAccepts,
         UpstreamRefuses, Release, UpstreamAmbiguous, Forfeit, HeadersSent, HeadersFail,
         StreamCompletes, StreamBreaks, UsageInvalid, SettleCall, Settle, LedgerFails, Unwind,
         ledgerVars
    <3>. QED
      BY <2>2, <3>2, <3>3, ReservedRow, TerminatedRow
  <2>4. CASE ~ (\E d \in Calls : Handler(d))
    BY <2>4 DEF Next, Provision, OpenCampaign, Issue, Activate, RevokeStart, RevokeReturn,
       CloseStart, Closer, CloseRevoke, CloseRevoked, CloseReturn, Authorize, Crash, ledgerVars
  <2>. QED
    BY <2>3, <2>4
<1>. QED
  BY <1>1, GatewayInvariant, PTL DEF Spec, LedgerQuietAfterRevoke
=============================================================================
