--------------------------- MODULE PilotSpendProofs -------------------------
(***************************************************************************)
(* The spend journal proved for any controllers, crashes, bills, charges   *)
(* and batches.  FundedInv ties receipts, work and controllers together,   *)
(* attempt by attempt.  SettledInv follows the amendments: each attempt    *)
(* before the newest stands as the amendment after it found it, so what    *)
(* is given back of its account is a known amount, and what stays covers   *)
(* what its evidence says is owed.  AffordInv adds the journal up: what is *)
(* admitted is admitted to the newest attempt, so what Start() found for   *)
(* the rest of it is still there.                                          *)
(*                                                                         *)
(* The allowances are hidden behind AllowancesAre, and expanded only where *)
(* a sum of them is compared.                                              *)
(***************************************************************************)
EXTENDS PilotSpend, RosterTotalsProofs

(* The rows of the journal, of its attempts and of its controllers.         *)
ReceiptRows == [model : 0..1, overhead : 0..1, computes : 0..12, probe : 0..1]
WorkRows    == [dispatched : 0..12, confirmed : 0..12, recovered : 0..1, failed : BOOLEAN,
                charged : Nat, status : {"open", "aborted", "stopped", "complete"}]
Seats       == [place : {"idle", "model", "overhead", "running", "admitted"},
                version : Attempts]

SpendTypes ==
    /\ approved \in Attempts
    /\ released \in [Accounts -> [modal : Int, openrouter : Int]]
    /\ qualified \subseteq Qualifications
    /\ receipts \in [Attempts -> ReceiptRows]
    /\ work \in [Attempts -> WorkRows]
    /\ billed \in [Attempts -> Nat]
    /\ host \in [Hosts -> Seats]
    /\ batch \in [1..Len(Batches) -> {"none", "approved", "admitted"}]
    /\ stock \in [1..Len(Batches) -> [claimed : BOOLEAN, dispatched : Nat, done : Nat]]

(* What the receipts r of attempt n say of its work w.                      *)
RowInv(n, r, w) ==
    /\ w.dispatched <= r.computes
    /\ r.computes <= StageEnd(n, 2)
    /\ r.computes > 0 => r.overhead = 1
    /\ n <= 10 /\ r.overhead = 1 => r.model = 1
    /\ w.confirmed <= w.dispatched
    /\ w.dispatched <= w.confirmed + 1
    /\ w.recovered <= w.dispatched - w.confirmed
    /\ w.status = "aborted" => n <= 10
    /\ w.status = "stopped" => n >= 11
    /\ n >= 11 => w.charged = 0
    /\ w.charged > 0 => r.model = 1
    /\ r.probe = 1 => w.status = "aborted"

(* What the place s of a controller says of the receipts of its attempt.    *)
SeatInv(s, r) ==
    /\ s.place = "model" => s.version <= 10
    /\ s.place = "overhead" /\ s.version <= 10 => r.model = 1
    /\ s.place \in {"running", "admitted"} => r.overhead = 1

(* What keeps every dispatch paid: the types, the rows and the seats.       *)
FundedInv ==
    /\ SpendTypes
    /\ \A n \in Attempts : RowInv(n, receipts[n], work[n])
    /\ \A n \in Attempts : n > approved => receipts[n] = NoReceipts /\ work[n] = NoWork
    /\ \A h \in Hosts : host[h].place # "idle" =>
            host[h].version <= approved /\ SeatInv(host[h], receipts[host[h].version])
    /\ \A b \in 1..Len(Batches) : stock[b].dispatched > 0 => batch[b] = "admitted"

(* An attempt that an amendment has followed is as that amendment found it. *)
Settled(n) ==
    /\ receipts[n].overhead = 1
    /\ n <= 10 => /\ work[n].status = "aborted"
                  /\ Leavings[n] \in Amendment(n + 1, billed).left
                  /\ billed[n] \in Amendment(n + 1, billed).bill
    /\ n = 12 => /\ work[n].status = "stopped" /\ receipts[n].probe = 0
                 /\ receipts[n].computes = 3 /\ work[n].dispatched = 1
                 /\ work[n].confirmed + work[n].recovered = 1
                 /\ work[n].confirmed = 0 \/ work[n].failed

(* What the retained amendments give back of each account, in full.         *)
By(v, amount) == IF approved >= v THEN amount ELSE 0
Gives(a, modal, openrouter) == released[a].modal = modal /\ released[a].openrouter = openrouter

ReleasedInv ==
    /\ Gives(Setup, By(4, 500000) + By(5, 500000), 0)
    /\ Gives(0, By(3, ComputeEach - billed[0] - Buffer), By(1, ModelBase))
    /\ Gives(1, By(2, OneAllowance - billed[1] - Buffer), By(2, ModelBase))
    /\ Gives(2, By(3, 2000000), By(3, ModelBase - 1352 - SmallBuffer))
    /\ Gives(3, By(4, OneAllowance + ComputeEach - billed[3] - Buffer),
                By(4, ModelBase - 3082 - SmallBuffer))
    /\ Gives(4, By(5, OneAllowance - billed[4] - Buffer - SmallBuffer),
                By(5, ModelBase - SmallBuffer))
    /\ Gives(5, By(6, FullAllowance - billed[5] - Buffer - ComputeEach),
                By(6, ModelBase - 5110 - SmallBuffer))
    /\ Gives(6, By(7, FullAllowance - billed[6] - 48 - Buffer),
                By(7, ModelBase - 4801 - SmallBuffer))
    /\ Gives(7, By(10, OneAllowance - billed[7] - Buffer), By(8, ModelBase))
    /\ Gives(8, By(9, FullAllowance - billed[8] - Buffer),
                By(9, ModelBase - 3115 - SmallBuffer))
    /\ Gives(9, By(10, OneAllowance - billed[9] - Buffer), By(10, ModelBase))
    /\ Gives(10, By(11, FullAllowance - billed[10] - Buffer), By(11, ModelBase - 4292))
    /\ Gives(11, 0, 0)
    /\ Gives(12, By(13, PairAllowance - billed[12] - Buffer), 0)
    /\ Gives(13, 0, 0)

(* Every attempt before the newest is settled, and given back exactly what  *)
(* its evidence proves unused.                                              *)
SettledInv ==
    /\ \A n \in Attempts : n < approved => Settled(n)
    /\ \A n \in 1..approved : EarlierEvidence(n, billed, Leavings)
    /\ ReleasedInv

(* The rest of the journal, next to the newest attempt.                     *)
Others == Reserved(released).modal - Admitted(approved).modal

(* An attempt has begun once a controller stands under its version, or its  *)
(* overhead is paid.                                                        *)
Begun(v) == receipts[v].overhead = 1
                \/ \E h \in Hosts : host[h].place # "idle" /\ host[h].version = v

(* What the newest attempt has still to find is not taken by the others.    *)
(* The bounds of the last five are sums of known bills and limits: a        *)
(* follow-up checks nothing in advance.                                     *)
AffordInv ==
    /\ Room(0, 0)
    /\ approved <= 10 /\ Begun(approved) =>
            /\ Others + FullAllowance <= LimitsOf(approved).modal
            /\ "modal-access" \in qualified
    /\ approved = 8  => Others <= 8673120
    /\ approved = 9  => Others <= 9866988
    /\ approved = 10 => Others <= 8616342
    /\ approved = 11 => Others <= 9921432
    /\ approved = 12 => Others <= 15517912

SpendInv == FundedInv /\ SettledInv /\ AffordInv
-----------------------------------------------------------------------------
(* The base of a model account is a natural number; its value is hidden.    *)
LEMMA ModelBaseIs == ModelBase \in Nat
BY SMT DEF ModelBase

(* How many requests StageEnd() admits, stage by stage.                     *)
LEMMA StageEndIs ==
    \A n \in 0..13, d \in 0..12 :
        StageEnd(n, d) = IF n <= 10 THEN (IF d < 2 THEN d + 1 ELSE 12)
                                    ELSE IF n = 11 THEN 6 ELSE 3
BY DEF StageEnd

(* The rows the journal begins with are rows, and say the same of each      *)
(* other.                                                                   *)
LEMMA RowsAtRest ==
    /\ NoReceipts \in ReceiptRows /\ NoWork \in WorkRows
    /\ \A n \in Attempts : RowInv(n, NoReceipts, NoWork)
    /\ AtRest \in Seats
<1>1. NoReceipts \in ReceiptRows /\ NoWork \in WorkRows
  BY ModelBaseIs DEF NoReceipts, ReceiptRows, NoWork, WorkRows
<1>2. \A n \in Attempts : StageEnd(n, 2) >= 0
  <2>1. Attempts \subseteq 0..13 /\ 2 \in 0..12
    BY SpendAssumption DEF Attempts
  <2>. QED
    BY <2>1, StageEndIs
<1>3. \A n \in Attempts : RowInv(n, NoReceipts, NoWork)
  BY <1>2, SpendAssumption DEF RowInv, NoReceipts, NoWork, Attempts
<1>4. AtRest \in Seats
  BY SpendAssumption DEF AtRest, Seats, Attempts
<1>. QED
  BY <1>1, <1>3, <1>4

(* The journal begins funded.                                               *)
LEMMA FundedInit == SpendInit => FundedInv
<1>. SUFFICES ASSUME SpendInit PROVE FundedInv
  OBVIOUS
<1>0. NothingFreed \in [Accounts -> [modal : Int, openrouter : Int]]
  BY DEF NothingFreed, Limits
<1>1. SpendTypes
  BY <1>0, RowsAtRest, SpendAssumption DEF SpendInit, SpendTypes, Attempts
<1>2. \A n \in Attempts : receipts[n] = NoReceipts /\ work[n] = NoWork
  BY DEF SpendInit
<1>3. \A h \in Hosts : host[h].place = "idle"
  BY DEF SpendInit, AtRest
<1>4. \A b \in 1..Len(Batches) : stock[b].dispatched = 0
  BY DEF SpendInit
<1>. QED
  BY <1>1, <1>2, <1>3, <1>4, RowsAtRest DEF FundedInv

(* A step that changes the row of one attempt, and no other, keeps the      *)
(* journal funded when the new row is consistent and the seats of the       *)
(* controllers at that attempt stay so.                                     *)
LEMMA FundedRow ==
    ASSUME FundedInv, NEW n \in Attempts, n <= approved,
           NEW r \in ReceiptRows, NEW w \in WorkRows, RowInv(n, r, w),
           receipts' = [receipts EXCEPT ![n] = r], work' = [work EXCEPT ![n] = w],
           r.model >= receipts[n].model, r.overhead >= receipts[n].overhead,
           approved' = approved, released' = released, qualified' \subseteq Qualifications,
           billed' \in [Attempts -> Nat], host' \in [Hosts -> Seats],
           \A g \in Hosts : \/ host'[g] = host[g] \/ host'[g].place = "idle"
                            \/ /\ host'[g].version <= approved
                               /\ SeatInv(host'[g], receipts'[host'[g].version]),
           batch' = batch, stock' = stock
    PROVE  FundedInv'
<1>1. SpendTypes'
  BY DEF FundedInv, SpendTypes
<1>2. \A m \in Attempts : /\ receipts'[m] = IF m = n THEN r ELSE receipts[m]
                          /\ work'[m] = IF m = n THEN w ELSE work[m]
  BY DEF FundedInv, SpendTypes
<1>3. (\A m \in Attempts : RowInv(m, receipts[m], work[m]))'
  <2>1. \A m \in Attempts : RowInv(m, receipts'[m], work'[m])
    BY <1>2 DEF FundedInv
  <2>. QED
    BY <2>1 DEF RowInv, StageEnd, Attempts
<1>4. \A m \in Attempts : m > approved => receipts'[m] = NoReceipts /\ work'[m] = NoWork
  BY <1>2, SpendAssumption DEF FundedInv, SpendTypes, Attempts
<1>5. ASSUME NEW g \in Hosts, host'[g].place # "idle"
      PROVE  host'[g].version <= approved /\ SeatInv(host'[g], receipts'[host'[g].version])
  <2>1. CASE host'[g] = host[g]
    <3>. DEFINE v == host[g].version
    <3>1. v \in Attempts /\ v <= approved /\ SeatInv(host[g], receipts[v])
      BY <1>5, <2>1 DEF FundedInv, SpendTypes, Seats
    <3>2. /\ r.model \in 0..1 /\ receipts[n].model \in 0..1
          /\ r.overhead \in 0..1 /\ receipts[n].overhead \in 0..1
      BY DEF ReceiptRows, FundedInv, SpendTypes
    <3>3. SeatInv(host[g], receipts'[v])
      BY <1>2, <3>1, <3>2 DEF SeatInv
    <3>. QED
      BY <2>1, <3>1, <3>3
  <2>. QED
    BY <1>5, <2>1
<1>6. \A b \in 1..Len(Batches) : stock'[b].dispatched > 0 => batch'[b] = "admitted"
  BY DEF FundedInv
<1>7. (\A h \in Hosts : host[h].place # "idle" =>
          host[h].version <= approved /\ SeatInv(host[h], receipts[host[h].version]))'
  BY <1>5 DEF SeatInv
<1>8. (\A m \in Attempts : m > approved => receipts[m] = NoReceipts /\ work[m] = NoWork)'
  BY <1>4 DEF NoReceipts, NoWork, Attempts
<1>9. (\A b \in 1..Len(Batches) : stock[b].dispatched > 0 => batch[b] = "admitted")'
  BY <1>6
<1>. QED
  BY <1>1, <1>3, <1>7, <1>8, <1>9 DEF FundedInv

(* A controller that is at work under a version is at an attempt that has   *)
(* begun, and its seat says what the receipts hold.                         *)
LEMMA AtSeat ==
    ASSUME FundedInv, NEW h \in Hosts, host[h].place # "idle"
    PROVE  LET n == host[h].version
           IN  /\ n \in Attempts /\ n \in 0..13 /\ n <= approved
               /\ receipts[n] \in ReceiptRows /\ work[n] \in WorkRows
               /\ RowInv(n, receipts[n], work[n])
               /\ SeatInv(host[h], receipts[n])
<1>. DEFINE n == host[h].version
<1>1. n \in Attempts /\ n <= approved /\ SeatInv(host[h], receipts[n])
  BY DEF FundedInv, SpendTypes, Seats
<1>2. n \in 0..13
  <2>1. Attempts \subseteq 0..13
    BY SpendAssumption DEF Attempts
  <2>. QED
    BY <1>1, <2>1
<1>3. receipts[n] \in ReceiptRows /\ work[n] \in WorkRows /\ RowInv(n, receipts[n], work[n])
  BY <1>1 DEF FundedInv, SpendTypes
<1>. QED
  BY <1>1, <1>2, <1>3

(* Collecting a call changes three fields of the work and leaves the        *)
(* others.                                                                  *)
LEMMA WorkCollected ==
    ASSUME NEW w \in WorkRows, NEW c \in 0..12, NEW d \in 0..1, NEW f \in BOOLEAN
    PROVE  [w EXCEPT !.confirmed = c, !.recovered = d, !.failed = f] \in WorkRows
BY DEF WorkRows

(* begin() debits the model base once, and its controller goes on to the    *)
(* overhead.                                                                *)
LEMMA FundedReserveModel ==
    ASSUME FundedInv, NEW h \in Hosts, ReserveModel(h)
    PROVE  FundedInv'
<1>. DEFINE n == host[h].version
            r == receipts[n]
            w == work[n]
            r2 == [r EXCEPT !.model = 1]
            w2 == w
<1>1. /\ n \in Attempts /\ n \in 0..13 /\ n <= approved
      /\ r \in ReceiptRows /\ w \in WorkRows /\ RowInv(n, r, w)
      /\ host[h] \in Seats /\ SeatInv(host[h], r)
  BY AtSeat DEF ReserveModel, Stands, FundedInv, SpendTypes
<1>2. r2 \in ReceiptRows /\ w2 \in WorkRows /\ r2.model >= r.model /\ r2.overhead >= r.overhead
  BY <1>1, StageEndIs, ModelBaseIs
     DEF ReserveModel, Stands, RowInv, SeatInv, Seats, ReceiptRows, WorkRows, Going
<1>3. RowInv(n, r2, w2)
  BY <1>1, StageEndIs, ModelBaseIs
     DEF ReserveModel, Stands, RowInv, SeatInv, Seats, ReceiptRows, WorkRows, Going
<1>4. receipts' = [receipts EXCEPT ![n] = r2] /\ work' = [work EXCEPT ![n] = w2]
  BY <1>1 DEF ReserveModel, journalVars, FundedInv, SpendTypes
<1>5. host' = [host EXCEPT ![h] = [host[h] EXCEPT !.place = "overhead"]]
  BY DEF ReserveModel, Moves
<1>6. /\ host' \in [Hosts -> Seats]
      /\ \A g \in Hosts : \/ host'[g] = host[g] \/ host'[g].place = "idle"
                           \/ /\ host'[g].version <= approved
                              /\ SeatInv(host'[g], receipts'[host'[g].version])
  <2>1. [host[h] EXCEPT !.place = "overhead"] \in Seats
    BY <1>1, RowsAtRest DEF Seats
  <2>2. host' \in [Hosts -> Seats] /\ \A g \in Hosts : g # h => host'[g] = host[g]
    BY <1>5, <2>1 DEF FundedInv, SpendTypes
  <2>3. host'[h] = [host[h] EXCEPT !.place = "overhead"]
    BY <1>5 DEF FundedInv, SpendTypes
  <2>4. receipts'[n] = r2
    BY <1>1, <1>4 DEF FundedInv, SpendTypes
  <2>5. host'[h].version = n /\ SeatInv(host'[h], r2)
    BY <1>1, StageEndIs, ModelBaseIs, <2>3
       DEF ReserveModel, Stands, SeatInv, Seats, RowInv, ReceiptRows, WorkRows, Going
  <2>. QED
    BY <1>1, <2>2, <2>4, <2>5
<1>7. /\ approved' = approved /\ released' = released /\ batch' = batch /\ stock' = stock
      /\ qualified' \subseteq Qualifications /\ billed' \in [Attempts -> Nat]
  BY DEF ReserveModel, journalVars, batchVars, FundedInv, SpendTypes
<1>. HIDE DEF n, r, w, r2, w2
<1>. QED
  BY <1>1, <1>2, <1>3, <1>4, <1>6, <1>7, FundedRow DEF r

(* begin() debits the overhead once; a solo attempt has paid for its model  *)
(* by then.                                                                 *)
LEMMA FundedReserveOverhead ==
    ASSUME FundedInv, NEW h \in Hosts, ReserveOverhead(h)
    PROVE  FundedInv'
<1>. DEFINE n == host[h].version
            r == receipts[n]
            w == work[n]
            r2 == [r EXCEPT !.overhead = 1]
            w2 == w
<1>1. /\ n \in Attempts /\ n \in 0..13 /\ n <= approved
      /\ r \in ReceiptRows /\ w \in WorkRows /\ RowInv(n, r, w)
      /\ host[h] \in Seats /\ SeatInv(host[h], r)
  BY AtSeat DEF ReserveOverhead, Stands, FundedInv, SpendTypes
<1>2. r2 \in ReceiptRows /\ w2 \in WorkRows /\ r2.model >= r.model /\ r2.overhead >= r.overhead
  BY <1>1, StageEndIs, ModelBaseIs
     DEF ReserveOverhead, Stands, RowInv, SeatInv, Seats, ReceiptRows, WorkRows, Going
<1>3. RowInv(n, r2, w2)
  BY <1>1, StageEndIs, ModelBaseIs
     DEF ReserveOverhead, Stands, RowInv, SeatInv, Seats, ReceiptRows, WorkRows, Going
<1>4. receipts' = [receipts EXCEPT ![n] = r2] /\ work' = [work EXCEPT ![n] = w2]
  BY <1>1 DEF ReserveOverhead, journalVars, FundedInv, SpendTypes
<1>5. host' = [host EXCEPT ![h] = [host[h] EXCEPT !.place = "running"]]
  BY DEF ReserveOverhead, Moves
<1>6. /\ host' \in [Hosts -> Seats]
      /\ \A g \in Hosts : \/ host'[g] = host[g] \/ host'[g].place = "idle"
                           \/ /\ host'[g].version <= approved
                              /\ SeatInv(host'[g], receipts'[host'[g].version])
  <2>1. [host[h] EXCEPT !.place = "running"] \in Seats
    BY <1>1, RowsAtRest DEF Seats
  <2>2. host' \in [Hosts -> Seats] /\ \A g \in Hosts : g # h => host'[g] = host[g]
    BY <1>5, <2>1 DEF FundedInv, SpendTypes
  <2>3. host'[h] = [host[h] EXCEPT !.place = "running"]
    BY <1>5 DEF FundedInv, SpendTypes
  <2>4. receipts'[n] = r2
    BY <1>1, <1>4 DEF FundedInv, SpendTypes
  <2>5. host'[h].version = n /\ SeatInv(host'[h], r2)
    BY <1>1, StageEndIs, ModelBaseIs, <2>3
       DEF ReserveOverhead, Stands, SeatInv, Seats, RowInv, ReceiptRows, WorkRows, Going
  <2>. QED
    BY <1>1, <2>2, <2>4, <2>5
<1>7. /\ approved' = approved /\ released' = released /\ batch' = batch /\ stock' = stock
      /\ qualified' \subseteq Qualifications /\ billed' \in [Attempts -> Nat]
  BY DEF ReserveOverhead, journalVars, batchVars, FundedInv, SpendTypes
<1>. HIDE DEF n, r, w, r2, w2
<1>. QED
  BY <1>1, <1>2, <1>3, <1>4, <1>6, <1>7, FundedRow DEF r

(* authorize() debits one more execution, after the overhead and within the *)
(* stage.                                                                   *)
LEMMA FundedReserveCompute ==
    ASSUME FundedInv, NEW h \in Hosts, ReserveCompute(h)
    PROVE  FundedInv'
<1>. DEFINE n == host[h].version
            r == receipts[n]
            w == work[n]
            r2 == [r EXCEPT !.computes = @ + 1]
            w2 == w
<1>1. /\ n \in Attempts /\ n \in 0..13 /\ n <= approved
      /\ r \in ReceiptRows /\ w \in WorkRows /\ RowInv(n, r, w)
      /\ host[h] \in Seats /\ SeatInv(host[h], r)
  BY AtSeat DEF ReserveCompute, Stands, FundedInv, SpendTypes
<1>2. r2 \in ReceiptRows /\ w2 \in WorkRows /\ r2.model >= r.model /\ r2.overhead >= r.overhead
  BY <1>1, StageEndIs, ModelBaseIs
     DEF ReserveCompute, Stands, RowInv, SeatInv, Seats, ReceiptRows, WorkRows, Going,
     InFlight
<1>3. RowInv(n, r2, w2)
  BY <1>1, StageEndIs, ModelBaseIs
     DEF ReserveCompute, Stands, RowInv, SeatInv, Seats, ReceiptRows, WorkRows, Going,
     InFlight
<1>4. receipts' = [receipts EXCEPT ![n] = r2] /\ work' = [work EXCEPT ![n] = w2]
  BY <1>1 DEF ReserveCompute, journalVars, FundedInv, SpendTypes
<1>5. host' = host
  BY DEF ReserveCompute, journalVars
<1>6. host' \in [Hosts -> Seats] /\ \A g \in Hosts : host'[g] = host[g]
  BY <1>5 DEF FundedInv, SpendTypes
<1>7. /\ approved' = approved /\ released' = released /\ batch' = batch /\ stock' = stock
      /\ qualified' \subseteq Qualifications /\ billed' \in [Attempts -> Nat]
  BY DEF ReserveCompute, journalVars, batchVars, FundedInv, SpendTypes
<1>. HIDE DEF n, r, w, r2, w2
<1>. QED
  BY <1>1, <1>2, <1>3, <1>4, <1>6, <1>7, FundedRow DEF r

(* A continuation admits its requests again: no receipt changes.            *)
LEMMA FundedReadmit ==
    ASSUME FundedInv, NEW h \in Hosts, Readmit(h)
    PROVE  FundedInv'
<1>. DEFINE n == host[h].version
            r == receipts[n]
            w == work[n]
            r2 == r
            w2 == w
<1>1. /\ n \in Attempts /\ n \in 0..13 /\ n <= approved
      /\ r \in ReceiptRows /\ w \in WorkRows /\ RowInv(n, r, w)
      /\ host[h] \in Seats /\ SeatInv(host[h], r)
  BY AtSeat DEF Readmit, Stands, FundedInv, SpendTypes
<1>2. r2 \in ReceiptRows /\ w2 \in WorkRows /\ r2.model >= r.model /\ r2.overhead >= r.overhead
  BY <1>1, StageEndIs, ModelBaseIs
     DEF Readmit, Stands, RowInv, SeatInv, Seats, ReceiptRows, WorkRows, Going, InFlight
<1>3. RowInv(n, r2, w2)
  BY <1>1, StageEndIs, ModelBaseIs
     DEF Readmit, Stands, RowInv, SeatInv, Seats, ReceiptRows, WorkRows, Going, InFlight
<1>4. receipts' = [receipts EXCEPT ![n] = r2] /\ work' = [work EXCEPT ![n] = w2]
  BY <1>1 DEF Readmit, journalVars, FundedInv, SpendTypes
<1>5. host' = [host EXCEPT ![h] = [host[h] EXCEPT !.place = "admitted"]]
  BY DEF Readmit, Moves
<1>6. /\ host' \in [Hosts -> Seats]
      /\ \A g \in Hosts : \/ host'[g] = host[g] \/ host'[g].place = "idle"
                           \/ /\ host'[g].version <= approved
                              /\ SeatInv(host'[g], receipts'[host'[g].version])
  <2>1. [host[h] EXCEPT !.place = "admitted"] \in Seats
    BY <1>1, RowsAtRest DEF Seats
  <2>2. host' \in [Hosts -> Seats] /\ \A g \in Hosts : g # h => host'[g] = host[g]
    BY <1>5, <2>1 DEF FundedInv, SpendTypes
  <2>3. host'[h] = [host[h] EXCEPT !.place = "admitted"]
    BY <1>5 DEF FundedInv, SpendTypes
  <2>4. receipts'[n] = r2
    BY <1>1, <1>4 DEF FundedInv, SpendTypes
  <2>5. host'[h].version = n /\ SeatInv(host'[h], r2)
    BY <1>1, StageEndIs, ModelBaseIs, <2>3
       DEF Readmit, Stands, SeatInv, Seats, RowInv, ReceiptRows, WorkRows, Going, InFlight
  <2>. QED
    BY <1>1, <2>2, <2>4, <2>5
<1>7. /\ approved' = approved /\ released' = released /\ batch' = batch /\ stock' = stock
      /\ qualified' \subseteq Qualifications /\ billed' \in [Attempts -> Nat]
  BY DEF Readmit, journalVars, batchVars, FundedInv, SpendTypes
<1>. HIDE DEF n, r, w, r2, w2
<1>. QED
  BY <1>1, <1>2, <1>3, <1>4, <1>6, <1>7, FundedRow DEF r

(* An execution is dispatched only below the receipts of its stage.         *)
LEMMA FundedDispatch ==
    ASSUME FundedInv, NEW h \in Hosts, Dispatch(h)
    PROVE  FundedInv'
<1>. DEFINE n == host[h].version
            r == receipts[n]
            w == work[n]
            r2 == r
            w2 == [w EXCEPT !.dispatched = @ + 1]
<1>1. /\ n \in Attempts /\ n \in 0..13 /\ n <= approved
      /\ r \in ReceiptRows /\ w \in WorkRows /\ RowInv(n, r, w)
      /\ host[h] \in Seats /\ SeatInv(host[h], r)
  BY AtSeat DEF Dispatch, Stands, FundedInv, SpendTypes
<1>2. r2 \in ReceiptRows /\ w2 \in WorkRows /\ r2.model >= r.model /\ r2.overhead >= r.overhead
  BY <1>1, StageEndIs, ModelBaseIs
     DEF Dispatch, Stands, RowInv, SeatInv, Seats, ReceiptRows, WorkRows, Going, InFlight
<1>3. RowInv(n, r2, w2)
  BY <1>1, StageEndIs, ModelBaseIs
     DEF Dispatch, Stands, RowInv, SeatInv, Seats, ReceiptRows, WorkRows, Going, InFlight
<1>4. receipts' = [receipts EXCEPT ![n] = r2] /\ work' = [work EXCEPT ![n] = w2]
  BY <1>1 DEF Dispatch, journalVars, FundedInv, SpendTypes
<1>5. host' = host
  BY DEF Dispatch, journalVars
<1>6. host' \in [Hosts -> Seats] /\ \A g \in Hosts : host'[g] = host[g]
  BY <1>5 DEF FundedInv, SpendTypes
<1>7. /\ approved' = approved /\ released' = released /\ batch' = batch /\ stock' = stock
      /\ qualified' \subseteq Qualifications /\ billed' \in [Attempts -> Nat]
  BY DEF Dispatch, journalVars, batchVars, FundedInv, SpendTypes
<1>. HIDE DEF n, r, w, r2, w2
<1>. QED
  BY <1>1, <1>2, <1>3, <1>4, <1>6, <1>7, FundedRow DEF r

(* A collected call was in flight.                                          *)
LEMMA FundedCollect ==
    ASSUME FundedInv, NEW h \in Hosts, NEW ok \in BOOLEAN, Collect(h, ok)
    PROVE  FundedInv'
<1>. DEFINE n == host[h].version
            r == receipts[n]
            w == work[n]
            r2 == r
            w2 == [w EXCEPT !.confirmed = @ + 1, !.recovered = 0, !.failed = ~ok]
<1>1. /\ n \in Attempts /\ n \in 0..13 /\ n <= approved
      /\ r \in ReceiptRows /\ w \in WorkRows /\ RowInv(n, r, w)
      /\ host[h] \in Seats /\ SeatInv(host[h], r)
  BY AtSeat DEF Collect, Stands, FundedInv, SpendTypes
<1>2. r2 \in ReceiptRows /\ w2 \in WorkRows /\ r2.model >= r.model /\ r2.overhead >= r.overhead
  <2>1. w.dispatched - w.confirmed = 1
    BY DEF Collect, InFlight
  <2>2. w.confirmed + 1 \in 0..12
    <3>. HIDE DEF w
    <3>. QED
      BY <1>1, <2>1 DEF WorkRows
  <2>3. w2 \in WorkRows
    <3>1. PICK f \in BOOLEAN : f = ~ok
      OBVIOUS
    <3>2. PICK c \in 0..12 : c = w.confirmed + 1
      BY <2>2
    <3>3. PICK d \in 0..1 : d = 0
      OBVIOUS
    <3>4. [w EXCEPT !.confirmed = c, !.recovered = d, !.failed = f] \in WorkRows
      <4>. HIDE DEF w
      <4>. QED
        BY <1>1, WorkCollected
    <3>. QED
      BY <3>1, <3>2, <3>3, <3>4
  <2>. QED
    BY <1>1, <2>3 DEF ReceiptRows
<1>3. RowInv(n, r2, w2)
  BY <1>1, StageEndIs, ModelBaseIs
     DEF Collect, Stands, RowInv, SeatInv, Seats, ReceiptRows, WorkRows, Going, InFlight
<1>4. receipts' = [receipts EXCEPT ![n] = r2] /\ work' = [work EXCEPT ![n] = w2]
  <2>1. receipts' = [receipts EXCEPT ![n] = r2]
    BY <1>1 DEF Collect, FundedInv, SpendTypes
  <2>. QED
    BY <2>1 DEF Collect
<1>5. host' = [host EXCEPT ![h] = [host[h] EXCEPT !.place = "running"]]
  BY DEF Collect, Moves
<1>6. /\ host' \in [Hosts -> Seats]
      /\ \A g \in Hosts : \/ host'[g] = host[g] \/ host'[g].place = "idle"
                           \/ /\ host'[g].version <= approved
                              /\ SeatInv(host'[g], receipts'[host'[g].version])
  <2>1. [host[h] EXCEPT !.place = "running"] \in Seats
    BY <1>1, RowsAtRest DEF Seats
  <2>2. host' \in [Hosts -> Seats] /\ \A g \in Hosts : g # h => host'[g] = host[g]
    BY <1>5, <2>1 DEF FundedInv, SpendTypes
  <2>3. host'[h] = [host[h] EXCEPT !.place = "running"]
    BY <1>5 DEF FundedInv, SpendTypes
  <2>4. receipts'[n] = r2
    BY <1>1, <1>4 DEF FundedInv, SpendTypes
  <2>5. host'[h].version = n /\ SeatInv(host'[h], r2)
    BY <1>1, StageEndIs, ModelBaseIs, <2>3
       DEF Collect, Stands, SeatInv, Seats, RowInv, ReceiptRows, WorkRows, Going, InFlight
  <2>. QED
    BY <1>1, <2>2, <2>4, <2>5
<1>7. /\ approved' = approved /\ released' = released /\ batch' = batch /\ stock' = stock
      /\ qualified' \subseteq Qualifications /\ billed' \in [Attempts -> Nat]
  BY DEF Collect, journalVars, batchVars, FundedInv, SpendTypes
<1>. HIDE DEF n, r, w, r2, w2
<1>. QED
  BY <1>1, <1>2, <1>3, <1>4, <1>6, <1>7, FundedRow DEF r

(* A finished attempt keeps its rows.                                       *)
LEMMA FundedFinish ==
    ASSUME FundedInv, NEW h \in Hosts, Finish(h)
    PROVE  FundedInv'
<1>. DEFINE n == host[h].version
            r == receipts[n]
            w == work[n]
            r2 == r
            w2 == [w EXCEPT !.status = "complete"]
<1>1. /\ n \in Attempts /\ n \in 0..13 /\ n <= approved
      /\ r \in ReceiptRows /\ w \in WorkRows /\ RowInv(n, r, w)
      /\ host[h] \in Seats /\ SeatInv(host[h], r)
  BY AtSeat DEF Finish, Stands, FundedInv, SpendTypes
<1>2. r2 \in ReceiptRows /\ w2 \in WorkRows /\ r2.model >= r.model /\ r2.overhead >= r.overhead
  BY <1>1, StageEndIs, ModelBaseIs
     DEF Finish, Stands, RowInv, SeatInv, Seats, ReceiptRows, WorkRows, Going, InFlight
<1>3. RowInv(n, r2, w2)
  BY <1>1, StageEndIs, ModelBaseIs
     DEF Finish, Stands, RowInv, SeatInv, Seats, ReceiptRows, WorkRows, Going, InFlight
<1>4. receipts' = [receipts EXCEPT ![n] = r2] /\ work' = [work EXCEPT ![n] = w2]
  BY <1>1 DEF Finish, journalVars, FundedInv, SpendTypes
<1>5. host' = [host EXCEPT ![h] = AtRest]
  BY DEF Finish, Moves
<1>6. /\ host' \in [Hosts -> Seats]
      /\ \A g \in Hosts : \/ host'[g] = host[g] \/ host'[g].place = "idle"
                           \/ /\ host'[g].version <= approved
                              /\ SeatInv(host'[g], receipts'[host'[g].version])
  <2>1. AtRest \in Seats
    BY <1>1, RowsAtRest DEF Seats
  <2>2. host' \in [Hosts -> Seats] /\ \A g \in Hosts : g # h => host'[g] = host[g]
    BY <1>5, <2>1 DEF FundedInv, SpendTypes
  <2>3. host'[h] = AtRest
    BY <1>5 DEF FundedInv, SpendTypes
  <2>4. receipts'[n] = r2
    BY <1>1, <1>4 DEF FundedInv, SpendTypes
  <2>5. host'[h].place = "idle"
    BY <2>3 DEF AtRest
  <2>. QED
    BY <2>2, <2>5
<1>7. /\ approved' = approved /\ released' = released /\ batch' = batch /\ stock' = stock
      /\ qualified' \subseteq Qualifications /\ billed' \in [Attempts -> Nat]
  BY DEF Finish, journalVars, batchVars, FundedInv, SpendTypes
<1>. HIDE DEF n, r, w, r2, w2
<1>. QED
  BY <1>1, <1>2, <1>3, <1>4, <1>6, <1>7, FundedRow DEF r

(* Ending an attempt changes three fields of its work and leaves the        *)
(* others.                                                                  *)
LEMMA WorkEnded ==
    ASSUME NEW w \in WorkRows, NEW s \in {"open", "aborted", "stopped", "complete"},
           NEW f \in BOOLEAN, NEW c \in Nat
    PROVE  [w EXCEPT !.status = s, !.failed = f, !.charged = c] \in WorkRows
BY DEF WorkRows

(* An abort charges model calls only to an attempt that has paid for its    *)
(* model.                                                                   *)
LEMMA FundedAbortAttempt ==
    ASSUME FundedInv, NEW h \in Hosts, AbortAttempt(h)
    PROVE  FundedInv'
<1>. DEFINE n == host[h].version
            r == receipts[n]
            w == work[n]
<1>1. /\ n \in Attempts /\ n \in 0..13 /\ n <= approved
      /\ r \in ReceiptRows /\ w \in WorkRows /\ RowInv(n, r, w)
      /\ SeatInv(host[h], r)
  BY AtSeat DEF AbortAttempt
<1>2. PICK c, b : /\ c = 0 \/ (n <= 10 /\ c \in Charges[n])
                  /\ b \in Bills[n]
                  /\ work' = [work EXCEPT ![n] =
                        [w EXCEPT !.status = IF n <= 10 THEN "aborted" ELSE "stopped",
                                  !.failed = @ /\ n >= 11, !.charged = c]]
                  /\ billed' = [billed EXCEPT ![n] = b]
  <2>. DEFINE agents == n <= 10 /\ w.confirmed > 0 /\ ~(w.failed /\ w.confirmed = 1)
  <2>1. PICK c \in (IF agents THEN Charges[n] ELSE {0}),
             b \in Bills[n] :
                  /\ work' = [work EXCEPT ![n] =
                        [w EXCEPT !.status = IF n <= 10 THEN "aborted" ELSE "stopped",
                                  !.failed = @ /\ n >= 11, !.charged = c]]
                  /\ billed' = [billed EXCEPT ![n] = b]
    BY DEF AbortAttempt
  <2>2. c = 0 \/ (n <= 10 /\ c \in Charges[n])
    BY <2>1
  <2>. QED
    BY <2>1, <2>2
<1>. DEFINE w2 == [w EXCEPT !.status = IF n <= 10 THEN "aborted" ELSE "stopped",
                            !.failed = @ /\ n >= 11, !.charged = c]
<1>3. c \in Nat /\ b \in Nat
  BY <1>1, <1>2, ModelBaseIs, SpendAssumption
<1>4. r.overhead = 1
  BY <1>1 DEF AbortAttempt, SeatInv
<1>5. w2 \in WorkRows /\ RowInv(n, r, w2)
  <2>1. PICK s \in {"open", "aborted", "stopped", "complete"} :
            s = IF n <= 10 THEN "aborted" ELSE "stopped"
    OBVIOUS
  <2>2. PICK f \in BOOLEAN : f = (w.failed /\ n >= 11)
    OBVIOUS
  <2>3. w2 = [w EXCEPT !.status = s, !.failed = f, !.charged = c]
    BY <2>1, <2>2
  <2>4. w \in WorkRows
    BY <1>1
  <2>5. /\ w2 \in WorkRows /\ w2.charged = c /\ w2.status = s /\ w2.dispatched = w.dispatched
        /\ w2.confirmed = w.confirmed /\ w2.recovered = w.recovered
    <3>. HIDE DEF w, w2
    <3>1. [w EXCEPT !.status = s, !.failed = f, !.charged = c] \in WorkRows
      BY <1>3, <2>4, WorkEnded
    <3>2. w2 \in WorkRows
      BY <2>3, <3>1
    <3>3. w2.charged = c /\ w2.status = s
      BY <2>3, <2>4 DEF WorkRows
    <3>4. w2.dispatched = w.dispatched /\ w2.confirmed = w.confirmed /\ w2.recovered = w.recovered
      BY <2>3, <2>4 DEF WorkRows
    <3>. QED
      BY <3>2, <3>3, <3>4
  <2>6. w.status \in {"open", "stopped"} /\ r.probe \in 0..1 /\ r.model \in 0..1
    BY <1>1 DEF AbortAttempt, ReceiptRows
  <2>. HIDE DEF w, w2, r, n
  <2>. QED
    BY <1>1, <1>2, <1>3, <1>4, <2>1, <2>5, <2>6, ModelBaseIs DEF RowInv
<1>6. receipts' = [receipts EXCEPT ![n] = r]
  BY <1>1 DEF AbortAttempt, FundedInv, SpendTypes
<1>7. host' \in [Hosts -> Seats] /\ \A g \in Hosts : host'[g] = host[g] \/ host'[g].place = "idle"
  <2>1. host' = [host EXCEPT ![h] = AtRest]
    BY DEF AbortAttempt
  <2>. QED
    BY <2>1, RowsAtRest DEF FundedInv, SpendTypes, AtRest
<1>8. /\ approved' = approved /\ released' = released /\ batch' = batch /\ stock' = stock
      /\ qualified' \subseteq Qualifications /\ billed' \in [Attempts -> Nat]
  BY <1>2, <1>3 DEF AbortAttempt, batchVars, FundedInv, SpendTypes
<1>9. r.model >= receipts[n].model /\ r.overhead >= receipts[n].overhead
  BY <1>1 DEF ReceiptRows
<1>10. work' = [work EXCEPT ![n] = w2]
  BY <1>2
<1>. HIDE DEF n, r, w, w2
<1>. QED
  BY <1>1, <1>5, <1>6, <1>7, <1>8, <1>9, <1>10, FundedRow

(* A step that moves one controller to a seat that suits the receipts of    *)
(* its version keeps the journal funded.                                    *)
LEMMA FundedHost ==
    ASSUME FundedInv, approved' = approved, released' = released, receipts' = receipts,
           work' = work, billed' = billed, qualified' \subseteq Qualifications,
           batch' = batch, stock' = stock,
           host' \in [Hosts -> Seats],
           \A g \in Hosts : \/ host'[g] = host[g] \/ host'[g].place = "idle"
                            \/ /\ host'[g].version <= approved
                               /\ SeatInv(host'[g], receipts[host'[g].version])
    PROVE  FundedInv'
<1>. DEFINE n == approved
            r == receipts[n]
            w == work[n]
<1>1. n \in Attempts /\ n <= approved /\ r \in ReceiptRows /\ w \in WorkRows /\ RowInv(n, r, w)
  BY SpendAssumption DEF FundedInv, SpendTypes, Attempts
<1>2. receipts' = [receipts EXCEPT ![n] = r] /\ work' = [work EXCEPT ![n] = w]
  BY <1>1 DEF FundedInv, SpendTypes
<1>3. r.model >= receipts[n].model /\ r.overhead >= receipts[n].overhead
  BY <1>1 DEF ReceiptRows
<1>4. billed' \in [Attempts -> Nat]
  BY DEF FundedInv, SpendTypes
<1>. HIDE DEF n, r, w
<1>. QED
  BY <1>1, <1>2, <1>3, <1>4, FundedRow

(* A controller starts under the newest amendment, before any admission of  *)
(* its attempt or, for a follow-up, whatever it admitted.                   *)
LEMMA FundedStart ==
    ASSUME FundedInv, NEW h \in Hosts, Start(h)
    PROVE  FundedInv'
<1>. DEFINE s == [place |-> IF approved <= 10 THEN "model" ELSE "overhead", version |-> approved]
<1>1. host' = [host EXCEPT ![h] = s] /\ s \in Seats
  BY DEF Start, Seats, FundedInv, SpendTypes
<1>2. s.version = approved /\ SeatInv(s, receipts[s.version])
  BY SpendAssumption DEF SeatInv, FundedInv, SpendTypes, Attempts
<1>. HIDE DEF s
<1>3. approved <= approved
  BY SpendAssumption DEF FundedInv, SpendTypes, Attempts
<1>4. /\ host' \in [Hosts -> Seats]
      /\ \A g \in Hosts : \/ host'[g] = host[g]
                           \/ /\ host'[g].version <= approved
                              /\ SeatInv(host'[g], receipts[host'[g].version])
  BY <1>1, <1>2, <1>3 DEF FundedInv, SpendTypes
<1>5. /\ approved' = approved /\ released' = released /\ receipts' = receipts /\ work' = work
      /\ billed' = billed /\ qualified' \subseteq Qualifications
      /\ batch' = batch /\ stock' = stock
  BY DEF Start, journalVars, batchVars, FundedInv, SpendTypes
<1>. QED
  BY <1>4, <1>5, FundedHost

(* A controller that leaves or dies changes no row.                         *)
LEMMA FundedLeave ==
    ASSUME FundedInv, NEW h \in Hosts, Refused(h) \/ HostCrash(h)
    PROVE  FundedInv'
<1>1. host' = [host EXCEPT ![h] = AtRest]
  BY DEF Refused, HostCrash
<1>2. host' \in [Hosts -> Seats] /\ \A g \in Hosts : host'[g] = host[g] \/ host'[g].place = "idle"
  BY <1>1, RowsAtRest DEF FundedInv, SpendTypes, AtRest
<1>3. /\ approved' = approved /\ released' = released /\ receipts' = receipts /\ work' = work
      /\ billed' = billed /\ qualified' \subseteq Qualifications
      /\ batch' = batch /\ stock' = stock
  BY DEF Refused, HostCrash, journalVars, batchVars, FundedInv, SpendTypes
<1>. QED
  BY <1>2, <1>3, FundedHost

(* The qualifications have an account of their own.                         *)
LEMMA FundedQualify ==
    ASSUME FundedInv, NEW q \in Qualifications, Qualify(q)
    PROVE  FundedInv'
<1>1. /\ approved' = approved /\ released' = released /\ receipts' = receipts /\ work' = work
      /\ billed' = billed /\ qualified' \subseteq Qualifications
      /\ batch' = batch /\ stock' = stock
      /\ host' \in [Hosts -> Seats] /\ \A g \in Hosts : host'[g] = host[g]
  BY DEF Qualify, batchVars, FundedInv, SpendTypes
<1>. QED
  BY <1>1, FundedHost

(* A probe is paid after the abort of its attempt.                          *)
LEMMA FundedReserveProbe ==
    ASSUME FundedInv, NEW n \in Attempts, ReserveProbe(n)
    PROVE  FundedInv'
<1>. DEFINE r == receipts[n]
            w == work[n]
            r2 == [r EXCEPT !.probe = 1]
<1>1. n <= approved /\ r \in ReceiptRows /\ w \in WorkRows /\ RowInv(n, r, w)
  BY SpendAssumption DEF ReserveProbe, CurrentAttempt, FundedInv, SpendTypes, Attempts
<1>2. r2 \in ReceiptRows /\ r2.model >= r.model /\ r2.overhead >= r.overhead
  BY <1>1 DEF ReceiptRows
<1>3. RowInv(n, r2, w)
  BY <1>1 DEF ReserveProbe, RowInv, ReceiptRows
<1>4. receipts' = [receipts EXCEPT ![n] = r2] /\ work' = [work EXCEPT ![n] = w]
  BY <1>1 DEF ReserveProbe, FundedInv, SpendTypes
<1>5. /\ approved' = approved /\ released' = released /\ batch' = batch /\ stock' = stock
      /\ qualified' \subseteq Qualifications /\ billed' \in [Attempts -> Nat]
      /\ host' \in [Hosts -> Seats] /\ \A g \in Hosts : host'[g] = host[g]
  BY DEF ReserveProbe, batchVars, FundedInv, SpendTypes
<1>. HIDE DEF r, w, r2
<1>. QED
  BY <1>1, <1>2, <1>3, <1>4, <1>5, FundedRow DEF r

(* A call recovered after an abort was in flight then.                      *)
LEMMA FundedRecover ==
    ASSUME FundedInv, NEW n \in Attempts, Recover(n)
    PROVE  FundedInv'
<1>. DEFINE r == receipts[n]
            w == work[n]
            w2 == [w EXCEPT !.recovered = 1]
<1>1. r \in ReceiptRows /\ w \in WorkRows /\ RowInv(n, r, w)
  BY DEF FundedInv, SpendTypes
<1>2. n <= approved
  BY SpendAssumption DEF Recover, NoWork, FundedInv, SpendTypes, Attempts
<1>3. w2 \in WorkRows
  BY <1>1 DEF WorkRows
<1>4. RowInv(n, r, w2)
  BY <1>1 DEF Recover, InFlight, RowInv, WorkRows
<1>5. receipts' = [receipts EXCEPT ![n] = r] /\ work' = [work EXCEPT ![n] = w2]
  BY <1>1 DEF Recover, FundedInv, SpendTypes
<1>6. /\ approved' = approved /\ released' = released /\ batch' = batch /\ stock' = stock
      /\ qualified' \subseteq Qualifications /\ billed' \in [Attempts -> Nat]
      /\ host' \in [Hosts -> Seats] /\ \A g \in Hosts : host'[g] = host[g]
  BY DEF Recover, batchVars, FundedInv, SpendTypes
<1>7. r.model >= receipts[n].model /\ r.overhead >= receipts[n].overhead
  BY <1>1 DEF ReceiptRows
<1>. HIDE DEF r, w, w2
<1>. QED
  BY <1>1, <1>2, <1>3, <1>4, <1>5, <1>6, <1>7, FundedRow

(* validate_retry(): which amendment a version has.                         *)
LEMMA AmendmentIs ==
    ASSUME NEW b
    PROVE  /\ Amendment(1, b) = Retry /\ Amendment(2, b) = ReferenceFailure(b)
           /\ Amendment(3, b) = PublicFailure(b) /\ Amendment(4, b) = FeedbackFailure(b)
           /\ Amendment(5, b) = CollectorFailure(b) /\ Amendment(6, b) = SeriesFailure(b)
           /\ Amendment(7, b) = ConnectedQuality(b) /\ Amendment(8, b) = ReferenceProbe
           /\ Amendment(9, b) = StagingBundle(b) /\ Amendment(10, b) = EnvironmentRecovery(b)
           /\ Amendment(11, b) = EvaluationSettlement(b) /\ Amendment(12, b) = PerformanceExtension
           /\ Amendment(13, b) = PerformanceSettlement(b)
BY DEF Amendment

(* An amendment changes what is given back, and no row of an attempt.       *)
LEMMA FundedApprove ==
    ASSUME FundedInv, released' \in [Accounts -> [modal : Int, openrouter : Int]], Approve
    PROVE  FundedInv'
<1>1. approved \in Nat /\ approved' = approved + 1 /\ approved' \in Attempts
  BY SpendAssumption DEF Approve, FundedInv, SpendTypes, Attempts
<1>2. /\ qualified' = qualified /\ receipts' = receipts /\ work' = work /\ billed' = billed
      /\ host' = host /\ batch' = batch /\ stock' = stock
  BY DEF Approve, batchVars
<1>3. SpendTypes'
  BY <1>1, <1>2 DEF FundedInv, SpendTypes
<1>4. (\A n \in Attempts : RowInv(n, receipts[n], work[n]))'
  BY <1>2 DEF FundedInv, RowInv
<1>5. (\A n \in Attempts : n > approved => receipts[n] = NoReceipts /\ work[n] = NoWork)'
  <2>1. \A n \in Attempts : n > approved + 1 => n > approved
    BY <1>1, SpendAssumption DEF Attempts
  <2>. QED
    BY <1>1, <1>2, <2>1 DEF FundedInv, NoReceipts, NoWork
<1>6. (\A h \in Hosts : host[h].place # "idle" =>
          host[h].version <= approved /\ SeatInv(host[h], receipts[host[h].version]))'
  <2>1. \A h \in Hosts : host[h].version \in Nat
    BY SpendAssumption DEF FundedInv, SpendTypes, Seats, Attempts
  <2>2. \A h \in Hosts : host[h].place # "idle" =>
          host[h].version <= approved + 1 /\ SeatInv(host[h], receipts[host[h].version])
    BY <1>1, <2>1 DEF FundedInv
  <2>. QED
    BY <1>1, <1>2, <2>2 DEF SeatInv
<1>7. (\A b \in 1..Len(Batches) : stock[b].dispatched > 0 => batch[b] = "admitted")'
  BY <1>2 DEF FundedInv
<1>. QED
  BY <1>3, <1>4, <1>5, <1>6, <1>7 DEF FundedInv

(* A step that changes one batch and its stock control keeps the journal    *)
(* funded if it dispatches only from an admitted batch.                     *)
LEMMA FundedBatch ==
    ASSUME FundedInv, UNCHANGED <<journalVars, host>>,
           batch' \in [1..Len(Batches) -> {"none", "approved", "admitted"}],
           stock' \in [1..Len(Batches) -> [claimed : BOOLEAN, dispatched : Nat, done : Nat]],
           \A b \in 1..Len(Batches) : stock'[b].dispatched > 0 => batch'[b] = "admitted"
    PROVE  FundedInv'
<1>1. UNCHANGED <<approved, released, qualified, receipts, work, billed, host>>
  BY DEF journalVars
<1>2. SpendTypes'
  BY <1>1 DEF FundedInv, SpendTypes
<1>3. (/\ \A n \in Attempts : RowInv(n, receipts[n], work[n])
       /\ \A n \in Attempts : n > approved => receipts[n] = NoReceipts /\ work[n] = NoWork)'
  BY <1>1 DEF FundedInv, RowInv, NoReceipts, NoWork
<1>4. (\A h \in Hosts : host[h].place # "idle" =>
          host[h].version <= approved /\ SeatInv(host[h], receipts[host[h].version]))'
  BY <1>1 DEF FundedInv, SeatInv
<1>. QED
  BY <1>2, <1>3, <1>4 DEF FundedInv

(* Changing one field of the stock control of a batch.                      *)
LEMMA StockRow ==
    ASSUME NEW I, NEW s \in [I -> [claimed : BOOLEAN, dispatched : Nat, done : Nat]], NEW b \in I
    PROVE  /\ [s EXCEPT ![b].dispatched = @ + 1] \in [I -> [claimed : BOOLEAN, dispatched : Nat, done : Nat]]
           /\ [s EXCEPT ![b].done = @ + 1] \in [I -> [claimed : BOOLEAN, dispatched : Nat, done : Nat]]
<1>. DEFINE R == [claimed : BOOLEAN, dispatched : Nat, done : Nat]
<1>1. s[b] \in R /\ s[b].dispatched + 1 \in Nat /\ s[b].done + 1 \in Nat
  OBVIOUS
<1>2. \A k \in Nat : [s[b] EXCEPT !.dispatched = k] \in R /\ [s[b] EXCEPT !.done = k] \in R
  BY <1>1
<1>3. PICK d \in Nat, e \in Nat : d = s[b].dispatched + 1 /\ e = s[b].done + 1
  BY <1>1
<1>4. /\ [s EXCEPT ![b] = [s[b] EXCEPT !.dispatched = d]] \in [I -> R]
      /\ [s EXCEPT ![b] = [s[b] EXCEPT !.done = e]] \in [I -> R]
  BY <1>2
<1>. QED
  BY <1>3, <1>4

(* Approval, admission and stock control of a batch.                        *)
LEMMA FundedBatches ==
    ASSUME FundedInv,
           \/ PinBatch \/ UNCHANGED spendVars
           \/ \E b \in DOMAIN batch : RetainApproval(b) \/ RetainAdmission(b) \/ StockStep(b)
    PROVE  FundedInv'
<1>. USE DEF FundedInv, SpendTypes
<1>1. CASE PinBatch \/ UNCHANGED spendVars
  BY <1>1, FundedBatch DEF PinBatch, spendVars, batchVars
<1>2. ASSUME NEW b \in DOMAIN batch, RetainApproval(b) PROVE FundedInv'
  <2>0. b \in 1..Len(Batches) /\ batch[b] = "none"
    BY <1>2 DEF RetainApproval
  <2>1. b \in 1..Len(Batches) /\ stock[b].dispatched = 0
    <3>1. stock[b].dispatched \in Nat
      BY <2>0
    <3>. QED
      BY <2>0, <3>1
  <2>2. batch' = [batch EXCEPT ![b] = "approved"] /\ stock' = [stock EXCEPT ![b].claimed = TRUE]
    BY <1>2 DEF RetainApproval
  <2>3. /\ batch' \in [1..Len(Batches) -> {"none", "approved", "admitted"}]
        /\ stock' \in [1..Len(Batches) -> [claimed : BOOLEAN, dispatched : Nat, done : Nat]]
    BY <2>1, <2>2
  <2>4. \A c \in 1..Len(Batches) : stock'[c].dispatched > 0 => batch'[c] = "admitted"
    BY <2>1, <2>2
  <2>. QED
    BY <1>2, <2>3, <2>4, FundedBatch DEF RetainApproval
<1>3. ASSUME NEW b \in DOMAIN batch, RetainAdmission(b) PROVE FundedInv'
  <2>1. batch' = [batch EXCEPT ![b] = "admitted"] /\ stock' = stock
    BY <1>3 DEF RetainAdmission
  <2>2. \A c \in 1..Len(Batches) : stock'[c].dispatched > 0 => batch'[c] = "admitted"
    BY <2>1
  <2>. QED
    BY <1>3, <2>1, <2>2, FundedBatch DEF RetainAdmission
<1>4. ASSUME NEW b \in DOMAIN batch, StockStep(b) PROVE FundedInv'
  <2>1. batch' = batch /\ batch[b] = "admitted" /\ b \in 1..Len(Batches)
    BY <1>4 DEF StockStep
  <2>2. stock' \in [1..Len(Batches) -> [claimed : BOOLEAN, dispatched : Nat, done : Nat]]
    <3>1. stock \in [1..Len(Batches) -> [claimed : BOOLEAN, dispatched : Nat, done : Nat]]
      OBVIOUS
    <3>2. \/ stock' = [stock EXCEPT ![b].dispatched = @ + 1]
          \/ stock' = [stock EXCEPT ![b].done = @ + 1]
      BY <1>4 DEF StockStep
    <3>3. /\ [stock EXCEPT ![b].dispatched = @ + 1]
                 \in [1..Len(Batches) -> [claimed : BOOLEAN, dispatched : Nat, done : Nat]]
          /\ [stock EXCEPT ![b].done = @ + 1]
                 \in [1..Len(Batches) -> [claimed : BOOLEAN, dispatched : Nat, done : Nat]]
      BY <2>1, <3>1, StockRow
    <3>. QED
      BY <3>2, <3>3
  <2>3. \A c \in 1..Len(Batches) : stock'[c].dispatched > 0 => batch'[c] = "admitted"
    BY <1>4, <2>1 DEF StockStep
  <2>. QED
    BY <1>4, <2>1, <2>2, <2>3, FundedBatch DEF StockStep
<1>. QED
  BY <1>1, <1>2, <1>3, <1>4
-----------------------------------------------------------------------------
(* What the attempt before each amendment must have left.                   *)
LEMMA LeftIs ==
    ASSUME NEW b
    PROVE  /\ Amendment(1, b).left = Retry.left
           /\ Amendment(2, b).left = Leaves({1}, {1}, {1}, {1}, {0}, {0})
           /\ Amendment(3, b).left = Leaves({2}, {2}, {1}, {2}, {0}, {1352})
           /\ Amendment(4, b).left = Leaves({2}, {2}, {2}, {2}, {0}, {3082})
           /\ Amendment(5, b).left = Leaves({1}, {1}, {0}, {1}, {0}, {0})
           /\ Amendment(6, b).left = Leaves({12}, {6}, {5}, {5, 6}, {0}, {5110})
           /\ Amendment(7, b).left = Leaves({12}, {7}, {6}, {7}, {0}, {4801})
           /\ Amendment(8, b).left = Leaves({1}, {1}, {0}, {0, 1}, {1}, {0})
           /\ Amendment(9, b).left = Leaves({12}, {6}, {5}, {6}, {1}, {3115})
           /\ Amendment(10, b).left = Leaves({1}, {1}, {0}, {1}, {0}, {0})
           /\ Amendment(11, b).left = Leaves({12}, {7}, {6, 7}, {7}, {0}, {4292})
           /\ Amendment(12, b).left = Leaves({6}, 0..6, 0..6, 0..6, {0}, {0})
           /\ Amendment(13, b).left = Leaves({3}, {1}, {0}, {1}, {0}, {0})
<1>2. ReferenceFailure(b).left = Leaves({1}, {1}, {1}, {1}, {0}, {0})
  BY SMT DEF ReferenceFailure
<1>3. PublicFailure(b).left = Leaves({2}, {2}, {1}, {2}, {0}, {1352})
  BY SMT DEF PublicFailure
<1>4. FeedbackFailure(b).left = Leaves({2}, {2}, {2}, {2}, {0}, {3082})
  BY SMT DEF FeedbackFailure
<1>5. CollectorFailure(b).left = Leaves({1}, {1}, {0}, {1}, {0}, {0})
  BY SMT DEF CollectorFailure
<1>6. SeriesFailure(b).left = Leaves({12}, {6}, {5}, {5, 6}, {0}, {5110})
  BY SMT DEF SeriesFailure
<1>7. ConnectedQuality(b).left = Leaves({12}, {7}, {6}, {7}, {0}, {4801})
  BY SMT DEF ConnectedQuality
<1>8. ReferenceProbe.left = Leaves({1}, {1}, {0}, {0, 1}, {1}, {0})
  BY SMT DEF ReferenceProbe
<1>9. StagingBundle(b).left = Leaves({12}, {6}, {5}, {6}, {1}, {3115})
  BY SMT DEF StagingBundle
<1>10. EnvironmentRecovery(b).left = Leaves({1}, {1}, {0}, {1}, {0}, {0})
  BY SMT DEF EnvironmentRecovery
<1>11. EvaluationSettlement(b).left = Leaves({12}, {7}, {6, 7}, {7}, {0}, {4292})
  BY SMT DEF EvaluationSettlement
<1>12. PerformanceExtension.left = Leaves({6}, 0..6, 0..6, 0..6, {0}, {0})
  BY SMT DEF PerformanceExtension
<1>13. PerformanceSettlement(b).left = Leaves({3}, {1}, {0}, {1}, {0}, {0})
  BY SMT DEF PerformanceSettlement
<1>. QED
  BY <1>2, <1>3, <1>4, <1>5, <1>6, <1>7, <1>8, <1>9, <1>10, <1>11, <1>12, <1>13,
     AmendmentIs, SMT

(* The limits each amendment sets.                                          *)
LEMMA LimitsAre ==
    ASSUME NEW b
    PROVE  /\ Amendment(1, b).limits = Limits(14000000, 3000000)
           /\ Amendment(2, b).limits = Limits(14000000, 3000000)
           /\ Amendment(3, b).limits = Limits(14000000, 3000000)
           /\ Amendment(4, b).limits = Limits(14000000, 3000000)
           /\ Amendment(5, b).limits = Limits(14000000, 3000000)
           /\ Amendment(6, b).limits = Limits(16000000, 3000000)
           /\ Amendment(7, b).limits = Limits(17000000, 3100000)
           /\ Amendment(8, b).limits = Limits(20000000, 3100000)
           /\ Amendment(9, b).limits = Limits(20000000, 3100000)
           /\ Amendment(10, b).limits = Limits(20000000, 3100000)
           /\ Amendment(11, b).limits = Limits(20000000, 3100000)
           /\ Amendment(12, b).limits = Limits(20000000, 3100000)
           /\ Amendment(13, b).limits = Limits(20000000, 3100000)
<1>1. Retry.limits = Limits(14000000, 3000000)
  BY SMT DEF Retry
<1>2. ReferenceFailure(b).limits = Limits(14000000, 3000000)
  BY SMT DEF ReferenceFailure
<1>3. PublicFailure(b).limits = Limits(14000000, 3000000)
  BY SMT DEF PublicFailure
<1>4. FeedbackFailure(b).limits = Limits(14000000, 3000000)
  BY SMT DEF FeedbackFailure
<1>5. CollectorFailure(b).limits = Limits(14000000, 3000000)
  BY SMT DEF CollectorFailure
<1>6. SeriesFailure(b).limits = Limits(16000000, 3000000)
  BY SMT DEF SeriesFailure
<1>7. ConnectedQuality(b).limits = Limits(17000000, 3100000)
  BY SMT DEF ConnectedQuality
<1>8. ReferenceProbe.limits = Limits(20000000, 3100000)
  BY SMT DEF ReferenceProbe
<1>9. StagingBundle(b).limits = Limits(20000000, 3100000)
  BY SMT DEF StagingBundle
<1>10. EnvironmentRecovery(b).limits = Limits(20000000, 3100000)
  BY SMT DEF EnvironmentRecovery
<1>11. EvaluationSettlement(b).limits = Limits(20000000, 3100000)
  BY SMT DEF EvaluationSettlement
<1>12. PerformanceExtension.limits = Limits(20000000, 3100000)
  BY SMT DEF PerformanceExtension
<1>13. PerformanceSettlement(b).limits = Limits(20000000, 3100000)
  BY SMT DEF PerformanceSettlement
<1>. QED
  BY <1>1, <1>2, <1>3, <1>4, <1>5, <1>6, <1>7, <1>8, <1>9, <1>10, <1>11, <1>12, <1>13,
     AmendmentIs, SMT

(* Which bill each amendment accepts for the attempt before it.             *)
LEMMA BillIs ==
    ASSUME NEW b, NEW x
    PROVE  /\ x \in Amendment(1, b).bill <=> x \in Nat
           /\ x \in Amendment(2, b).bill <=> x \in 1..(ComputeEach - Buffer - 1)
           /\ x \in Amendment(3, b).bill <=> x \in 1..(532160 - Buffer)
           /\ x \in Amendment(4, b).bill <=> x = 449143
           /\ x \in Amendment(5, b).bill <=> x = 209027
           /\ x \in Amendment(6, b).bill <=> x = 887087
           /\ x \in Amendment(7, b).bill <=> x = 1166176
           /\ x \in Amendment(8, b).bill <=> x \in Nat
           /\ x \in Amendment(9, b).bill <=> x = 993868
           /\ x \in Amendment(10, b).bill <=> x = 229152
           /\ x \in Amendment(11, b).bill <=> x = 1205090
           /\ x \in Amendment(12, b).bill <=> x \in Nat
           /\ x \in Amendment(13, b).bill <=> x \in 1..(PairAllowance - Buffer - 1)
<1>1. x \in Retry.bill <=> x \in Nat
  BY SMT DEF Retry
<1>2. x \in ReferenceFailure(b).bill <=> x \in 1..(ComputeEach - Buffer - 1)
  BY SMT DEF ReferenceFailure
<1>3. x \in PublicFailure(b).bill <=> x \in 1..(532160 - Buffer)
  BY SMT DEF PublicFailure
<1>4. x \in FeedbackFailure(b).bill <=> x = 449143
  BY SMT DEF FeedbackFailure
<1>5. x \in CollectorFailure(b).bill <=> x = 209027
  BY SMT DEF CollectorFailure
<1>6. x \in SeriesFailure(b).bill <=> x = 887087
  BY SMT DEF SeriesFailure
<1>7. x \in ConnectedQuality(b).bill <=> x = 1166176
  BY SMT DEF ConnectedQuality
<1>8. x \in ReferenceProbe.bill <=> x \in Nat
  BY SMT DEF ReferenceProbe
<1>9. x \in StagingBundle(b).bill <=> x = 993868
  BY SMT DEF StagingBundle
<1>10. x \in EnvironmentRecovery(b).bill <=> x = 229152
  BY SMT DEF EnvironmentRecovery
<1>11. x \in EvaluationSettlement(b).bill <=> x = 1205090
  BY SMT DEF EvaluationSettlement
<1>12. x \in PerformanceExtension.bill <=> x \in Nat
  BY SMT DEF PerformanceExtension
<1>13. x \in PerformanceSettlement(b).bill <=> x \in 1..(PairAllowance - Buffer - 1)
  BY SMT DEF PerformanceSettlement
<1>. QED
  BY <1>1, <1>2, <1>3, <1>4, <1>5, <1>6, <1>7, <1>8, <1>9, <1>10, <1>11, <1>12, <1>13,
     AmendmentIs, SMT

(* What each amendment gives back of every account.                         *)
LEMMA ReleasesAre ==
    ASSUME NEW b, NEW a \in Accounts
    PROVE  /\ Amendment(1, b).releases[a] = IF a = 0 THEN Limits(0, ModelBase) ELSE Limits(0, 0)
           /\ Amendment(2, b).releases[a] =
                  IF a = 1 THEN Limits(OneAllowance - (b[1] + Buffer), ModelBase)
                  ELSE Limits(0, 0)
           /\ Amendment(3, b).releases[a] =
                  IF a = 0 THEN Limits(ComputeEach - b[0] - Buffer, 0)
                  ELSE IF a = 2 THEN Limits(2000000, ModelBase - 1352 - SmallBuffer)
                  ELSE Limits(0, 0)
           /\ Amendment(4, b).releases[a] =
                  IF a = 3 THEN Limits(OneAllowance + ComputeEach - b[3] - Buffer,
                                       ModelBase - 3082 - SmallBuffer)
                  ELSE IF a = Setup THEN Limits(500000, 0)
                  ELSE Limits(0, 0)
           /\ Amendment(5, b).releases[a] =
                  IF a = 4 THEN Limits(OneAllowance - b[4] - Buffer - SmallBuffer,
                                       ModelBase - SmallBuffer)
                  ELSE IF a = Setup THEN Limits(500000, 0)
                  ELSE Limits(0, 0)
           /\ Amendment(6, b).releases[a] =
                  IF a = 5 THEN Limits(FullAllowance - b[5] - Buffer - ComputeEach,
                                       ModelBase - 5110 - SmallBuffer)
                  ELSE Limits(0, 0)
           /\ Amendment(7, b).releases[a] =
                  IF a = 6 THEN Limits(FullAllowance - b[6] - 48 - Buffer,
                                       ModelBase - 4801 - SmallBuffer)
                  ELSE Limits(0, 0)
           /\ Amendment(8, b).releases[a] = IF a = 7 THEN Limits(0, ModelBase) ELSE Limits(0, 0)
           /\ Amendment(9, b).releases[a] =
                  IF a = 8 THEN Limits(FullAllowance - b[8] - Buffer,
                                       ModelBase - 3115 - SmallBuffer)
                  ELSE Limits(0, 0)
           /\ Amendment(10, b).releases[a] =
                  IF a = 7 THEN Limits(OneAllowance - b[7] - Buffer, 0)
                  ELSE IF a = 9 THEN Limits(OneAllowance - b[9] - Buffer, ModelBase)
                  ELSE Limits(0, 0)
           /\ Amendment(11, b).releases[a] =
                  IF a = 10 THEN Limits(FullAllowance - b[10] - Buffer, ModelBase - 4292)
                  ELSE Limits(0, 0)
           /\ Amendment(12, b).releases[a] = Limits(0, 0)
           /\ Amendment(13, b).releases[a] =
                  IF a = 12 THEN Limits(PairAllowance - (b[12] + Buffer), 0)
                  ELSE Limits(0, 0)
<1>. USE DEF NothingFreed, Accounts, Setup
<1>1. Retry.releases[a] = IF a = 0 THEN Limits(0, ModelBase) ELSE Limits(0, 0)
  BY SMT DEF Retry
<1>2. ReferenceFailure(b).releases[a] =
          IF a = 1 THEN Limits(OneAllowance - (b[1] + Buffer), ModelBase)
          ELSE Limits(0, 0)
  BY SMT DEF ReferenceFailure
<1>3. PublicFailure(b).releases[a] =
          IF a = 0 THEN Limits(ComputeEach - b[0] - Buffer, 0)
          ELSE IF a = 2 THEN Limits(2000000, ModelBase - 1352 - SmallBuffer)
          ELSE Limits(0, 0)
  BY SMT DEF PublicFailure
<1>4. FeedbackFailure(b).releases[a] =
          IF a = 3 THEN Limits(OneAllowance + ComputeEach - b[3] - Buffer,
                               ModelBase - 3082 - SmallBuffer)
          ELSE IF a = Setup THEN Limits(500000, 0)
          ELSE Limits(0, 0)
  BY SMT DEF FeedbackFailure
<1>5. CollectorFailure(b).releases[a] =
          IF a = 4 THEN Limits(OneAllowance - b[4] - Buffer - SmallBuffer, ModelBase - SmallBuffer)
          ELSE IF a = Setup THEN Limits(500000, 0)
          ELSE Limits(0, 0)
  BY SMT DEF CollectorFailure
<1>6. SeriesFailure(b).releases[a] =
          IF a = 5 THEN Limits(FullAllowance - b[5] - Buffer - ComputeEach,
                               ModelBase - 5110 - SmallBuffer)
          ELSE Limits(0, 0)
  BY SMT DEF SeriesFailure
<1>7. ConnectedQuality(b).releases[a] =
          IF a = 6 THEN Limits(FullAllowance - b[6] - 48 - Buffer, ModelBase - 4801 - SmallBuffer)
          ELSE Limits(0, 0)
  BY SMT DEF ConnectedQuality
<1>8. ReferenceProbe.releases[a] = IF a = 7 THEN Limits(0, ModelBase) ELSE Limits(0, 0)
  BY SMT DEF ReferenceProbe
<1>9. StagingBundle(b).releases[a] =
          IF a = 8 THEN Limits(FullAllowance - b[8] - Buffer, ModelBase - 3115 - SmallBuffer)
          ELSE Limits(0, 0)
  BY SMT DEF StagingBundle
<1>10. EnvironmentRecovery(b).releases[a] =
          IF a = 7 THEN Limits(OneAllowance - b[7] - Buffer, 0)
          ELSE IF a = 9 THEN Limits(OneAllowance - b[9] - Buffer, ModelBase)
          ELSE Limits(0, 0)
  BY SMT DEF EnvironmentRecovery
<1>11. EvaluationSettlement(b).releases[a] =
          IF a = 10 THEN Limits(FullAllowance - b[10] - Buffer, ModelBase - 4292)
          ELSE Limits(0, 0)
  BY SMT DEF EvaluationSettlement
<1>12. PerformanceExtension.releases[a] = Limits(0, 0)
  BY SMT DEF PerformanceExtension
<1>13. PerformanceSettlement(b).releases[a] =
          IF a = 12 THEN Limits(PairAllowance - (b[12] + Buffer), 0)
          ELSE Limits(0, 0)
  BY SMT DEF PerformanceSettlement
<1>. QED
  BY <1>1, <1>2, <1>3, <1>4, <1>5, <1>6, <1>7, <1>8, <1>9, <1>10, <1>11, <1>12, <1>13,
     AmendmentIs, SMT

(* The allowances are natural numbers; their values are hidden.             *)
LEMMA AllowancesAre ==
    /\ ModelBase \in Nat /\ OverheadBase \in Nat /\ ComputeEach \in Nat /\ PairEach \in Nat
    /\ ProbeEach \in Nat /\ Buffer \in Nat /\ SmallBuffer \in Nat
    /\ FullAllowance \in Nat /\ OneAllowance \in Nat /\ PairAllowance \in Nat
BY SMT
   DEF ModelBase, OverheadBase, ComputeEach, PairEach, ProbeEach, Buffer, SmallBuffer,
   FullAllowance, OneAllowance, PairAllowance

(* Whatever the bills, an amendment gives back integers.                    *)
LEMMA ReleasesTyped ==
    ASSUME NEW b, NEW m \in 1..13, \A k \in 0..m : b[k] \in Int, NEW a \in Accounts
    PROVE  /\ Amendment(m, b).releases[a].modal \in Int
           /\ Amendment(m, b).releases[a].openrouter \in Int
<1>. DEFINE Typed(f) == f.modal \in Int /\ f.openrouter \in Int
<1>. USE AllowancesAre
<1>1. m = 1 => Typed(Amendment(m, b).releases[a])
  <2>1. Amendment(1, b).releases[a] = IF a = 0 THEN Limits(0, ModelBase) ELSE Limits(0, 0)
    BY ReleasesAre, SMT
  <2>. QED
    BY <2>1, SMT DEF Limits
<1>2. m = 2 => Typed(Amendment(m, b).releases[a])
  <2>1. Amendment(2, b).releases[a] =
            IF a = 1 THEN Limits(OneAllowance - (b[1] + Buffer), ModelBase)
            ELSE Limits(0, 0)
    BY ReleasesAre, SMT
  <2>. QED
    BY <2>1, SMT DEF Limits
<1>3. m = 3 => Typed(Amendment(m, b).releases[a])
  <2>1. Amendment(3, b).releases[a] =
            IF a = 0 THEN Limits(ComputeEach - b[0] - Buffer, 0)
            ELSE IF a = 2 THEN Limits(2000000, ModelBase - 1352 - SmallBuffer)
            ELSE Limits(0, 0)
    BY ReleasesAre, SMT
  <2>. QED
    BY <2>1, SMT DEF Limits
<1>4. m = 4 => Typed(Amendment(m, b).releases[a])
  <2>1. Amendment(4, b).releases[a] =
            IF a = 3 THEN Limits(OneAllowance + ComputeEach - b[3] - Buffer,
                                 ModelBase - 3082 - SmallBuffer)
            ELSE IF a = Setup THEN Limits(500000, 0)
            ELSE Limits(0, 0)
    BY ReleasesAre, SMT
  <2>. QED
    BY <2>1, SMT DEF Limits
<1>5. m = 5 => Typed(Amendment(m, b).releases[a])
  <2>1. Amendment(5, b).releases[a] =
            IF a = 4 THEN Limits(OneAllowance - b[4] - Buffer - SmallBuffer,
                                 ModelBase - SmallBuffer)
            ELSE IF a = Setup THEN Limits(500000, 0)
            ELSE Limits(0, 0)
    BY ReleasesAre, SMT
  <2>. QED
    BY <2>1, SMT DEF Limits
<1>6. m = 6 => Typed(Amendment(m, b).releases[a])
  <2>1. Amendment(6, b).releases[a] =
            IF a = 5 THEN Limits(FullAllowance - b[5] - Buffer - ComputeEach,
                                 ModelBase - 5110 - SmallBuffer)
            ELSE Limits(0, 0)
    BY ReleasesAre, SMT
  <2>. QED
    BY <2>1, SMT DEF Limits
<1>7. m = 7 => Typed(Amendment(m, b).releases[a])
  <2>1. Amendment(7, b).releases[a] =
            IF a = 6 THEN Limits(FullAllowance - b[6] - 48 - Buffer, ModelBase - 4801 - SmallBuffer)
            ELSE Limits(0, 0)
    BY ReleasesAre, SMT
  <2>. QED
    BY <2>1, SMT DEF Limits
<1>8. m = 8 => Typed(Amendment(m, b).releases[a])
  <2>1. Amendment(8, b).releases[a] = IF a = 7 THEN Limits(0, ModelBase) ELSE Limits(0, 0)
    BY ReleasesAre, SMT
  <2>. QED
    BY <2>1, SMT DEF Limits
<1>9. m = 9 => Typed(Amendment(m, b).releases[a])
  <2>1. Amendment(9, b).releases[a] =
            IF a = 8 THEN Limits(FullAllowance - b[8] - Buffer, ModelBase - 3115 - SmallBuffer)
            ELSE Limits(0, 0)
    BY ReleasesAre, SMT
  <2>. QED
    BY <2>1, SMT DEF Limits
<1>10. m = 10 => Typed(Amendment(m, b).releases[a])
  <2>1. Amendment(10, b).releases[a] =
            IF a = 7 THEN Limits(OneAllowance - b[7] - Buffer, 0)
            ELSE IF a = 9 THEN Limits(OneAllowance - b[9] - Buffer, ModelBase)
            ELSE Limits(0, 0)
    BY ReleasesAre, SMT
  <2>. QED
    BY <2>1, SMT DEF Limits
<1>11. m = 11 => Typed(Amendment(m, b).releases[a])
  <2>1. Amendment(11, b).releases[a] =
            IF a = 10 THEN Limits(FullAllowance - b[10] - Buffer, ModelBase - 4292)
            ELSE Limits(0, 0)
    BY ReleasesAre, SMT
  <2>. QED
    BY <2>1, SMT DEF Limits
<1>12. m = 12 => Typed(Amendment(m, b).releases[a])
  <2>1. Amendment(12, b).releases[a] = Limits(0, 0)
    BY ReleasesAre, SMT
  <2>. QED
    BY <2>1, SMT DEF Limits
<1>13. m = 13 => Typed(Amendment(m, b).releases[a])
  <2>1. Amendment(13, b).releases[a] =
            IF a = 12 THEN Limits(PairAllowance - (b[12] + Buffer), 0)
            ELSE Limits(0, 0)
    BY ReleasesAre, SMT
  <2>. QED
    BY <2>1, SMT DEF Limits
<1>. QED
  BY <1>1, <1>2, <1>3, <1>4, <1>5, <1>6, <1>7, <1>8, <1>9, <1>10, <1>11, <1>12, <1>13, SMT

(* What is given back once the next amendment is retained.                  *)
LEMMA FreedIs ==
    ASSUME FundedInv, Approve
    PROVE  LET n == approved + 1
           IN  /\ approved' = n /\ n \in Attempts /\ n \in 1..13
               /\ released' = [a \in Accounts |->
                      Limits(released[a].modal + Amendment(n, billed).releases[a].modal,
                             released[a].openrouter + Amendment(n, billed).releases[a].openrouter)]
               /\ \A a \in Accounts : /\ Amendment(n, billed).releases[a].modal \in Int
                                      /\ Amendment(n, billed).releases[a].openrouter \in Int
<1>. DEFINE n == approved + 1
<1>1. /\ approved' = n /\ n \in Attempts /\ n \in 1..13
      /\ released' = [a \in Accounts |->
                      Limits(released[a].modal + Amendment(n, billed).releases[a].modal,
                             released[a].openrouter + Amendment(n, billed).releases[a].openrouter)]
  BY SpendAssumption DEF Approve, FundedInv, SpendTypes, Attempts
<1>2. \A k \in 0..n : billed[k] \in Int
  BY <1>1, SpendAssumption DEF FundedInv, SpendTypes, Attempts
<1>3. ASSUME NEW a \in Accounts
      PROVE  /\ Amendment(n, billed).releases[a].modal \in Int
             /\ Amendment(n, billed).releases[a].openrouter \in Int
  BY <1>1, <1>2, ReleasesTyped
<1>. HIDE DEF n
<1>4. QED
  BY <1>1, <1>3 DEF n

(* Every step of the journal keeps it funded.                               *)
LEMMA FundedStep == FundedInv /\ [SpendNext]_spendVars => FundedInv'
<1>. SUFFICES ASSUME FundedInv, [SpendNext]_spendVars PROVE FundedInv'
  OBVIOUS
<1>1. ASSUME NEW q \in Qualifications, Qualify(q) PROVE FundedInv'
  BY <1>1, FundedQualify
<1>2. ASSUME NEW h \in Hosts, Start(h) PROVE FundedInv'
  BY <1>2, FundedStart
<1>3. ASSUME NEW h \in Hosts, ReserveModel(h) PROVE FundedInv'
  BY <1>3, FundedReserveModel
<1>4. ASSUME NEW h \in Hosts, ReserveOverhead(h) PROVE FundedInv'
  BY <1>4, FundedReserveOverhead
<1>5. ASSUME NEW h \in Hosts, ReserveCompute(h) PROVE FundedInv'
  BY <1>5, FundedReserveCompute
<1>6. ASSUME NEW h \in Hosts, Readmit(h) PROVE FundedInv'
  BY <1>6, FundedReadmit
<1>7. ASSUME NEW h \in Hosts, Dispatch(h) PROVE FundedInv'
  BY <1>7, FundedDispatch
<1>8. ASSUME NEW h \in Hosts, Finish(h) PROVE FundedInv'
  BY <1>8, FundedFinish
<1>9. ASSUME NEW h \in Hosts, AbortAttempt(h) PROVE FundedInv'
  BY <1>9, FundedAbortAttempt
<1>10. ASSUME NEW h \in Hosts, NEW ok \in BOOLEAN, Collect(h, ok) PROVE FundedInv'
  BY <1>10, FundedCollect
<1>11. ASSUME NEW h \in Hosts, Refused(h) \/ HostCrash(h) PROVE FundedInv'
  BY <1>11, FundedLeave
<1>12. ASSUME NEW n \in Attempts, ReserveProbe(n) PROVE FundedInv'
  BY <1>12, FundedReserveProbe
<1>13. ASSUME NEW n \in Attempts, Recover(n) PROVE FundedInv'
  BY <1>13, FundedRecover
<1>14. CASE Approve
  <2>1. released' \in [Accounts -> [modal : Int, openrouter : Int]]
    <3>. DEFINE give(a) == Limits(released[a].modal + Amendment(approved + 1, billed).releases[a].modal,
                                  released[a].openrouter
                                      + Amendment(approved + 1, billed).releases[a].openrouter)
    <3>1. released' = [a \in Accounts |-> give(a)]
      BY <1>14, FreedIs
    <3>2. \A a \in Accounts : give(a) \in [modal : Int, openrouter : Int]
      BY <1>14, FreedIs DEF Limits, FundedInv, SpendTypes
    <3>. HIDE DEF give
    <3>. QED
      BY <3>1, <3>2
  <2>. QED
    BY <1>14, <2>1, FundedApprove
<1>15. ASSUME \/ PinBatch \/ UNCHANGED spendVars
              \/ \E b \in DOMAIN batch : RetainApproval(b) \/ RetainAdmission(b) \/ StockStep(b)
       PROVE  FundedInv'
  BY <1>15, FundedBatches
<1>. QED
  BY <1>1, <1>2, <1>3, <1>4, <1>5, <1>6, <1>7, <1>8, <1>9, <1>10, <1>11, <1>12, <1>13,
     <1>14, <1>15 DEF SpendNext
-----------------------------------------------------------------------------
(* For any controllers, qualifications, bills, charges and batches: the     *)
(* type invariant of the journal; a row says the same in its receipts and   *)
(* in its work, an attempt not yet approved has neither, a working          *)
(* controller stands where its receipts allow, and stock runs only from an  *)
(* admitted batch.                                                          *)
THEOREM FundedInvariant == SpendSpec => []FundedInv
<1>1. SpendInit => FundedInv
  BY FundedInit
<1>2. FundedInv /\ [SpendNext]_spendVars => FundedInv'
  BY FundedStep
<1>. QED
  BY <1>1, <1>2, PTL DEF SpendSpec

(* A funded journal dispatches nothing unpaid.                              *)
LEMMA FundedIsWork == FundedInv => WorkIsFunded
<1>. SUFFICES ASSUME FundedInv PROVE WorkIsFunded
  OBVIOUS
<1>1. DOMAIN batch = 1..Len(Batches)
  BY DEF FundedInv, SpendTypes
<1>2. ASSUME NEW n \in Attempts, work[n].dispatched > 0
      PROVE  /\ work[n].dispatched <= receipts[n].computes
             /\ receipts[n].overhead = 1
             /\ n <= 10 => receipts[n].model = 1
  <2>1. receipts[n] \in ReceiptRows /\ work[n] \in WorkRows /\ RowInv(n, receipts[n], work[n])
    BY DEF FundedInv, SpendTypes
  <2>2. receipts[n].computes \in 0..12 /\ work[n].dispatched \in 0..12
    BY <2>1 DEF ReceiptRows, WorkRows
  <2>. QED
    BY <1>2, <2>1, <2>2 DEF RowInv
<1>. QED
  BY <1>1, <1>2 DEF WorkIsFunded, FundedInv

(* PilotSpendGuard and its follow-ups: whatever controllers race, crash and *)
(* start again, nothing is dispatched without its own receipt and those of  *)
(* its run, and no stock control runs before its batch is admitted.         *)
THEOREM NothingUnfunded == SpendSpec => []WorkIsFunded
BY FundedInvariant, FundedIsWork, PTL
-----------------------------------------------------------------------------
(* What a step can do to the row of attempt n after v(n+1) is retained.     *)
Frozen(n) ==
    /\ approved' = approved /\ released' = released
    /\ receipts'[n] = receipts[n] /\ billed'[n] = billed[n]
    /\ \/ work'[n] = work[n]
       \/ /\ InFlight(n) = 1 /\ work[n].recovered = 0
          /\ work'[n] = [work[n] EXCEPT !.recovered = 1]
       \/ /\ n = 12 /\ InFlight(n) = 1 /\ work'[n].failed
          /\ work'[n].confirmed = work[n].confirmed + 1 /\ work'[n].recovered = 0
          /\ work'[n].dispatched = work[n].dispatched /\ work'[n].status = work[n].status

(* The receipts, the bill and the work of an attempt that is ended and not  *)
(* the newest change no more, except that a call in flight at its abort may *)
(* be observed to have ended.                                               *)
LEMMA SettledFrozen ==
    ASSUME FundedInv, [SpendNext]_spendVars, ~Approve, NEW n \in Attempts, n < approved, n # 11,
           Settled(n)
    PROVE  Frozen(n)
<1>z. /\ Attempts \subseteq 0..13 /\ approved \in Attempts
      /\ work \in [Attempts -> WorkRows] /\ receipts \in [Attempts -> ReceiptRows]
      /\ billed \in [Attempts -> Nat]
  <2>1. Attempts \subseteq 0..13
    BY SpendAssumption DEF Attempts
  <2>. QED
    BY <2>1 DEF FundedInv, SpendTypes
<1>0. /\ n \in 0..13 /\ approved \in 0..13 /\ n # approved
      /\ (n <= 10 /\ work[n].status = "aborted") \/ n = 12
      /\ n = 12 => /\ work[n].status = "stopped" /\ work[n].dispatched = 1
                   /\ work[n].confirmed + work[n].recovered = 1
                   /\ work[n].confirmed = 0 \/ work[n].failed
      /\ work[n] \in WorkRows /\ DOMAIN work = Attempts
      /\ DOMAIN receipts = Attempts /\ DOMAIN billed = Attempts
      /\ ~CurrentAttempt(n)
  <2>1. n \in 0..13 /\ approved \in 0..13 /\ n # approved
    BY <1>z
  <2>2. /\ (n <= 10 /\ work[n].status = "aborted") \/ n = 12
        /\ n = 12 => /\ work[n].status = "stopped" /\ work[n].dispatched = 1
                     /\ work[n].confirmed + work[n].recovered = 1
                     /\ work[n].confirmed = 0 \/ work[n].failed
    <3>1. n <= 10 \/ n = 12
      BY <2>1
    <3>. QED
      BY <3>1 DEF Settled
  <2>3. ~CurrentAttempt(n)
    BY <2>1 DEF CurrentAttempt
  <2>. QED
    BY <1>z, <2>1, <2>2, <2>3
<1>a. /\ work \in [Attempts -> WorkRows] /\ receipts \in [Attempts -> ReceiptRows]
      /\ billed \in [Attempts -> Nat]
  BY DEF FundedInv, SpendTypes
<1>1. ASSUME NEW h \in Hosts, ReserveModel(h) PROVE Frozen(n)
  <2>1. host[h].version # n
    BY <1>0, <1>1 DEF ReserveModel, Affords
  <2>. QED
    BY <1>0, <1>a, <1>1, <2>1 DEF ReserveModel, Frozen
<1>2. ASSUME NEW h \in Hosts, ReserveOverhead(h) PROVE Frozen(n)
  <2>1. host[h].version # n
    BY <1>0, <1>2 DEF ReserveOverhead, Affords
  <2>. QED
    BY <1>0, <1>a, <1>2, <2>1 DEF ReserveOverhead, Frozen
<1>3. ASSUME NEW h \in Hosts, ReserveCompute(h) PROVE Frozen(n)
  <2>1. host[h].version # n
    BY <1>0, <1>3 DEF ReserveCompute, Affords
  <2>. QED
    BY <1>0, <1>a, <1>3, <2>1 DEF ReserveCompute, Frozen
<1>4. ASSUME NEW h \in Hosts, Dispatch(h) PROVE Frozen(n)
  <2>1. host[h].version # n
    <3>1. Going(host[h].version) /\ InFlight(host[h].version) = 0
      BY <1>4 DEF Dispatch
    <3>. QED
      BY <1>0, <3>1 DEF Going, InFlight, WorkRows
  <2>. QED
    BY <1>0, <1>a, <1>4, <2>1 DEF Dispatch, Frozen
<1>5. ASSUME NEW h \in Hosts, NEW ok \in BOOLEAN, Collect(h, ok) PROVE Frozen(n)
  <2>. DEFINE m == host[h].version
  <2>1. /\ Going(m) /\ InFlight(m) = 1 /\ (ok => work[m].recovered = 0)
        /\ work' = [work EXCEPT ![m] = [work[m] EXCEPT !.confirmed = @ + 1, !.recovered = 0,
                                                       !.failed = ~ok]]
        /\ approved' = approved /\ released' = released /\ receipts' = receipts /\ billed' = billed
    BY <1>5 DEF Collect
  <2>2. CASE m # n
    BY <1>0, <1>a, <2>1, <2>2 DEF Frozen
  <2>3. CASE m = n
    <3>1. n = 12 /\ work[n].recovered = 1 /\ ok = FALSE
      BY <1>0, <2>1, <2>3 DEF Going, InFlight, WorkRows
    <3>2. work'[n] = [work[n] EXCEPT !.confirmed = @ + 1, !.recovered = 0, !.failed = TRUE]
      BY <1>0, <2>1, <2>3, <3>1
    <3>3. /\ work'[n].failed /\ work'[n].confirmed = work[n].confirmed + 1
          /\ work'[n].recovered = 0 /\ work'[n].dispatched = work[n].dispatched
          /\ work'[n].status = work[n].status
      BY <1>0, <3>2 DEF WorkRows
    <3>. QED
      BY <2>1, <2>3, <3>1, <3>3 DEF Frozen
  <2>. QED
    BY <2>2, <2>3
<1>6. ASSUME NEW h \in Hosts, Finish(h) PROVE Frozen(n)
  <2>1. host[h].version # n
    BY <1>0, <1>6 DEF Finish
  <2>. QED
    BY <1>0, <1>a, <1>6, <2>1 DEF Finish, Frozen
<1>7. ASSUME NEW h \in Hosts, AbortAttempt(h) PROVE Frozen(n)
  <2>. DEFINE m == host[h].version
              w == work[m]
  <2>1. m # n
    BY <1>0, <1>7 DEF AbortAttempt
  <2>. DEFINE agents == m <= 10 /\ w.confirmed > 0 /\ ~(w.failed /\ w.confirmed = 1)
  <2>2. PICK c \in (IF agents THEN Charges[m] ELSE {0}),
             b \in Bills[m] :
                    /\ work' = [work EXCEPT ![m] =
                            [w EXCEPT !.status = IF m <= 10 THEN "aborted" ELSE "stopped",
                                      !.failed = @ /\ m >= 11, !.charged = c]]
                    /\ billed' = [billed EXCEPT ![m] = b]
    BY <1>7 DEF AbortAttempt
  <2>3. work'[n] = work[n] /\ billed'[n] = billed[n]
    BY <1>0, <1>a, <2>1, <2>2
  <2>. QED
    BY <1>7, <2>3 DEF AbortAttempt, Frozen
<1>8. ASSUME NEW m \in Attempts, ReserveProbe(m) PROVE Frozen(n)
  <2>1. m # n
    BY <1>0, <1>8 DEF ReserveProbe
  <2>. QED
    BY <1>0, <1>a, <1>8, <2>1 DEF ReserveProbe, Frozen
<1>9. ASSUME NEW m \in Attempts, Recover(m) PROVE Frozen(n)
  <2>1. /\ InFlight(m) = 1 /\ work[m].recovered = 0
        /\ work' = [work EXCEPT ![m] = [work[m] EXCEPT !.recovered = 1]]
        /\ approved' = approved /\ released' = released /\ receipts' = receipts /\ billed' = billed
    BY <1>9 DEF Recover
  <2>2. work'[n] = IF m = n THEN [work[n] EXCEPT !.recovered = 1] ELSE work[n]
    BY <1>0, <1>a, <2>1
  <2>. QED
    BY <2>1, <2>2 DEF Frozen
<1>10. ASSUME \/ \E q \in Qualifications : Qualify(q)
              \/ \E h \in Hosts : Start(h) \/ Readmit(h) \/ Refused(h) \/ HostCrash(h)
              \/ PinBatch \/ UNCHANGED spendVars
              \/ \E b \in DOMAIN batch : RetainApproval(b) \/ RetainAdmission(b) \/ StockStep(b)
       PROVE  Frozen(n)
  BY <1>10
     DEF Qualify, Start, Readmit, Refused, HostCrash, PinBatch, RetainApproval,
     RetainAdmission, StockStep, spendVars, journalVars, Frozen
<1>. QED
  BY <1>1, <1>2, <1>3, <1>4, <1>5, <1>6, <1>7, <1>8, <1>9, <1>10 DEF SpendNext

(* What an amendment demands does not depend on the bills.                  *)
LEMMA LeftFixed ==
    ASSUME NEW b, NEW c, NEW m \in 1..13, NEW x
    PROVE  /\ Amendment(m, b).left = Amendment(m, c).left
           /\ x \in Amendment(m, b).bill <=> x \in Amendment(m, c).bill
<1>1. Amendment(m, b).left = Amendment(m, c).left
  BY LeftIs, SMT
<1>2. x \in Amendment(m, b).bill <=> x \in Amendment(m, c).bill
  BY BillIs, SMT
<1>. QED
  BY <1>1, <1>2

(* An overhead that is paid stays paid.                                     *)
LEMMA OverheadStays ==
    ASSUME FundedInv, [SpendNext]_spendVars, NEW n \in Attempts, receipts[n].overhead = 1
    PROVE  receipts'[n].overhead = 1
<1>1. receipts \in [Attempts -> ReceiptRows]
  BY DEF FundedInv, SpendTypes
<1>2. \/ receipts' = receipts
      \/ \E m : \/ receipts' = [receipts EXCEPT ![m].model = 1]
                \/ receipts' = [receipts EXCEPT ![m].overhead = 1]
                \/ receipts' = [receipts EXCEPT ![m].computes = @ + 1]
                \/ receipts' = [receipts EXCEPT ![m].probe = 1]
  BY
     DEF SpendNext, Qualify, Start, ReserveModel, ReserveOverhead, ReserveCompute, Readmit,
     Dispatch, Finish, AbortAttempt, Collect, Refused, HostCrash, ReserveProbe, Recover,
     Approve, PinBatch, RetainApproval, RetainAdmission, StockStep, spendVars, journalVars
<1>3. CASE receipts' = receipts
  BY <1>3
<1>4. ASSUME NEW m, \/ receipts' = [receipts EXCEPT ![m].model = 1]
                    \/ receipts' = [receipts EXCEPT ![m].overhead = 1]
                    \/ receipts' = [receipts EXCEPT ![m].computes = @ + 1]
                    \/ receipts' = [receipts EXCEPT ![m].probe = 1]
      PROVE  receipts'[n].overhead = 1
  BY <1>1, <1>4 DEF ReceiptRows
<1>. QED
  BY <1>2, <1>3, <1>4

(* What an attempt has left, read from its rows.                            *)
LEMMA LeavingsAre ==
    ASSUME NEW n \in Attempts
    PROVE  Leavings[n] = [computes |-> receipts[n].computes, dispatched |-> work[n].dispatched,
                          confirmed |-> work[n].confirmed,
                          ended |-> work[n].confirmed + work[n].recovered,
                          probe |-> receipts[n].probe, charged |-> work[n].charged]
BY DEF Leavings

(* A settled attempt with a call still unresolved is the sixth or the       *)
(* eighth, and its amendment accepted the call either way.                  *)
LEMMA SettledEnded ==
    ASSUME FundedInv, NEW n \in Attempts, n \in 0..10, Settled(n),
           InFlight(n) = 1, work[n].recovered = 0
    PROVE  /\ n \in {5, 7}
           /\ [computes |-> receipts[n].computes, dispatched |-> work[n].dispatched,
               confirmed |-> work[n].confirmed, ended |-> work[n].confirmed + 1,
               probe |-> receipts[n].probe, charged |-> work[n].charged]
                  \in Amendment(n + 1, billed).left
<1>. DEFINE l == Leavings[n]
            l2 == [computes |-> l.computes, dispatched |-> l.dispatched,
                   confirmed |-> l.confirmed, ended |-> l.confirmed + 1,
                   probe |-> l.probe, charged |-> l.charged]
<1>1. /\ l = [computes |-> receipts[n].computes, dispatched |-> work[n].dispatched,
                          confirmed |-> work[n].confirmed,
                          ended |-> work[n].confirmed + work[n].recovered,
                          probe |-> receipts[n].probe, charged |-> work[n].charged]
      /\ work[n].confirmed \in 0..12 /\ work[n].dispatched \in 0..12
      /\ work[n].dispatched - work[n].confirmed = 1 /\ work[n].recovered = 0
      /\ l \in Amendment(n + 1, billed).left
  <2>1. l = [computes |-> receipts[n].computes, dispatched |-> work[n].dispatched,
             confirmed |-> work[n].confirmed,
             ended |-> work[n].confirmed + work[n].recovered,
             probe |-> receipts[n].probe, charged |-> work[n].charged]
    BY LeavingsAre
  <2>2. work[n].confirmed \in 0..12 /\ work[n].dispatched \in 0..12
    BY DEF FundedInv, SpendTypes, WorkRows
  <2>3. work[n].dispatched - work[n].confirmed = 1 /\ work[n].recovered = 0
    BY DEF InFlight
  <2>4. l \in Amendment(n + 1, billed).left
    BY DEF Settled
  <2>. HIDE DEF l
  <2>. QED
    BY <2>1, <2>2, <2>3, <2>4
<1>2. l.ended = l.confirmed /\ l.dispatched = l.confirmed + 1 /\ l.confirmed \in 0..12
  BY <1>1
<1>. HIDE DEF l
<1>3. n # 0
  BY <1>1, <1>2, LeftIs DEF Retry
<1>4. n # 1
  BY <1>1, <1>2, LeftIs, SMT DEF Leaves
<1>5. n # 2
  BY <1>1, <1>2, LeftIs, SMT DEF Leaves
<1>6. n # 3
  BY <1>1, <1>2, LeftIs, SMT DEF Leaves
<1>7. n # 4
  BY <1>1, <1>2, LeftIs, SMT DEF Leaves
<1>8. ASSUME n = 5 PROVE l2 \in Amendment(n + 1, billed).left
  <2>1. Amendment(n + 1, billed).left = Leaves({12}, {6}, {5}, {5, 6}, {0}, {5110})
    BY <1>8, LeftIs, SMT
  <2>2. l \in Leaves({12}, {6}, {5}, {5, 6}, {0}, {5110})
    BY <1>1, <2>1
  <2>3. l2 \in Leaves({12}, {6}, {5}, {5, 6}, {0}, {5110})
    BY <1>2, <2>2, SMT DEF Leaves
  <2>. QED
    BY <2>1, <2>3
<1>9. n # 6
  BY <1>1, <1>2, LeftIs, SMT DEF Leaves
<1>10. ASSUME n = 7 PROVE l2 \in Amendment(n + 1, billed).left
  <2>1. Amendment(n + 1, billed).left = Leaves({1}, {1}, {0}, {0, 1}, {1}, {0})
    BY <1>10, LeftIs, SMT
  <2>2. l \in Leaves({1}, {1}, {0}, {0, 1}, {1}, {0})
    BY <1>1, <2>1
  <2>3. l2 \in Leaves({1}, {1}, {0}, {0, 1}, {1}, {0})
    BY <1>2, <2>2, SMT DEF Leaves
  <2>. QED
    BY <2>1, <2>3
<1>11. n # 8
  BY <1>1, <1>2, LeftIs, SMT DEF Leaves
<1>12. n # 9
  BY <1>1, <1>2, LeftIs, SMT DEF Leaves
<1>13. n # 10
  BY <1>1, <1>2, LeftIs, SMT DEF Leaves
<1>14. l2 = [computes |-> receipts[n].computes, dispatched |-> work[n].dispatched,
              confirmed |-> work[n].confirmed, ended |-> work[n].confirmed + 1,
              probe |-> receipts[n].probe, charged |-> work[n].charged]
  BY <1>1
<1>. QED
  BY <1>3, <1>4, <1>5, <1>6, <1>7, <1>8, <1>9, <1>10, <1>11, <1>12, <1>13, <1>14 DEF l

(* A settled attempt stays settled until the next amendment.                *)
LEMMA SettledStays ==
    ASSUME FundedInv, [SpendNext]_spendVars, ~Approve, NEW n \in Attempts, n < approved, Settled(n)
    PROVE  Settled(n)'
<1>. USE SpendAssumption
<1>1. receipts'[n].overhead = 1
  BY OverheadStays DEF Settled
<1>2. CASE n = 11
  BY <1>1, <1>2 DEF Settled
<1>3. CASE n <= 10
  <2>1. n \in 0..10 /\ n + 1 \in 1..13
    BY <1>3 DEF Attempts
  <2>2. Frozen(n)
    BY <1>3, SettledFrozen
  <2>3. /\ work[n].status = "aborted" /\ Leavings[n] \in Amendment(n + 1, billed).left
        /\ billed[n] \in Amendment(n + 1, billed).bill
    BY <1>3 DEF Settled
  <2>4. work'[n].status = "aborted" /\ Leavings'[n] \in Amendment(n + 1, billed').left
    <3>1. CASE work'[n] = work[n]
      <4>1. Leavings'[n] = Leavings[n]
        BY <2>2, <3>1 DEF Leavings, Frozen
      <4>. QED
        BY <2>1, <2>3, <3>1, <4>1, LeftFixed
    <3>2. CASE work'[n] # work[n]
      <4>1. InFlight(n) = 1 /\ work[n].recovered = 0 /\ work'[n] = [work[n] EXCEPT !.recovered = 1]
        BY <1>3, <2>1, <2>2, <3>2 DEF Frozen
      <4>2. work[n] \in WorkRows
        BY DEF FundedInv, SpendTypes
      <4>3. /\ work'[n].dispatched = work[n].dispatched /\ work'[n].confirmed = work[n].confirmed
            /\ work'[n].recovered = 1 /\ work'[n].charged = work[n].charged
            /\ work'[n].status = work[n].status
        BY <4>1, <4>2 DEF WorkRows
      <4>4. Leavings'[n] = [computes |-> receipts[n].computes, dispatched |-> work[n].dispatched,
                            confirmed |-> work[n].confirmed, ended |-> work[n].confirmed + 1,
                            probe |-> receipts[n].probe, charged |-> work[n].charged]
        BY <2>2, <4>3 DEF Leavings, Frozen
      <4>5. Leavings'[n] \in Amendment(n + 1, billed).left
        <5>1. [computes |-> receipts[n].computes, dispatched |-> work[n].dispatched,
               confirmed |-> work[n].confirmed, ended |-> work[n].confirmed + 1,
               probe |-> receipts[n].probe, charged |-> work[n].charged]
                  \in Amendment(n + 1, billed).left
          BY <2>1, <4>1, SettledEnded
        <5>. QED
          BY <4>4, <5>1
      <4>. QED
        BY <2>1, <2>3, <4>3, <4>5, LeftFixed
    <3>. QED
      BY <3>1, <3>2
  <2>5. billed'[n] \in Amendment(n + 1, billed').bill
    BY <2>1, <2>2, <2>3, LeftFixed DEF Frozen
  <2>. QED
    BY <1>1, <1>3, <2>4, <2>5 DEF Settled
<1>4. CASE n = 12
  <2>1. Frozen(n) /\ work[n] \in WorkRows
    BY <1>4, SettledFrozen DEF FundedInv, SpendTypes
  <2>2. /\ work[n].status = "stopped" /\ receipts[n].probe = 0 /\ receipts[n].computes = 3
        /\ work[n].dispatched = 1 /\ work[n].confirmed + work[n].recovered = 1
        /\ work[n].confirmed = 0 \/ work[n].failed
    BY <1>4 DEF Settled
  <2>3. /\ work'[n].status = "stopped" /\ receipts'[n].probe = 0 /\ receipts'[n].computes = 3
        /\ work'[n].dispatched = 1 /\ work'[n].confirmed + work'[n].recovered = 1
        /\ work'[n].confirmed = 0 \/ work'[n].failed
    <3>1. CASE work'[n] = work[n]
      BY <2>1, <2>2, <3>1 DEF Frozen
    <3>2. CASE InFlight(n) = 1 /\ work[n].recovered = 0 /\ work'[n] = [work[n] EXCEPT !.recovered = 1]
      <4>1. InFlight(n) # 1 \/ work[n].recovered # 0
        BY <2>1, <2>2 DEF InFlight, WorkRows
      <4>. QED
        BY <3>2, <4>1
    <3>3. CASE /\ InFlight(n) = 1 /\ work'[n].failed
               /\ work'[n].confirmed = work[n].confirmed + 1 /\ work'[n].recovered = 0
               /\ work'[n].dispatched = work[n].dispatched /\ work'[n].status = work[n].status
      BY <2>1, <2>2, <3>3 DEF InFlight, WorkRows, Frozen
    <3>. QED
      BY <2>1, <3>1, <3>2, <3>3 DEF Frozen
  <2>. QED
    BY <1>1, <1>4, <2>3 DEF Settled
<1>5. n <= 10 \/ n = 11 \/ n = 12
  BY DEF FundedInv, SpendTypes, Attempts
<1>. QED
  BY <1>2, <1>3, <1>4, <1>5

(* Each amendment moves what is given back to the amounts of its version.   *)
LEMMA ReleasedApprove ==
    ASSUME FundedInv, ReleasedInv, Approve
    PROVE  ReleasedInv'
<1>. DEFINE n == approved + 1
            R(a) == Amendment(n, billed).releases[a]
<1>1. /\ approved' = n /\ n \in 1..13 /\ billed' = billed /\ n \in Attempts
      /\ \A a \in Accounts : /\ released'[a].modal = released[a].modal + R(a).modal
                             /\ released'[a].openrouter = released[a].openrouter + R(a).openrouter
  BY FreedIs DEF Approve, Limits
<1>2. \A k \in 0..n : billed[k] \in Nat
  BY <1>1, SpendAssumption DEF FundedInv, SpendTypes, Attempts
<1>3. /\ Setup \in Accounts /\ 0 \in Accounts /\ 1 \in Accounts /\ 2 \in Accounts /\ 3 \in Accounts
      /\ 4 \in Accounts /\ 5 \in Accounts /\ 6 \in Accounts /\ 7 \in Accounts /\ 8 \in Accounts
      /\ 9 \in Accounts /\ 10 \in Accounts /\ 11 \in Accounts /\ 12 \in Accounts /\ 13 \in Accounts
      /\ Setup = 0 - 1
  BY DEF Accounts, Setup
<1>. USE AllowancesAre DEF Gives, By
<1>11. ASSUME n = 1 PROVE ReleasedInv'
  <2>1. ASSUME NEW a \in Accounts
        PROVE  /\ R(a).modal = IF a = 0 THEN 0 ELSE 0
               /\ R(a).openrouter = IF a = 0 THEN ModelBase ELSE 0
    <3>1. Amendment(1, billed).releases[a] =
              IF a = 0 THEN Limits(0, ModelBase)
              ELSE Limits(0, 0)
      BY ReleasesAre, SMT
    <3>. QED
      BY <1>11, <3>1, SMT DEF Limits
  <2>2. approved = 0 /\ approved' = 1
    BY <1>1, <1>11, SpendAssumption DEF FundedInv, SpendTypes, Attempts
  <2>. HIDE DEF R, n
  <2>. QED
    BY <1>1, <1>2, <1>3, <1>11, <2>1, <2>2, SMTT(60) DEF ReleasedInv
<1>12. ASSUME n = 2 PROVE ReleasedInv'
  <2>1. ASSUME NEW a \in Accounts
        PROVE  /\ R(a).modal = IF a = 1 THEN OneAllowance - (billed[1] + Buffer) ELSE 0
               /\ R(a).openrouter = IF a = 1 THEN ModelBase ELSE 0
    <3>1. Amendment(2, billed).releases[a] =
              IF a = 1 THEN Limits(OneAllowance - (billed[1] + Buffer), ModelBase)
              ELSE Limits(0, 0)
      BY ReleasesAre, SMT
    <3>. QED
      BY <1>12, <3>1, SMT DEF Limits
  <2>2. approved = 1 /\ approved' = 2
    BY <1>1, <1>12, SpendAssumption DEF FundedInv, SpendTypes, Attempts
  <2>. HIDE DEF R, n
  <2>. QED
    BY <1>1, <1>2, <1>3, <1>12, <2>1, <2>2, SMTT(60) DEF ReleasedInv
<1>13. ASSUME n = 3 PROVE ReleasedInv'
  <2>1. ASSUME NEW a \in Accounts
        PROVE  /\ R(a).modal =
                      IF a = 0 THEN ComputeEach - billed[0] - Buffer
                      ELSE IF a = 2 THEN 2000000
                      ELSE 0
               /\ R(a).openrouter =
                      IF a = 0 THEN 0
                      ELSE IF a = 2 THEN ModelBase - 1352 - SmallBuffer
                      ELSE 0
    <3>1. Amendment(3, billed).releases[a] =
              IF a = 0 THEN Limits(ComputeEach - billed[0] - Buffer, 0)
              ELSE IF a = 2 THEN Limits(2000000, ModelBase - 1352 - SmallBuffer)
              ELSE Limits(0, 0)
      BY ReleasesAre, SMT
    <3>. QED
      BY <1>13, <3>1, SMT DEF Limits
  <2>2. approved = 2 /\ approved' = 3
    BY <1>1, <1>13, SpendAssumption DEF FundedInv, SpendTypes, Attempts
  <2>. HIDE DEF R, n
  <2>. QED
    BY <1>1, <1>2, <1>3, <1>13, <2>1, <2>2, SMTT(60) DEF ReleasedInv
<1>14. ASSUME n = 4 PROVE ReleasedInv'
  <2>1. ASSUME NEW a \in Accounts
        PROVE  /\ R(a).modal =
                      IF a = 3 THEN OneAllowance + ComputeEach - billed[3] - Buffer
                      ELSE IF a = Setup THEN 500000
                      ELSE 0
               /\ R(a).openrouter =
                      IF a = 3 THEN ModelBase - 3082 - SmallBuffer
                      ELSE IF a = Setup THEN 0
                      ELSE 0
    <3>1. Amendment(4, billed).releases[a] =
              IF a = 3 THEN Limits(OneAllowance + ComputeEach - billed[3] - Buffer,
                                   ModelBase - 3082 - SmallBuffer)
              ELSE IF a = Setup THEN Limits(500000, 0)
              ELSE Limits(0, 0)
      BY ReleasesAre, SMT
    <3>. QED
      BY <1>14, <3>1, SMT DEF Limits
  <2>2. approved = 3 /\ approved' = 4
    BY <1>1, <1>14, SpendAssumption DEF FundedInv, SpendTypes, Attempts
  <2>. HIDE DEF R, n
  <2>. QED
    BY <1>1, <1>2, <1>3, <1>14, <2>1, <2>2, SMTT(60) DEF ReleasedInv
<1>15. ASSUME n = 5 PROVE ReleasedInv'
  <2>1. ASSUME NEW a \in Accounts
        PROVE  /\ R(a).modal =
                      IF a = 4 THEN OneAllowance - billed[4] - Buffer - SmallBuffer
                      ELSE IF a = Setup THEN 500000
                      ELSE 0
               /\ R(a).openrouter =
                      IF a = 4 THEN ModelBase - SmallBuffer
                      ELSE IF a = Setup THEN 0
                      ELSE 0
    <3>1. Amendment(5, billed).releases[a] =
              IF a = 4 THEN Limits(OneAllowance - billed[4] - Buffer - SmallBuffer,
                                   ModelBase - SmallBuffer)
              ELSE IF a = Setup THEN Limits(500000, 0)
              ELSE Limits(0, 0)
      BY ReleasesAre, SMT
    <3>. QED
      BY <1>15, <3>1, SMT DEF Limits
  <2>2. approved = 4 /\ approved' = 5
    BY <1>1, <1>15, SpendAssumption DEF FundedInv, SpendTypes, Attempts
  <2>. HIDE DEF R, n
  <2>. QED
    BY <1>1, <1>2, <1>3, <1>15, <2>1, <2>2, SMTT(60) DEF ReleasedInv
<1>16. ASSUME n = 6 PROVE ReleasedInv'
  <2>1. ASSUME NEW a \in Accounts
        PROVE  /\ R(a).modal =
                      IF a = 5 THEN FullAllowance - billed[5] - Buffer - ComputeEach
                      ELSE 0
               /\ R(a).openrouter = IF a = 5 THEN ModelBase - 5110 - SmallBuffer ELSE 0
    <3>1. Amendment(6, billed).releases[a] =
              IF a = 5 THEN Limits(FullAllowance - billed[5] - Buffer - ComputeEach,
                                   ModelBase - 5110 - SmallBuffer)
              ELSE Limits(0, 0)
      BY ReleasesAre, SMT
    <3>. QED
      BY <1>16, <3>1, SMT DEF Limits
  <2>2. approved = 5 /\ approved' = 6
    BY <1>1, <1>16, SpendAssumption DEF FundedInv, SpendTypes, Attempts
  <2>. HIDE DEF R, n
  <2>. QED
    BY <1>1, <1>2, <1>3, <1>16, <2>1, <2>2, SMTT(60) DEF ReleasedInv
<1>17. ASSUME n = 7 PROVE ReleasedInv'
  <2>1. ASSUME NEW a \in Accounts
        PROVE  /\ R(a).modal = IF a = 6 THEN FullAllowance - billed[6] - 48 - Buffer ELSE 0
               /\ R(a).openrouter = IF a = 6 THEN ModelBase - 4801 - SmallBuffer ELSE 0
    <3>1. Amendment(7, billed).releases[a] =
              IF a = 6 THEN Limits(FullAllowance - billed[6] - 48 - Buffer,
                                   ModelBase - 4801 - SmallBuffer)
              ELSE Limits(0, 0)
      BY ReleasesAre, SMT
    <3>. QED
      BY <1>17, <3>1, SMT DEF Limits
  <2>2. approved = 6 /\ approved' = 7
    BY <1>1, <1>17, SpendAssumption DEF FundedInv, SpendTypes, Attempts
  <2>. HIDE DEF R, n
  <2>. QED
    BY <1>1, <1>2, <1>3, <1>17, <2>1, <2>2, SMTT(60) DEF ReleasedInv
<1>18. ASSUME n = 8 PROVE ReleasedInv'
  <2>1. ASSUME NEW a \in Accounts
        PROVE  /\ R(a).modal = IF a = 7 THEN 0 ELSE 0
               /\ R(a).openrouter = IF a = 7 THEN ModelBase ELSE 0
    <3>1. Amendment(8, billed).releases[a] =
              IF a = 7 THEN Limits(0, ModelBase)
              ELSE Limits(0, 0)
      BY ReleasesAre, SMT
    <3>. QED
      BY <1>18, <3>1, SMT DEF Limits
  <2>2. approved = 7 /\ approved' = 8
    BY <1>1, <1>18, SpendAssumption DEF FundedInv, SpendTypes, Attempts
  <2>. HIDE DEF R, n
  <2>. QED
    BY <1>1, <1>2, <1>3, <1>18, <2>1, <2>2, SMTT(60) DEF ReleasedInv
<1>19. ASSUME n = 9 PROVE ReleasedInv'
  <2>1. ASSUME NEW a \in Accounts
        PROVE  /\ R(a).modal = IF a = 8 THEN FullAllowance - billed[8] - Buffer ELSE 0
               /\ R(a).openrouter = IF a = 8 THEN ModelBase - 3115 - SmallBuffer ELSE 0
    <3>1. Amendment(9, billed).releases[a] =
              IF a = 8 THEN Limits(FullAllowance - billed[8] - Buffer,
                                   ModelBase - 3115 - SmallBuffer)
              ELSE Limits(0, 0)
      BY ReleasesAre, SMT
    <3>. QED
      BY <1>19, <3>1, SMT DEF Limits
  <2>2. approved = 8 /\ approved' = 9
    BY <1>1, <1>19, SpendAssumption DEF FundedInv, SpendTypes, Attempts
  <2>. HIDE DEF R, n
  <2>. QED
    BY <1>1, <1>2, <1>3, <1>19, <2>1, <2>2, SMTT(60) DEF ReleasedInv
<1>20. ASSUME n = 10 PROVE ReleasedInv'
  <2>1. ASSUME NEW a \in Accounts
        PROVE  /\ R(a).modal =
                      IF a = 7 THEN OneAllowance - billed[7] - Buffer
                      ELSE IF a = 9 THEN OneAllowance - billed[9] - Buffer
                      ELSE 0
               /\ R(a).openrouter = IF a = 7 THEN 0 ELSE IF a = 9 THEN ModelBase ELSE 0
    <3>1. Amendment(10, billed).releases[a] =
              IF a = 7 THEN Limits(OneAllowance - billed[7] - Buffer, 0)
              ELSE IF a = 9 THEN Limits(OneAllowance - billed[9] - Buffer, ModelBase)
              ELSE Limits(0, 0)
      BY ReleasesAre, SMT
    <3>. QED
      BY <1>20, <3>1, SMT DEF Limits
  <2>2. approved = 9 /\ approved' = 10
    BY <1>1, <1>20, SpendAssumption DEF FundedInv, SpendTypes, Attempts
  <2>. HIDE DEF R, n
  <2>. QED
    BY <1>1, <1>2, <1>3, <1>20, <2>1, <2>2, SMTT(60) DEF ReleasedInv
<1>21. ASSUME n = 11 PROVE ReleasedInv'
  <2>1. ASSUME NEW a \in Accounts
        PROVE  /\ R(a).modal = IF a = 10 THEN FullAllowance - billed[10] - Buffer ELSE 0
               /\ R(a).openrouter = IF a = 10 THEN ModelBase - 4292 ELSE 0
    <3>1. Amendment(11, billed).releases[a] =
              IF a = 10 THEN Limits(FullAllowance - billed[10] - Buffer, ModelBase - 4292)
              ELSE Limits(0, 0)
      BY ReleasesAre, SMT
    <3>. QED
      BY <1>21, <3>1, SMT DEF Limits
  <2>2. approved = 10 /\ approved' = 11
    BY <1>1, <1>21, SpendAssumption DEF FundedInv, SpendTypes, Attempts
  <2>. HIDE DEF R, n
  <2>. QED
    BY <1>1, <1>2, <1>3, <1>21, <2>1, <2>2, SMTT(60) DEF ReleasedInv
<1>22. ASSUME n = 12 PROVE ReleasedInv'
  <2>1. ASSUME NEW a \in Accounts
        PROVE  /\ R(a).modal = 0
               /\ R(a).openrouter = 0
    <3>1. Amendment(12, billed).releases[a] = Limits(0, 0)
      BY ReleasesAre, SMT
    <3>. QED
      BY <1>22, <3>1, SMT DEF Limits
  <2>2. approved = 11 /\ approved' = 12
    BY <1>1, <1>22, SpendAssumption DEF FundedInv, SpendTypes, Attempts
  <2>. HIDE DEF R, n
  <2>. QED
    BY <1>1, <1>2, <1>3, <1>22, <2>1, <2>2, SMTT(60) DEF ReleasedInv
<1>23. ASSUME n = 13 PROVE ReleasedInv'
  <2>1. ASSUME NEW a \in Accounts
        PROVE  /\ R(a).modal = IF a = 12 THEN PairAllowance - (billed[12] + Buffer) ELSE 0
               /\ R(a).openrouter = IF a = 12 THEN 0 ELSE 0
    <3>1. Amendment(13, billed).releases[a] =
              IF a = 12 THEN Limits(PairAllowance - (billed[12] + Buffer), 0)
              ELSE Limits(0, 0)
      BY ReleasesAre, SMT
    <3>. QED
      BY <1>23, <3>1, SMT DEF Limits
  <2>2. approved = 12 /\ approved' = 13
    BY <1>1, <1>23, SpendAssumption DEF FundedInv, SpendTypes, Attempts
  <2>. HIDE DEF R, n
  <2>. QED
    BY <1>1, <1>2, <1>3, <1>23, <2>1, <2>2, SMTT(60) DEF ReleasedInv
<1>. QED
  BY <1>1, <1>11, <1>12, <1>13, <1>14, <1>15, <1>16, <1>17, <1>18, <1>19, <1>20, <1>21,
     <1>22, <1>23, SMT

(* The evidence that later amendments bring about earlier attempts stands.  *)
LEMMA EarlierStays ==
    ASSUME FundedInv, SettledInv, [SpendNext]_spendVars, ~Approve, NEW n \in 1..approved
    PROVE  EarlierEvidence(n, billed', Leavings')
<1>1. EarlierEvidence(n, billed, Leavings)
  BY DEF SettledInv
<1>2. approved \in Attempts /\ Attempts = 0..Newest /\ Newest \in 0..13
  BY SpendAssumption DEF FundedInv, SpendTypes, Attempts
<1>3. ASSUME n = 3 PROVE EarlierEvidence(n, billed', Leavings')
  <2>1. 0 \in Attempts /\ 0 < approved
    BY <1>2, <1>3
  <2>2. Frozen(0)
    BY <2>1, SettledFrozen DEF SettledInv
  <2>3. Leavings'[0].computes = Leavings[0].computes /\ billed'[0] = billed[0]
    BY <2>1, <2>2 DEF Leavings, Frozen
  <2>. QED
    BY <1>1, <1>3, <2>3 DEF EarlierEvidence
<1>4. ASSUME n = 10 PROVE EarlierEvidence(n, billed', Leavings')
  <2>1. 7 \in Attempts /\ 7 < approved
    BY <1>2, <1>4
  <2>2. Frozen(7) /\ Settled(7) /\ work[7] \in WorkRows
    BY <2>1, SettledFrozen DEF SettledInv, FundedInv, SpendTypes
  <2>3. work[7].confirmed = 0 /\ work[7].recovered = 1
    <3>1. Leavings[7] \in Amendment(8, billed).left
      BY <2>2, SMT DEF Settled
    <3>2. Leavings[7].confirmed = 0
      <4>1. Amendment(8, billed).left = Leaves({1}, {1}, {0}, {0, 1}, {1}, {0})
        BY LeftIs, SMT
      <4>2. Leavings[7] \in Leaves({1}, {1}, {0}, {0, 1}, {1}, {0})
        BY <3>1, <4>1
      <4>. QED
        BY <4>2, SMT DEF Leaves
    <3>3. work[7].confirmed = 0 /\ work[7].confirmed + work[7].recovered = 1
      BY <1>1, <1>4, <2>1, <3>2 DEF Leavings, EarlierEvidence
    <3>. QED
      BY <2>2, <3>3 DEF WorkRows
  <2>4. Leavings'[7].ended = Leavings[7].ended /\ billed'[7] = billed[7]
    BY <2>1, <2>2, <2>3 DEF Leavings, Frozen
  <2>. QED
    BY <1>1, <1>4, <2>4 DEF EarlierEvidence
<1>. QED
  BY <1>3, <1>4 DEF EarlierEvidence

(* What is given back changes only with an amendment, and rests on bills    *)
(* that do not change.                                                      *)
LEMMA ReleasedStays ==
    ASSUME FundedInv, SettledInv, [SpendNext]_spendVars, ~Approve
    PROVE  ReleasedInv'
<1>1. approved \in Attempts /\ Attempts = 0..Newest /\ Newest \in 0..13
  BY SpendAssumption DEF FundedInv, SpendTypes, Attempts
<1>2. ASSUME NEW n \in 0..13, n < approved, n # 11 PROVE billed'[n] = billed[n]
  <2>1. n \in Attempts
    BY <1>1, <1>2
  <2>2. Settled(n)
    BY <1>2, <2>1 DEF SettledInv
  <2>. QED
    BY <1>2, <2>1, <2>2, SettledFrozen DEF Frozen
<1>3. approved' = approved /\ released' = released
  BY
     DEF SpendNext, Qualify, Start, ReserveModel, ReserveOverhead, ReserveCompute, Readmit,
     Dispatch, Finish, AbortAttempt, Collect, Refused, HostCrash, ReserveProbe, Recover,
     PinBatch, RetainApproval, RetainAdmission, StockStep, spendVars, journalVars
<1>4. /\ approved >= 1 => billed'[0] = billed[0]
      /\ approved >= 2 => billed'[1] = billed[1]
      /\ approved >= 4 => billed'[3] = billed[3]
      /\ approved >= 5 => billed'[4] = billed[4]
      /\ approved >= 6 => billed'[5] = billed[5]
      /\ approved >= 7 => billed'[6] = billed[6]
      /\ approved >= 8 => billed'[7] = billed[7]
      /\ approved >= 9 => billed'[8] = billed[8]
      /\ approved >= 10 => billed'[9] = billed[9]
      /\ approved >= 11 => billed'[10] = billed[10]
      /\ approved >= 13 => billed'[12] = billed[12]
  BY <1>1, <1>2
<1>5. ReleasedInv
  BY DEF SettledInv
<1>6. approved \in 0..13
  BY <1>1
<1>. QED
  BY <1>3, <1>4, <1>5, <1>6, SMTT(60) DEF ReleasedInv, Gives, By

(* Approving an amendment settles the attempt before it.                    *)
LEMMA SettledApprove ==
    ASSUME FundedInv, SettledInv, Approve
    PROVE  SettledInv'
<1>1. /\ approved' = approved + 1 /\ approved' \in Attempts /\ approved \in 0..12
      /\ Attempts = 0..Newest /\ Newest \in 0..13
      /\ receipts' = receipts /\ work' = work /\ billed' = billed
  <2>1. approved' = approved + 1 /\ approved' \in Attempts /\ approved \in Attempts
    BY FreedIs DEF FundedInv, SpendTypes
  <2>2. receipts' = receipts /\ work' = work /\ billed' = billed
    BY DEF Approve
  <2>. QED
    BY <2>1, <2>2, SpendAssumption DEF Attempts
<1>2. Leavings' = Leavings
  BY <1>1 DEF Leavings
<1>3. Settled(approved)
  <2>1. /\ receipts[approved].overhead = 1 /\ work[approved].status \in {"aborted", "stopped"}
        /\ Leavings[approved] \in Amendment(approved + 1, billed).left
        /\ billed[approved] \in Amendment(approved + 1, billed).bill
        /\ approved \in Attempts
    BY <1>1 DEF Approve
  <2>2. RowInv(approved, receipts[approved], work[approved]) /\ work[approved] \in WorkRows
    BY <2>1 DEF FundedInv, SpendTypes
  <2>3. approved <= 10 => work[approved].status = "aborted"
    BY <1>1, <2>1, <2>2 DEF RowInv
  <2>4. ASSUME approved = 12
        PROVE  /\ work[12].status = "stopped" /\ receipts[12].probe = 0
               /\ receipts[12].computes = 3 /\ work[12].dispatched = 1
               /\ work[12].confirmed + work[12].recovered = 1
               /\ work[12].confirmed = 0
    <3>1. work[12].status = "stopped"
      BY <2>1, <2>2, <2>4 DEF RowInv
    <3>2. Amendment(13, billed).left = Leaves({3}, {1}, {0}, {1}, {0}, {0})
      BY LeftIs, SMT
    <3>3. Leavings[12] \in Leaves({3}, {1}, {0}, {1}, {0}, {0})
      BY <2>1, <2>4, <3>2, SMT
    <3>4. Leavings[12] = [computes |-> receipts[12].computes, dispatched |-> work[12].dispatched,
                          confirmed |-> work[12].confirmed,
                          ended |-> work[12].confirmed + work[12].recovered,
                          probe |-> receipts[12].probe, charged |-> work[12].charged]
      BY <2>1, <2>4, LeavingsAre
    <3>. QED
      BY <3>1, <3>3, <3>4 DEF Leaves
  <2>. QED
    BY <2>1, <2>3, <2>4 DEF Settled
<1>4. (\A n \in Attempts : n < approved => Settled(n))'
  <2>1. ASSUME NEW n \in Attempts, n < approved + 1 PROVE Settled(n)
    BY <1>1, <1>3, <2>1 DEF SettledInv
  <2>2. \A n \in Attempts : n < approved' => Settled(n)'
    BY <1>1, <1>2, <2>1 DEF Settled
  <2>. QED
    BY <2>2 DEF Attempts
<1>5. (\A n \in 1..approved : EarlierEvidence(n, billed, Leavings))'
  <2>1. EarlierEvidence(approved + 1, billed, Leavings)
    BY DEF Approve
  <2>2. \A n \in 1..(approved + 1) : EarlierEvidence(n, billed, Leavings)
    BY <1>1, <2>1 DEF SettledInv
  <2>. QED
    BY <1>1, <1>2, <2>2
<1>6. ReleasedInv'
  BY ReleasedApprove DEF SettledInv
<1>. QED
  BY <1>4, <1>5, <1>6 DEF SettledInv

(* Every step keeps settled attempts settled and what is given back exact.  *)
LEMMA SettledStep == FundedInv /\ SettledInv /\ [SpendNext]_spendVars => SettledInv'
<1>. SUFFICES ASSUME FundedInv, SettledInv, [SpendNext]_spendVars, ~Approve PROVE SettledInv'
  BY SettledApprove
<1>1. approved' = approved
  BY
     DEF SpendNext, Qualify, Start, ReserveModel, ReserveOverhead, ReserveCompute, Readmit,
     Dispatch, Finish, AbortAttempt, Collect, Refused, HostCrash, ReserveProbe, Recover,
     PinBatch, RetainApproval, RetainAdmission, StockStep, spendVars, journalVars
<1>2. (\A n \in Attempts : n < approved => Settled(n))'
  <2>1. \A n \in Attempts : n < approved => Settled(n)'
    BY SettledStays DEF SettledInv
  <2>. QED
    BY <1>1, <2>1 DEF Attempts
<1>3. (\A n \in 1..approved : EarlierEvidence(n, billed, Leavings))'
  BY <1>1, EarlierStays
<1>4. ReleasedInv'
  BY ReleasedStays
<1>. QED
  BY <1>2, <1>3, <1>4 DEF SettledInv

(* Nothing is settled and nothing given back at the start.                  *)
LEMMA SettledInit == SpendInit => SettledInv
<1>. SUFFICES ASSUME SpendInit PROVE SettledInv
  OBVIOUS
<1>1. approved = 0 /\ released = NothingFreed
  BY DEF SpendInit
<1>2. \A n \in Attempts : ~(n < approved)
  BY <1>1, SpendAssumption DEF Attempts
<1>3. \A a \in Accounts : released[a].modal = 0 /\ released[a].openrouter = 0
  BY <1>1 DEF NothingFreed, Limits
<1>4. /\ Setup \in Accounts /\ 0 \in Accounts /\ 1 \in Accounts /\ 2 \in Accounts /\ 3 \in Accounts
      /\ 4 \in Accounts /\ 5 \in Accounts /\ 6 \in Accounts /\ 7 \in Accounts /\ 8 \in Accounts
      /\ 9 \in Accounts /\ 10 \in Accounts /\ 11 \in Accounts /\ 12 \in Accounts /\ 13 \in Accounts
  BY DEF Accounts, Setup
<1>5. ReleasedInv
  BY <1>1, <1>3, <1>4, SMT DEF ReleasedInv, Gives, By
<1>. QED
  BY <1>1, <1>2, <1>5 DEF SettledInv
-----------------------------------------------------------------------------
(* ReservesCoverExposure of one account.                                    *)
Covered(a) ==
    /\ Kept(released, a).openrouter >= Exposure(a).openrouter
    /\ Kept(released, a).modal >= Exposure(a).modal

(* The types of the rows of an attempt, in one place.                       *)
LEMMA RowNumbers ==
    ASSUME FundedInv, NEW n \in Attempts
    PROVE  LET r == receipts[n]
               w == work[n]
           IN  /\ n \in 0..13 /\ n \in Accounts /\ n # Setup /\ r \in ReceiptRows /\ w \in WorkRows
               /\ r.overhead \in 0..1 /\ r.model \in 0..1 /\ r.probe \in 0..1 /\ r.computes \in 0..12
               /\ w.dispatched \in 0..12 /\ w.dispatched <= r.computes
               /\ w.confirmed \in 0..12 /\ w.confirmed <= w.dispatched /\ w.recovered \in 0..1
               /\ w.charged \in Nat /\ (w.charged > 0 => r.model = 1)
               /\ billed[n] \in Nat
               /\ released[n].modal \in Int /\ released[n].openrouter \in Int
<1>1. n \in 0..13 /\ n \in Accounts /\ n # Setup
  BY SpendAssumption DEF Attempts, Accounts, Setup
<1>2. receipts[n] \in ReceiptRows /\ work[n] \in WorkRows /\ RowInv(n, receipts[n], work[n])
  BY DEF FundedInv, SpendTypes
<1>3. billed[n] \in Nat /\ released[n].modal \in Int /\ released[n].openrouter \in Int
  BY <1>1 DEF FundedInv, SpendTypes
<1>. QED
  BY <1>1, <1>2, <1>3 DEF RowInv, ReceiptRows, WorkRows

(* The account of an attempt, as sums of its receipts.                      *)
LEMMA AdmittedIs ==
    ASSUME FundedInv, NEW n \in Attempts
    PROVE  /\ Admitted(n).modal = receipts[n].overhead * OverheadBase
                                      + receipts[n].computes * EachOf(n) + receipts[n].probe * ProbeEach
           /\ Admitted(n).openrouter = receipts[n].model * ModelBase
           /\ Kept(released, n).modal = Admitted(n).modal - released[n].modal
           /\ Kept(released, n).openrouter = Admitted(n).openrouter - released[n].openrouter
BY RowNumbers DEF Admitted, Kept, Limits

(* What the account of an attempt must hold, before and after something of  *)
(* it was given back.                                                       *)
LEMMA ExposureIs ==
    ASSUME FundedInv, NEW n \in Attempts
    PROVE  LET late == billed[n] + Buffer + (InFlight(n) - work[n].recovered) * EachOf(n)
           IN  /\ Exposure(n).modal = IF released[n].modal = 0 THEN Allowance(n) ELSE late
               /\ Exposure(n).openrouter = IF released[n].openrouter = 0
                      THEN receipts[n].model * ModelBase ELSE work[n].charged
BY DEF Exposure, Limits

(* One execution of a solo attempt costs one allowance.                     *)
LEMMA EachIs == \A n \in 0..13 : EachOf(n) \in Nat /\ (n <= 10 => EachOf(n) = ComputeEach)
BY AllowancesAre DEF EachOf

(* What is dispatched was admitted: calls stay below their receipts.        *)
LEMMA AtMostAdmitted ==
    ASSUME FundedInv, NEW n \in Attempts
    PROVE  /\ Allowance(n) \in Int /\ Admitted(n).modal \in Nat /\ Allowance(n) <= Admitted(n).modal
           /\ Admitted(n).openrouter = receipts[n].model * ModelBase
           /\ Admitted(n).openrouter \in Nat
<1>. DEFINE r == receipts[n]
            w == work[n]
<1>0. /\ n \in 0..13 /\ r.overhead \in 0..1 /\ r.model \in 0..1 /\ r.probe \in 0..1
      /\ r.computes \in 0..12 /\ w.dispatched \in 0..12 /\ w.dispatched <= r.computes
      /\ w.confirmed \in 0..12 /\ w.recovered \in 0..1 /\ billed[n] \in Nat
      /\ w.charged \in Nat /\ (w.charged > 0 => r.model = 1)
  BY RowNumbers
<1>1. PICK each \in Nat : each = EachOf(n)
  BY <1>0, EachIs
<1>2. w.dispatched * each \in Nat /\ r.computes * each \in Nat /\ w.dispatched * each <= r.computes * each
  <2>1. PICK d \in Nat, c \in Nat : d = w.dispatched /\ c = r.computes
    BY <1>0
  <2>2. d <= c
    BY <1>0, <2>1
  <2>3. d * each \in Nat /\ c * each \in Nat /\ d * each <= c * each
    <3>1. PICK k \in Nat : c = d + k
      BY <2>2
    <3>2. c * each = d * each + k * each /\ k * each \in Nat /\ d * each \in Nat
      BY <3>1
    <3>. QED
      BY <3>2
  <2>. QED
    BY <2>1, <2>3
<1>3. /\ OverheadBase * r.overhead = IF r.overhead = 1 THEN OverheadBase ELSE 0
      /\ r.overhead * OverheadBase = IF r.overhead = 1 THEN OverheadBase ELSE 0
      /\ r.probe * ProbeEach = IF r.probe = 1 THEN ProbeEach ELSE 0
      /\ r.model * ModelBase = IF r.model = 1 THEN ModelBase ELSE 0
  BY <1>0, AllowancesAre
<1>4. Allowance(n) \in Int /\ Allowance(n) <= Admitted(n).modal /\ Admitted(n).modal \in Nat
  <2>1. PICK p \in Nat, q \in Nat : p = w.dispatched * each /\ q = r.computes * each /\ p <= q
    BY <1>2
  <2>2. PICK o \in Nat, c \in Nat : /\ o = OverheadBase * r.overhead /\ o = r.overhead * OverheadBase
                                    /\ c = r.probe * ProbeEach
    BY <1>3, AllowancesAre
  <2>3. Allowance(n) = o + p
    BY <1>1, <2>1, <2>2 DEF Allowance
  <2>4. Admitted(n).modal = o + q + c
    BY <1>1, <2>1, <2>2, AdmittedIs
  <2>. QED
    BY <2>1, <2>2, <2>3, <2>4
<1>5. Admitted(n).openrouter = r.model * ModelBase /\ Admitted(n).openrouter \in Nat
  BY <1>0, <1>3, AdmittedIs, AllowancesAre
<1>. QED
  BY <1>4, <1>5

(* What the account of an attempt must hold is an integer.                  *)
LEMMA ExposureTyped ==
    ASSUME FundedInv, NEW n \in Attempts
    PROVE  Exposure(n).modal \in Int
<1>1. InFlight(n) - work[n].recovered \in Int
  <2>1. work[n].dispatched \in Int /\ work[n].confirmed \in Int /\ work[n].recovered \in Int
    BY RowNumbers
  <2>. QED
    BY <2>1 DEF InFlight
<1>2. PICK f \in Int, each \in Int : f = InFlight(n) - work[n].recovered /\ each = EachOf(n)
  BY <1>1, RowNumbers, EachIs
<1>3. f * each \in Int
  BY <1>2
<1>4. billed[n] + Buffer + (InFlight(n) - work[n].recovered) * EachOf(n) \in Int
  BY <1>2, <1>3, RowNumbers, AllowancesAre
<1>. QED
  BY <1>4, AtMostAdmitted, ExposureIs

(* An account of which nothing was given back covers its exposure.          *)
LEMMA CoveredOpen ==
    ASSUME FundedInv, NEW n \in Attempts, released[n].modal = 0, released[n].openrouter = 0
    PROVE  Covered(n)
<1>1. /\ Kept(released, n).modal = Admitted(n).modal
      /\ Kept(released, n).openrouter = Admitted(n).openrouter
  BY AdmittedIs, AtMostAdmitted
<1>2. Exposure(n).modal = Allowance(n) /\ Exposure(n).openrouter = Admitted(n).openrouter
  BY ExposureIs, AtMostAdmitted
<1>. QED
  BY <1>1, <1>2, AtMostAdmitted DEF Covered

(* The account of an attempt that an amendment has settled.                 *)
LEMMA SettledRow ==
    ASSUME FundedInv, SettledInv, NEW n \in Attempts, n <= 10, n < approved
    PROVE  LET r == receipts[n]
               w == work[n]
           IN  /\ Admitted(n).modal = OverheadBase + r.computes * ComputeEach + r.probe * ProbeEach
               /\ Admitted(n).openrouter = ModelBase
               /\ Exposure(n).openrouter = IF released[n].openrouter = 0 THEN ModelBase
                                           ELSE w.charged
               /\ released[n].modal = 0 => Exposure(n).modal <= Admitted(n).modal
               /\ released[n].modal # 0 =>
                      Exposure(n).modal = billed[n] + Buffer
                          + (w.dispatched - (w.confirmed + w.recovered)) * ComputeEach
               /\ [computes |-> r.computes, dispatched |-> w.dispatched, confirmed |-> w.confirmed,
                   ended |-> w.confirmed + w.recovered, probe |-> r.probe, charged |-> w.charged]
                      \in Amendment(n + 1, billed).left
               /\ billed[n] \in Amendment(n + 1, billed).bill
<1>. DEFINE r == receipts[n]
            w == work[n]
            late == billed[n] + Buffer + (InFlight(n) - w.recovered) * EachOf(n)
<1>1. /\ w.status = "aborted" /\ Leavings[n] \in Amendment(n + 1, billed).left
      /\ billed[n] \in Amendment(n + 1, billed).bill /\ r.overhead = 1
  BY DEF SettledInv, Settled
<1>2. /\ n \in 0..13 /\ r.computes \in Nat /\ r.probe \in Nat /\ w.dispatched \in Int
      /\ w.confirmed \in Int /\ w.recovered \in Int /\ billed[n] \in Nat /\ r.model \in 0..1
  BY RowNumbers
<1>3. r.model = 1
  BY <1>1 DEF FundedInv, RowInv
<1>4. EachOf(n) = ComputeEach
  BY <1>2, EachIs
<1>5. /\ Admitted(n).modal = OverheadBase + r.computes * ComputeEach + r.probe * ProbeEach
      /\ Admitted(n).openrouter = ModelBase
  <2>1. r.overhead * OverheadBase = OverheadBase /\ r.model * ModelBase = ModelBase
    BY <1>1, <1>3, AllowancesAre
  <2>. QED
    BY <1>4, <2>1, AdmittedIs
<1>6. /\ Exposure(n).openrouter = IF released[n].openrouter = 0 THEN ModelBase ELSE w.charged
      /\ Exposure(n).modal = IF released[n].modal = 0 THEN Allowance(n) ELSE late
  BY <1>5, AtMostAdmitted, ExposureIs
<1>7. late = billed[n] + Buffer + (w.dispatched - (w.confirmed + w.recovered)) * ComputeEach
  <2>1. InFlight(n) - w.recovered = w.dispatched - (w.confirmed + w.recovered)
    BY <1>2 DEF InFlight
  <2>. QED
    BY <1>4, <2>1
<1>8. Allowance(n) <= Admitted(n).modal
  BY AtMostAdmitted
<1>. HIDE DEF late
<1>. QED
  BY <1>1, <1>5, <1>6, <1>7, <1>8, LeavingsAre

(* The rows of every settled solo attempt, as its amendment found them.     *)
LEMMA SettledRowIs ==
    ASSUME FundedInv, SettledInv, NEW n \in Attempts, n <= 10, n < approved
    PROVE  LET r == receipts[n]
               w == work[n]
               ended == w.confirmed + w.recovered
           IN  /\ n = 0 => /\ r.computes \in 1..12 /\ w.dispatched = r.computes
                           /\ ended = r.computes /\ r.probe = 0 /\ w.charged = 0
               /\ n = 1 => r.computes = 1 /\ w.dispatched = 1 /\ ended = 1 /\ r.probe = 0 /\ w.charged = 0
               /\ n = 2 => r.computes = 2 /\ w.dispatched = 2 /\ ended = 2 /\ r.probe = 0 /\ w.charged = 1352
               /\ n = 3 => r.computes = 2 /\ w.dispatched = 2 /\ ended = 2 /\ r.probe = 0 /\ w.charged = 3082
               /\ n = 4 => r.computes = 1 /\ w.dispatched = 1 /\ ended = 1 /\ r.probe = 0 /\ w.charged = 0
               /\ n = 5 => r.computes = 12 /\ w.dispatched = 6 /\ ended \in {5, 6} /\ r.probe = 0 /\ w.charged = 5110
               /\ n = 6 => r.computes = 12 /\ w.dispatched = 7 /\ ended = 7 /\ r.probe = 0 /\ w.charged = 4801
               /\ n = 7 => r.computes = 1 /\ w.dispatched = 1 /\ ended \in {0, 1} /\ r.probe = 1 /\ w.charged = 0
               /\ n = 8 => r.computes = 12 /\ w.dispatched = 6 /\ ended = 6 /\ r.probe = 1 /\ w.charged = 3115
               /\ n = 9 => r.computes = 1 /\ w.dispatched = 1 /\ ended = 1 /\ r.probe = 0 /\ w.charged = 0
               /\ n = 10 => r.computes = 12 /\ w.dispatched = 7 /\ ended = 7 /\ r.probe = 0 /\ w.charged = 4292
<1>. DEFINE r == receipts[n]
            w == work[n]
            l == [computes |-> r.computes, dispatched |-> w.dispatched, confirmed |-> w.confirmed,
                  ended |-> w.confirmed + w.recovered, probe |-> r.probe, charged |-> w.charged]
            ended == w.confirmed + w.recovered
<1>a. l \in Amendment(n + 1, billed).left
  BY SettledRow
<1>b. /\ l.computes = r.computes /\ l.dispatched = w.dispatched /\ l.ended = ended
      /\ l.probe = r.probe /\ l.charged = w.charged
  OBVIOUS
<1>. HIDE DEF l, r, w, ended
<1>10. ASSUME n = 0 PROVE /\ r.computes \in 1..12 /\ w.dispatched = r.computes
                         /\ ended = r.computes /\ r.probe = 0 /\ w.charged = 0
  <2>1. l \in Retry.left
    BY <1>a, <1>10, AmendmentIs
  <2>. QED
    BY <1>b, <2>1, SMT DEF Retry, Leaves
<1>11. ASSUME n = 1
      PROVE  r.computes = 1 /\ w.dispatched = 1 /\ ended = 1 /\ r.probe = 0 /\ w.charged = 0
  <2>1. l \in Leaves({1}, {1}, {1}, {1}, {0}, {0})
    <3>1. Amendment(2, billed).left = Leaves({1}, {1}, {1}, {1}, {0}, {0})
      BY LeftIs, SMT
    <3>. QED
      BY <1>a, <1>11, <3>1
  <2>. QED
    BY <1>b, <2>1, SMT DEF Leaves
<1>12. ASSUME n = 2
      PROVE  r.computes = 2 /\ w.dispatched = 2 /\ ended = 2 /\ r.probe = 0 /\ w.charged = 1352
  <2>1. l \in Leaves({2}, {2}, {1}, {2}, {0}, {1352})
    <3>1. Amendment(3, billed).left = Leaves({2}, {2}, {1}, {2}, {0}, {1352})
      BY LeftIs, SMT
    <3>. QED
      BY <1>a, <1>12, <3>1
  <2>. QED
    BY <1>b, <2>1, SMT DEF Leaves
<1>13. ASSUME n = 3
      PROVE  r.computes = 2 /\ w.dispatched = 2 /\ ended = 2 /\ r.probe = 0 /\ w.charged = 3082
  <2>1. l \in Leaves({2}, {2}, {2}, {2}, {0}, {3082})
    <3>1. Amendment(4, billed).left = Leaves({2}, {2}, {2}, {2}, {0}, {3082})
      BY LeftIs, SMT
    <3>. QED
      BY <1>a, <1>13, <3>1
  <2>. QED
    BY <1>b, <2>1, SMT DEF Leaves
<1>14. ASSUME n = 4
      PROVE  r.computes = 1 /\ w.dispatched = 1 /\ ended = 1 /\ r.probe = 0 /\ w.charged = 0
  <2>1. l \in Leaves({1}, {1}, {0}, {1}, {0}, {0})
    <3>1. Amendment(5, billed).left = Leaves({1}, {1}, {0}, {1}, {0}, {0})
      BY LeftIs, SMT
    <3>. QED
      BY <1>a, <1>14, <3>1
  <2>. QED
    BY <1>b, <2>1, SMT DEF Leaves
<1>15. ASSUME n = 5
      PROVE  r.computes = 12 /\ w.dispatched = 6 /\ ended \in {5, 6} /\ r.probe = 0 /\ w.charged = 5110
  <2>1. l \in Leaves({12}, {6}, {5}, {5, 6}, {0}, {5110})
    <3>1. Amendment(6, billed).left = Leaves({12}, {6}, {5}, {5, 6}, {0}, {5110})
      BY LeftIs, SMT
    <3>. QED
      BY <1>a, <1>15, <3>1
  <2>. QED
    BY <1>b, <2>1, SMT DEF Leaves
<1>16. ASSUME n = 6
      PROVE  r.computes = 12 /\ w.dispatched = 7 /\ ended = 7 /\ r.probe = 0 /\ w.charged = 4801
  <2>1. l \in Leaves({12}, {7}, {6}, {7}, {0}, {4801})
    <3>1. Amendment(7, billed).left = Leaves({12}, {7}, {6}, {7}, {0}, {4801})
      BY LeftIs, SMT
    <3>. QED
      BY <1>a, <1>16, <3>1
  <2>. QED
    BY <1>b, <2>1, SMT DEF Leaves
<1>17. ASSUME n = 7
      PROVE  r.computes = 1 /\ w.dispatched = 1 /\ ended \in {0, 1} /\ r.probe = 1 /\ w.charged = 0
  <2>1. l \in Leaves({1}, {1}, {0}, {0, 1}, {1}, {0})
    <3>1. Amendment(8, billed).left = Leaves({1}, {1}, {0}, {0, 1}, {1}, {0})
      BY LeftIs, SMT
    <3>. QED
      BY <1>a, <1>17, <3>1
  <2>. QED
    BY <1>b, <2>1, SMT DEF Leaves
<1>18. ASSUME n = 8
      PROVE  r.computes = 12 /\ w.dispatched = 6 /\ ended = 6 /\ r.probe = 1 /\ w.charged = 3115
  <2>1. l \in Leaves({12}, {6}, {5}, {6}, {1}, {3115})
    <3>1. Amendment(9, billed).left = Leaves({12}, {6}, {5}, {6}, {1}, {3115})
      BY LeftIs, SMT
    <3>. QED
      BY <1>a, <1>18, <3>1
  <2>. QED
    BY <1>b, <2>1, SMT DEF Leaves
<1>19. ASSUME n = 9
      PROVE  r.computes = 1 /\ w.dispatched = 1 /\ ended = 1 /\ r.probe = 0 /\ w.charged = 0
  <2>1. l \in Leaves({1}, {1}, {0}, {1}, {0}, {0})
    <3>1. Amendment(10, billed).left = Leaves({1}, {1}, {0}, {1}, {0}, {0})
      BY LeftIs, SMT
    <3>. QED
      BY <1>a, <1>19, <3>1
  <2>. QED
    BY <1>b, <2>1, SMT DEF Leaves
<1>20. ASSUME n = 10
      PROVE  r.computes = 12 /\ w.dispatched = 7 /\ ended = 7 /\ r.probe = 0 /\ w.charged = 4292
  <2>1. l \in Leaves({12}, {7}, {6, 7}, {7}, {0}, {4292})
    <3>1. Amendment(11, billed).left = Leaves({12}, {7}, {6, 7}, {7}, {0}, {4292})
      BY LeftIs, SMT
    <3>. QED
      BY <1>a, <1>20, <3>1
  <2>. QED
    BY <1>b, <2>1, SMT DEF Leaves
<1>. QED
  BY <1>10, <1>11, <1>12, <1>13, <1>14, <1>15, <1>16, <1>17, <1>18, <1>19, <1>20 DEF r, w, ended

(* What an amendment leaves of a settled solo attempt covers its bill, the  *)
(* buffer and every call not known to have ended, one attempt after the     *)
(* other.                                                                   *)
LEMMA CoveredSettled ==
    ASSUME FundedInv, SettledInv, NEW n \in Attempts, n <= 10, n < approved
    PROVE  Covered(n)
<1>. DEFINE r == receipts[n]
            w == work[n]
            ended == w.confirmed + w.recovered
            kept == Kept(released, n)
            risk == Exposure(n)
<1>1. /\ kept.modal = Admitted(n).modal - released[n].modal
      /\ kept.openrouter = Admitted(n).openrouter - released[n].openrouter
      /\ Admitted(n).modal = OverheadBase + r.computes * ComputeEach + r.probe * ProbeEach
      /\ Admitted(n).openrouter = ModelBase
      /\ risk.openrouter = IF released[n].openrouter = 0 THEN ModelBase ELSE w.charged
      /\ released[n].modal = 0 => risk.modal <= Admitted(n).modal
      /\ released[n].modal # 0 =>
             risk.modal = billed[n] + Buffer + (w.dispatched - ended) * ComputeEach
  BY AdmittedIs, SettledRow
<1>2. /\ n \in 0..10 /\ billed[n] \in Nat /\ n # Setup /\ approved \in 0..13
      /\ billed[n] \in Amendment(n + 1, billed).bill /\ risk.modal \in Int
  <2>1. n \in 0..10 /\ approved \in 0..13
    BY SpendAssumption DEF FundedInv, SpendTypes, Attempts
  <2>2. billed[n] \in Nat /\ n # Setup /\ risk.modal \in Int
    BY RowNumbers, ExposureTyped
  <2>3. billed[n] \in Amendment(n + 1, billed).bill
    BY SettledRow
  <2>. QED
    BY <2>1, <2>2, <2>3
<1>3. ReleasedInv
  BY DEF SettledInv
<1>4. \A v \in 1..approved : EarlierEvidence(v, billed, Leavings)
  BY DEF SettledInv
<1>. USE DEF Gives, By
<1>10. ASSUME n = 0 PROVE kept.openrouter >= risk.openrouter /\ kept.modal >= risk.modal
  <2>1. /\ r.computes \in 1..12 /\ w.dispatched = r.computes /\ ended = r.computes
        /\ r.probe = 0 /\ w.charged = 0
    BY <1>10, SettledRowIs
  <2>2. released[n].openrouter = ModelBase
    BY <1>2, <1>3, <1>10, SMT DEF ReleasedInv
  <2>3. \/ approved < 3 /\ released[n].modal = 0
        \/ approved >= 3 /\ released[n].modal = ComputeEach - billed[n] - Buffer
    BY <1>2, <1>3, <1>10, SMT DEF ReleasedInv
  <2>4. approved >= 3 => r.computes = 1
    <3>1. approved >= 3 => Leavings[0].computes = 1
      <4>1. approved >= 3 => EarlierEvidence(3, billed, Leavings)
        BY <1>2, <1>4
      <4>. QED
        BY <4>1 DEF EarlierEvidence
    <3>2. Leavings[n].computes = r.computes
      BY DEF Leavings
    <3>. QED
      BY <1>10, <3>1, <3>2
  <2>. HIDE DEF r, w, ended, kept, risk
  <2>5. kept.openrouter >= risk.openrouter
    <3>1. kept.openrouter = ModelBase - ModelBase /\ risk.openrouter = 0
      BY <1>1, <2>1, <2>2, AllowancesAre
    <3>. QED
      BY <3>1, AllowancesAre, SMT
  <2>6. CASE released[n].modal = 0
    <3>1. kept.modal = Admitted(n).modal - 0 /\ risk.modal <= Admitted(n).modal
      BY <1>1, <2>6
    <3>2. Admitted(n).modal \in Int
      BY <1>1, <2>1, AllowancesAre, SMT
    <3>. QED
      BY <1>2, <2>5, <3>1, <3>2, SMT
  <2>7. CASE released[n].modal # 0
    <3>1. r.computes = 1 /\ released[n].modal = ComputeEach - billed[n] - Buffer
      BY <2>3, <2>4, <2>7
    <3>2. /\ kept.modal = (OverheadBase + 1 * ComputeEach + 0 * ProbeEach)
                              - (ComputeEach - billed[n] - Buffer)
          /\ risk.modal = billed[n] + Buffer + (w.dispatched - ended) * ComputeEach
      BY <1>1, <2>1, <2>7, <3>1
    <3>3. w.dispatched - ended = 0
      BY <2>1, <3>1, SMT
    <3>. QED
      BY <1>2, <2>5, <3>2, <3>3, AllowancesAre, SMT
  <2>. QED
    BY <2>6, <2>7
<1>11. ASSUME n = 1 PROVE kept.openrouter >= risk.openrouter /\ kept.modal >= risk.modal
  <2>1. r.computes = 1 /\ w.dispatched = 1 /\ ended = 1 /\ r.probe = 0 /\ w.charged = 0
    BY <1>11, SettledRowIs
  <2>2. /\ released[n].openrouter = ModelBase
        /\ released[n].modal = OneAllowance - billed[n] - Buffer
    BY <1>2, <1>3, <1>11, SMT DEF ReleasedInv
  <2>. HIDE DEF r, w, ended, kept, risk
  <2>. QED
    BY <1>1, <1>2, <2>1, <2>2, SMT
       DEF ModelBase, OverheadBase, ComputeEach, ProbeEach, Buffer, SmallBuffer,
       FullAllowance, OneAllowance
<1>12. ASSUME n = 2 PROVE kept.openrouter >= risk.openrouter /\ kept.modal >= risk.modal
  <2>1. r.computes = 2 /\ w.dispatched = 2 /\ ended = 2 /\ r.probe = 0 /\ w.charged = 1352
    BY <1>12, SettledRowIs
  <2>2. /\ released[n].openrouter = ModelBase - 1352 - SmallBuffer
        /\ released[n].modal = 2000000
    BY <1>2, <1>3, <1>12, SMT DEF ReleasedInv
  <2>3. billed[n] <= 432160
    <3>1. billed[n] \in Amendment(3, billed).bill
      BY <1>2, <1>12
    <3>2. billed[n] \in 1..(532160 - Buffer)
      BY <3>1, BillIs, SMT
    <3>3. PICK b \in Nat : b = billed[n]
      BY <1>2
    <3>4. b <= 532160 - Buffer
      BY <3>2, <3>3, AllowancesAre, SMT
    <3>. QED
      BY <3>3, <3>4, SMT DEF Buffer
  <2>. HIDE DEF r, w, ended, kept, risk
  <2>. QED
    BY <1>1, <1>2, <2>1, <2>2, <2>3, SMT
       DEF ModelBase, OverheadBase, ComputeEach, ProbeEach, Buffer, SmallBuffer,
       FullAllowance, OneAllowance
<1>13. ASSUME n = 3 PROVE kept.openrouter >= risk.openrouter /\ kept.modal >= risk.modal
  <2>1. r.computes = 2 /\ w.dispatched = 2 /\ ended = 2 /\ r.probe = 0 /\ w.charged = 3082
    BY <1>13, SettledRowIs
  <2>2. /\ released[n].openrouter = ModelBase - 3082 - SmallBuffer
        /\ released[n].modal = OneAllowance + ComputeEach - billed[n] - Buffer
    BY <1>2, <1>3, <1>13, SMT DEF ReleasedInv
  <2>. HIDE DEF r, w, ended, kept, risk
  <2>. QED
    BY <1>1, <1>2, <2>1, <2>2, SMT
       DEF ModelBase, OverheadBase, ComputeEach, ProbeEach, Buffer, SmallBuffer,
       FullAllowance, OneAllowance
<1>14. ASSUME n = 4 PROVE kept.openrouter >= risk.openrouter /\ kept.modal >= risk.modal
  <2>1. r.computes = 1 /\ w.dispatched = 1 /\ ended = 1 /\ r.probe = 0 /\ w.charged = 0
    BY <1>14, SettledRowIs
  <2>2. /\ released[n].openrouter = ModelBase - SmallBuffer
        /\ released[n].modal = OneAllowance - billed[n] - Buffer - SmallBuffer
    BY <1>2, <1>3, <1>14, SMT DEF ReleasedInv
  <2>. HIDE DEF r, w, ended, kept, risk
  <2>. QED
    BY <1>1, <1>2, <2>1, <2>2, SMT
       DEF ModelBase, OverheadBase, ComputeEach, ProbeEach, Buffer, SmallBuffer,
       FullAllowance, OneAllowance
<1>15. ASSUME n = 5 PROVE kept.openrouter >= risk.openrouter /\ kept.modal >= risk.modal
  <2>1. r.computes = 12 /\ w.dispatched = 6 /\ ended \in {5, 6} /\ r.probe = 0 /\ w.charged = 5110
    BY <1>15, SettledRowIs
  <2>2. /\ released[n].openrouter = ModelBase - 5110 - SmallBuffer
        /\ released[n].modal = FullAllowance - billed[n] - Buffer - ComputeEach
    BY <1>2, <1>3, <1>15, SMT DEF ReleasedInv
  <2>. HIDE DEF r, w, ended, kept, risk
  <2>. QED
    BY <1>1, <1>2, <2>1, <2>2, SMT
       DEF ModelBase, OverheadBase, ComputeEach, ProbeEach, Buffer, SmallBuffer,
       FullAllowance, OneAllowance
<1>16. ASSUME n = 6 PROVE kept.openrouter >= risk.openrouter /\ kept.modal >= risk.modal
  <2>1. r.computes = 12 /\ w.dispatched = 7 /\ ended = 7 /\ r.probe = 0 /\ w.charged = 4801
    BY <1>16, SettledRowIs
  <2>2. /\ released[n].openrouter = ModelBase - 4801 - SmallBuffer
        /\ released[n].modal = FullAllowance - billed[n] - 48 - Buffer
    BY <1>2, <1>3, <1>16, SMT DEF ReleasedInv
  <2>. HIDE DEF r, w, ended, kept, risk
  <2>. QED
    BY <1>1, <1>2, <2>1, <2>2, SMT
       DEF ModelBase, OverheadBase, ComputeEach, ProbeEach, Buffer, SmallBuffer,
       FullAllowance, OneAllowance
<1>17. ASSUME n = 7 PROVE kept.openrouter >= risk.openrouter /\ kept.modal >= risk.modal
  <2>1. r.computes = 1 /\ w.dispatched = 1 /\ ended \in {0, 1} /\ r.probe = 1 /\ w.charged = 0
    BY <1>17, SettledRowIs
  <2>2. released[n].openrouter = ModelBase
    BY <1>2, <1>3, <1>17, SMT DEF ReleasedInv
  <2>3. \/ approved < 10 /\ released[n].modal = 0
        \/ approved >= 10 /\ released[n].modal = OneAllowance - billed[n] - Buffer
    BY <1>2, <1>3, <1>17, SMT DEF ReleasedInv
  <2>4. approved >= 10 => ended = 1
    <3>1. approved >= 10 => Leavings[7].ended = 1
      <4>1. approved >= 10 => EarlierEvidence(10, billed, Leavings)
        BY <1>2, <1>4
      <4>. QED
        BY <4>1 DEF EarlierEvidence
    <3>2. Leavings[n].ended = ended
      BY DEF Leavings
    <3>. QED
      BY <1>17, <3>1, <3>2
  <2>. HIDE DEF r, w, ended, kept, risk
  <2>. QED
    BY <1>1, <1>2, <2>1, <2>2, <2>3, <2>4, SMT
       DEF ModelBase, OverheadBase, ComputeEach, ProbeEach, Buffer, OneAllowance
<1>18. ASSUME n = 8 PROVE kept.openrouter >= risk.openrouter /\ kept.modal >= risk.modal
  <2>1. r.computes = 12 /\ w.dispatched = 6 /\ ended = 6 /\ r.probe = 1 /\ w.charged = 3115
    BY <1>18, SettledRowIs
  <2>2. /\ released[n].openrouter = ModelBase - 3115 - SmallBuffer
        /\ released[n].modal = FullAllowance - billed[n] - Buffer
    BY <1>2, <1>3, <1>18, SMT DEF ReleasedInv
  <2>. HIDE DEF r, w, ended, kept, risk
  <2>. QED
    BY <1>1, <1>2, <2>1, <2>2, SMT
       DEF ModelBase, OverheadBase, ComputeEach, ProbeEach, Buffer, SmallBuffer,
       FullAllowance, OneAllowance
<1>19. ASSUME n = 9 PROVE kept.openrouter >= risk.openrouter /\ kept.modal >= risk.modal
  <2>1. r.computes = 1 /\ w.dispatched = 1 /\ ended = 1 /\ r.probe = 0 /\ w.charged = 0
    BY <1>19, SettledRowIs
  <2>2. /\ released[n].openrouter = ModelBase
        /\ released[n].modal = OneAllowance - billed[n] - Buffer
    BY <1>2, <1>3, <1>19, SMT DEF ReleasedInv
  <2>. HIDE DEF r, w, ended, kept, risk
  <2>. QED
    BY <1>1, <1>2, <2>1, <2>2, SMT
       DEF ModelBase, OverheadBase, ComputeEach, ProbeEach, Buffer, SmallBuffer,
       FullAllowance, OneAllowance
<1>20. ASSUME n = 10 PROVE kept.openrouter >= risk.openrouter /\ kept.modal >= risk.modal
  <2>1. r.computes = 12 /\ w.dispatched = 7 /\ ended = 7 /\ r.probe = 0 /\ w.charged = 4292
    BY <1>20, SettledRowIs
  <2>2. /\ released[n].openrouter = ModelBase - 4292
        /\ released[n].modal = FullAllowance - billed[n] - Buffer
    BY <1>2, <1>3, <1>20, SMT DEF ReleasedInv
  <2>. HIDE DEF r, w, ended, kept, risk
  <2>. QED
    BY <1>1, <1>2, <2>1, <2>2, SMT
       DEF ModelBase, OverheadBase, ComputeEach, ProbeEach, Buffer, SmallBuffer,
       FullAllowance, OneAllowance
<1>5. kept.openrouter >= risk.openrouter /\ kept.modal >= risk.modal
  BY <1>2, <1>10, <1>11, <1>12, <1>13, <1>14, <1>15, <1>16, <1>17, <1>18, <1>19, <1>20
<1>. QED
  BY <1>5 DEF Covered

(* What v13 leaves of the matched pairs covers the one call they            *)
(* dispatched.                                                              *)
LEMMA CoveredPair ==
    ASSUME FundedInv, SettledInv, 12 \in Attempts, approved = 13
    PROVE  Covered(12)
<1>. DEFINE r == receipts[12]
            w == work[12]
            late == billed[12] + Buffer + (InFlight(12) - w.recovered) * EachOf(12)
<1>1. /\ w.status = "stopped" /\ r.probe = 0 /\ r.computes = 3 /\ w.dispatched = 1
      /\ w.confirmed + w.recovered = 1 /\ r.overhead = 1
  <2>1. Settled(12)
    BY DEF SettledInv
  <2>. QED
    BY <2>1, SMT DEF Settled
<1>2. EachOf(12) = PairEach /\ billed[12] \in Nat /\ w.confirmed \in Int /\ w.recovered \in Int
  BY RowNumbers DEF EachOf
<1>3. Kept(released, 12).modal = billed[12] + Buffer
  <2>1. released[12].modal = PairAllowance - billed[12] - Buffer
    BY SMT DEF SettledInv, ReleasedInv, Gives, By
  <2>2. Admitted(12).modal = OverheadBase + 3 * PairEach
    <3>1. r.overhead * OverheadBase = OverheadBase /\ r.probe * ProbeEach = 0
      BY <1>1, AllowancesAre
    <3>. QED
      BY <1>1, <1>2, <3>1, AdmittedIs, SMT DEF PairEach, OverheadBase
  <2>3. Kept(released, 12).modal = Admitted(12).modal - released[12].modal
    BY AdmittedIs
  <2>. QED
    BY <1>2, <2>1, <2>2, <2>3, SMT DEF PairAllowance, PairEach, OverheadBase, Buffer
<1>4. Kept(released, 12).modal >= Exposure(12).modal
  <2>1. InFlight(12) - w.recovered = 0
    BY <1>1, <1>2 DEF InFlight
  <2>2. late = billed[12] + Buffer
    BY <1>2, <2>1, AllowancesAre
  <2>3. CASE released[12].modal # 0
    <3>1. Exposure(12).modal = billed[12] + Buffer
      BY <2>2, <2>3, ExposureIs
    <3>. QED
      BY <1>2, <1>3, <3>1, AllowancesAre
  <2>4. CASE released[12].modal = 0
    <3>1. Exposure(12).modal = Allowance(12)
      BY <2>4, ExposureIs
    <3>2. Kept(released, 12).modal = Admitted(12).modal
      BY <2>4, AdmittedIs, AtMostAdmitted
    <3>. QED
      BY <3>1, <3>2, AtMostAdmitted
  <2>. QED
    BY <2>3, <2>4
<1>5. Kept(released, 12).openrouter >= Exposure(12).openrouter
  <2>1. released[12].openrouter = 0
    BY SMT DEF SettledInv, ReleasedInv, Gives, By
  <2>2. Exposure(12).openrouter = Admitted(12).openrouter
    BY <2>1, ExposureIs, AtMostAdmitted
  <2>. QED
    BY <2>1, <2>2, AtMostAdmitted, AdmittedIs
<1>. QED
  BY <1>4, <1>5 DEF Covered

(* The accounts of settled and of open attempts, together.                  *)
LEMMA SettledCovers == FundedInv /\ SettledInv => ReservesCoverExposure
<1>. SUFFICES ASSUME FundedInv, SettledInv PROVE ReservesCoverExposure
  OBVIOUS
<1>1. approved \in Attempts /\ Attempts = 0..Newest /\ Newest \in 0..13 /\ approved \in 0..13
  BY SpendAssumption DEF FundedInv, SpendTypes, Attempts
<1>2. Kept(released, Setup).openrouter >= 0
  <2>1. released[Setup].openrouter = 0
    BY SMT DEF SettledInv, ReleasedInv, Gives
  <2>2. \A q : Paid(q).openrouter \in Nat
    BY DEF Paid, QualificationAmount, Limits
  <2>. QED
    BY <2>1, <2>2 DEF Kept, Admitted, Limits
<1>. SUFFICES ASSUME NEW a \in 0..approved PROVE Covered(a)
  BY <1>2 DEF ReservesCoverExposure, Covered
<1>3. CASE a < approved /\ a <= 10
  <2>1. a \in Attempts
    BY <1>1, <1>3
  <2>. QED
    BY <1>3, <2>1, CoveredSettled
<1>4. CASE a = 12 /\ a < approved
  BY <1>1, <1>4, CoveredPair
<1>5. CASE a = approved \/ a = 11
  <2>1. a \in Attempts /\ a \in 0..13
    BY <1>1, <1>5
  <2>2. released[a].modal = 0 /\ released[a].openrouter = 0
    <3>1. ReleasedInv
      BY DEF SettledInv
    <3>. QED
      BY <1>1, <1>5, <2>1, <3>1, SMTT(60) DEF ReleasedInv, Gives, By
  <2>. QED
    BY <2>1, <2>2, CoveredOpen
<1>. QED
  BY <1>1, <1>3, <1>4, <1>5

(* For every instance: each attempt before the newest amendment has left    *)
(* what the amendment after it demanded, its bill is the one accepted, and  *)
(* each account was given back exactly what the retained amendments prove   *)
(* unused.                                                                  *)
THEOREM SettledInvariant == SpendSpec => [](FundedInv /\ SettledInv)
<1>1. SpendInit => FundedInv /\ SettledInv
  BY FundedInit, SettledInit
<1>2. (FundedInv /\ SettledInv) /\ [SpendNext]_spendVars => (FundedInv /\ SettledInv)'
  BY FundedStep, SettledStep
<1>. QED
  BY <1>1, <1>2, PTL DEF SpendSpec

(* pilot_retry.py: whatever the amendments give back, in whatever order     *)
(* attempts start, crash and end and calls are recovered, each account      *)
(* keeps its allowances, or what the evidence of its release says is owed,  *)
(* the buffer, and the allowance of a call not known to have ended.         *)
THEOREM ReservesCover == SpendSpec => []ReservesCoverExposure
BY SettledInvariant, SettledCovers, PTL
-----------------------------------------------------------------------------
(* The accounts of the journal.                                             *)
Rows == Setup..Newest

(* A step that adds an admission to account a, and to no other.             *)
Admits(a, modal, openrouter) ==
    /\ a \in Rows /\ modal \in Nat /\ openrouter \in Nat
    /\ approved' = approved /\ released' = released /\ Room(modal, openrouter)
    /\ Admitted(a)'.modal = Admitted(a).modal + modal
    /\ Admitted(a)'.openrouter = Admitted(a).openrouter + openrouter
    /\ \A c \in Rows : c # a => Admitted(c)' = Admitted(c)

(* The accounts of the journal are the setup and the attempts.              *)
LEMMA RowsAre == Rows = {Setup} \cup Attempts /\ Rows \subseteq Accounts /\ Newest \in 0..13
                 /\ Rows = (0 - 1)..Newest
BY SpendAssumption DEF Rows, Setup, Attempts, Accounts

(* What an account admits, gives back and keeps are integers.               *)
LEMMA AdmittedTyped ==
    ASSUME FundedInv, NEW a \in Rows
    PROVE  /\ Admitted(a).modal \in Int /\ Admitted(a).openrouter \in Int
           /\ Kept(released, a).modal = Admitted(a).modal - released[a].modal
           /\ Kept(released, a).openrouter = Admitted(a).openrouter - released[a].openrouter
           /\ released[a].modal \in Int /\ released[a].openrouter \in Int
           /\ Kept(released, a).modal \in Int /\ Kept(released, a).openrouter \in Int
<1>1. released[a].modal \in Int /\ released[a].openrouter \in Int
  BY RowsAre DEF FundedInv, SpendTypes
<1>2. Admitted(a).modal \in Int /\ Admitted(a).openrouter \in Int
  <2>1. CASE a = Setup
    <3>1. \A q : Paid(q).openrouter \in Int /\ Paid(q).modal \in Int
      BY AllowancesAre DEF Paid, QualificationAmount, Limits
    <3>. QED
      BY <2>1, <3>1 DEF Admitted, Limits
  <2>2. CASE a \in Attempts
    BY <2>2, AtMostAdmitted
  <2>. QED
    BY <2>1, <2>2, RowsAre
<1>3. /\ Kept(released, a).modal = Admitted(a).modal - released[a].modal
      /\ Kept(released, a).openrouter = Admitted(a).openrouter - released[a].openrouter
  BY DEF Kept, Limits
<1>. QED
  BY <1>1, <1>2, <1>3

(* _snapshot(): the reserve of the journal as a total over its accounts.    *)
LEMMA ReservedAre ==
    Reserved(released) =
        Limits(Total(Newest + 2, [k \in 1..(Newest + 2) |-> Kept(released, k - 2).modal]),
               Total(Newest + 2, [k \in 1..(Newest + 2) |-> Kept(released, k - 2).openrouter]))
BY DEF Reserved

(* The reserve of the journal is an integer.                                *)
LEMMA ReservedTyped ==
    ASSUME FundedInv
    PROVE  Reserved(released).modal \in Int /\ Reserved(released).openrouter \in Int
<1>. DEFINE f == [k \in 1..(Newest + 2) |-> Kept(released, k - 2).modal]
            g == [k \in 1..(Newest + 2) |-> Kept(released, k - 2).openrouter]
<1>1. Newest + 2 \in Nat /\ \A k \in 1..(Newest + 2) : k - 2 \in Rows
  BY RowsAre
<1>2. f \in [1..(Newest + 2) -> Int] /\ g \in [1..(Newest + 2) -> Int]
  BY <1>1, AdmittedTyped
<1>3. /\ Reserved(released).modal = Total(Newest + 2, f)
      /\ Reserved(released).openrouter = Total(Newest + 2, g)
  BY ReservedAre DEF Limits
<1>. HIDE DEF f, g
<1>. QED
  BY <1>1, <1>2, <1>3, TotalType

(* An admission raises the reserve of the whole journal by its own amount.  *)
LEMMA AdmitsReserved ==
    ASSUME FundedInv, FundedInv', NEW a, NEW m, NEW q, Admits(a, m, q)
    PROVE  /\ Reserved(released)'.modal = Reserved(released).modal + m
           /\ Reserved(released)'.openrouter = Reserved(released).openrouter + q
<1>. DEFINE rows == Newest + 2
            f == [k \in 1..rows |-> Kept(released, k - 2).modal]
            g == [k \in 1..rows |-> Kept(released, k - 2).openrouter]
            f2 == [k \in 1..rows |-> Kept(released, k - 2)'.modal]
            g2 == [k \in 1..rows |-> Kept(released, k - 2)'.openrouter]
            j == a + 2
<1>1. rows \in Nat /\ (\A k \in 1..rows : k - 2 \in Rows) /\ j \in 1..rows /\ j - 2 = a
  <2>1. a \in (0 - 1)..Newest /\ Newest \in 0..13
    BY RowsAre DEF Admits
  <2>2. \A k \in 1..(Newest + 2) : k - 2 \in (0 - 1)..Newest
    BY <2>1
  <2>. QED
    BY <2>1, <2>2, RowsAre
<1>2. ASSUME NEW c \in Rows
      PROVE  /\ Kept(released, c).modal \in Int /\ Kept(released, c).openrouter \in Int
             /\ Kept(released, c)'.modal \in Int /\ Kept(released, c)'.openrouter \in Int
             /\ c # a => Kept(released, c)' = Kept(released, c)
             /\ c = a => /\ Kept(released, c)'.modal = Kept(released, c).modal + m
                         /\ Kept(released, c)'.openrouter = Kept(released, c).openrouter + q
  <2>1. /\ Admitted(c).modal \in Int /\ Admitted(c).openrouter \in Int
        /\ released[c].modal \in Int /\ released[c].openrouter \in Int
        /\ Kept(released, c).modal \in Int /\ Kept(released, c).openrouter \in Int
    BY AdmittedTyped
  <2>2. m \in Nat /\ q \in Nat
    BY DEF Admits
  <2>3. /\ Kept(released, c)' = Limits(Admitted(c)'.modal - released[c].modal,
                                       Admitted(c)'.openrouter - released[c].openrouter)
        /\ Kept(released, c) = Limits(Admitted(c).modal - released[c].modal,
                                      Admitted(c).openrouter - released[c].openrouter)
    BY DEF Kept, Admits
  <2>4. c # a => Admitted(c)' = Admitted(c)
    BY DEF Admits
  <2>5. c = a => /\ Admitted(c)'.modal = Admitted(c).modal + m
                 /\ Admitted(c)'.openrouter = Admitted(c).openrouter + q
    BY DEF Admits
  <2>. QED
    BY <2>1, <2>2, <2>3, <2>4, <2>5 DEF Limits
<1>3. /\ f \in [1..rows -> Int] /\ g \in [1..rows -> Int]
      /\ f2 \in [1..rows -> Int] /\ g2 \in [1..rows -> Int]
  BY <1>1, <1>2
<1>4. \A i \in 1..rows : i # j => f2[i] = f[i] /\ g2[i] = g[i]
  BY <1>1, <1>2
<1>5. f2[j] = f[j] + m /\ g2[j] = g[j] + q
  BY <1>1, <1>2 DEF Admits
<1>6. Reserved(released).modal = Total(rows, f) /\ Reserved(released).openrouter = Total(rows, g)
  BY ReservedAre DEF Limits
<1>7. /\ Reserved(released)'.modal = Total(rows, f2)
      /\ Reserved(released)'.openrouter = Total(rows, g2)
  BY DEF Reserved, Limits
<1>8. m \in Int /\ q \in Int
  BY DEF Admits
<1>. HIDE DEF f, g, f2, g2, rows, j
<1>9. /\ Total(rows, f2) = Total(rows, f) - f[j] + f2[j]
      /\ Total(rows, g2) = Total(rows, g) - g[j] + g2[j]
  BY <1>1, <1>3, <1>4, TotalChange
<1>10. /\ Total(rows, f) \in Int /\ Total(rows, g) \in Int
       /\ f[j] \in Int /\ g[j] \in Int
  BY <1>1, <1>3, TotalType
<1>. QED
  BY <1>5, <1>6, <1>7, <1>8, <1>9, <1>10

(* A step that is not an approval admits something to the setup, before     *)
(* the first amendment, or to the newest attempt.                           *)
Admission ==
    \E m \in Nat, q \in Nat :
        \/ Admits(approved, m, q) /\ qualified' = qualified
        \/ Admits(Setup, m, q) /\ approved = 0 /\ qualified \subseteq qualified'
               /\ ("modal-access" \in qualified => m = 0)

(* An account whose receipts stay admits what it did.                       *)
LEMMA AdmittedUnchanged ==
    ASSUME NEW c \in Rows, c # Setup => receipts'[c] = receipts[c], qualified' = qualified
    PROVE  Admitted(c)' = Admitted(c)
BY DEF Admitted, Paid, EachOf

(* A new row of the newest attempt is an admission of what it adds.         *)
LEMMA AdmittedToAttempt ==
    ASSUME FundedInv, NEW n \in Attempts, n = approved,
           NEW r, receipts' = [receipts EXCEPT ![n] = r],
           qualified' = qualified, approved' = approved, released' = released,
           NEW m \in Nat, NEW q \in Nat, Room(m, q),
           r.overhead * OverheadBase + r.computes * EachOf(n) + r.probe * ProbeEach
               = Admitted(n).modal + m,
           r.model * ModelBase = Admitted(n).openrouter + q
    PROVE  Admission
<1>1. n \in Rows /\ n # Setup
  BY RowsAre DEF Setup, Attempts
<1>2. receipts'[n] = r /\ \A c \in Rows : c # n /\ c # Setup => receipts'[c] = receipts[c]
  BY RowsAre DEF FundedInv, SpendTypes
<1>3. \A c \in Rows : c # n => Admitted(c)' = Admitted(c)
  BY <1>2, AdmittedUnchanged
<1>4. /\ Admitted(n)'.modal = r.overhead * OverheadBase + r.computes * EachOf(n) + r.probe * ProbeEach
      /\ Admitted(n)'.openrouter = r.model * ModelBase
  BY <1>1, <1>2 DEF Admitted, Limits, EachOf
<1>5. Admits(n, m, q)
  BY <1>1, <1>3, <1>4 DEF Admits
<1>. QED
  BY <1>5 DEF Admission

(* A step that changes no receipt admits nothing.                           *)
LEMMA NothingAdmitted ==
    ASSUME FundedInv, Room(0, 0), receipts' = receipts, qualified' = qualified,
           approved' = approved, released' = released
    PROVE  Admission
<1>1. approved \in Rows
  BY RowsAre DEF FundedInv, SpendTypes
<1>2. \A c \in Rows : Admitted(c)' = Admitted(c)
  BY AdmittedUnchanged
<1>3. Admitted(approved).modal + 0 = Admitted(approved).modal
      /\ Admitted(approved).openrouter + 0 = Admitted(approved).openrouter
  BY <1>1, AdmittedTyped
<1>4. Admits(approved, 0, 0)
  BY <1>1, <1>2, <1>3 DEF Admits
<1>. QED
  BY <1>4 DEF Admission

(* A qualification is an admission to the setup.                            *)
LEMMA QualifyAdmits ==
    ASSUME FundedInv, NEW q \in Qualifications, Qualify(q)
    PROVE  Admission
<1>. DEFINE x == QualificationAmount(q)
<1>1. /\ approved = 0 /\ q \notin qualified /\ qualified' = qualified \cup {q}
      /\ approved' = approved /\ released' = released /\ receipts' = receipts
      /\ Room(x.modal, x.openrouter)
  BY DEF Qualify, CurrentAttempt
<1>2. q \in {"modal-access", "provider-route", "model-gateway"}
  BY SpendAssumption
<1>3. x.modal \in Nat /\ x.openrouter \in Nat /\ (q # "modal-access" => x.modal = 0)
  BY <1>2, AllowancesAre DEF QualificationAmount, Limits
<1>4. \A c \in Rows : c # Setup => Admitted(c)' = Admitted(c)
  BY <1>1 DEF Admitted, EachOf
<1>5. Setup \in Rows
  BY RowsAre
<1>6. /\ Admitted(Setup)'.modal = Admitted(Setup).modal + x.modal
      /\ Admitted(Setup)'.openrouter = Admitted(Setup).openrouter + x.openrouter
  <2>. DEFINE P(s, p) == IF p \in s THEN QualificationAmount(p) ELSE Limits(0, 0)
  <2>1. /\ Admitted(Setup).modal = P(qualified, "modal-access").modal
        /\ Admitted(Setup).openrouter = P(qualified, "provider-route").openrouter
                                            + P(qualified, "model-gateway").openrouter
        /\ Admitted(Setup)'.modal = P(qualified', "modal-access").modal
        /\ Admitted(Setup)'.openrouter = P(qualified', "provider-route").openrouter
                                            + P(qualified', "model-gateway").openrouter
    BY DEF Admitted, Paid, Limits
  <2>2. \A p : p # q => P(qualified', p) = P(qualified, p)
    BY <1>1
  <2>3. P(qualified, q) = Limits(0, 0) /\ P(qualified', q) = x
    BY <1>1
  <2>4. /\ x.modal \in Int /\ x.openrouter \in Int
        /\ q = "modal-access" => x.openrouter = 0
        /\ q # "modal-access" => x.modal = 0
    BY <1>2, AllowancesAre DEF QualificationAmount, Limits
  <2>5. \A p : P(qualified, p).openrouter \in Int /\ P(qualified, p).modal \in Int
    BY AllowancesAre DEF QualificationAmount, Limits
  <2>. HIDE DEF P, x
  <2>6. CASE q = "modal-access"
    <3>1. Limits(0, 0).modal = 0
      BY DEF Limits
    <3>. QED
      BY <2>1, <2>2, <2>3, <2>4, <2>5, <2>6, <3>1
  <2>7. CASE q = "provider-route"
    <3>1. Limits(0, 0).openrouter = 0
      BY DEF Limits
    <3>. QED
      BY <2>1, <2>2, <2>3, <2>4, <2>5, <2>7, <3>1
  <2>8. CASE q = "model-gateway"
    <3>1. Limits(0, 0).openrouter = 0
      BY DEF Limits
    <3>. QED
      BY <2>1, <2>2, <2>3, <2>4, <2>5, <2>8, <3>1
  <2>. QED
    BY <1>2, <2>6, <2>7, <2>8
<1>7. Admits(Setup, x.modal, x.openrouter)
  BY <1>1, <1>3, <1>4, <1>5, <1>6 DEF Admits
<1>8. "modal-access" \in qualified => x.modal = 0
  BY <1>1, <1>3
<1>. HIDE DEF x
<1>. QED
  BY <1>1, <1>3, <1>7, <1>8 DEF Admission

(* The amounts that one more receipt of each kind adds.                     *)
LEMMA AdmissionAmounts ==
    ASSUME NEW r \in ReceiptRows, NEW each \in Nat
    PROVE  LET modal(s) == s.overhead * OverheadBase + s.computes * each + s.probe * ProbeEach
           IN  /\ modal(r) \in Nat /\ r.model * ModelBase \in Nat
               /\ modal([r EXCEPT !.model = 1]) = modal(r) + 0
               /\ r.model = 0 => [r EXCEPT !.model = 1].model * ModelBase = r.model * ModelBase + ModelBase
               /\ r.overhead = 0 => modal([r EXCEPT !.overhead = 1]) = modal(r) + OverheadBase
               /\ r.probe = 0 => modal([r EXCEPT !.probe = 1]) = modal(r) + ProbeEach
               /\ modal([r EXCEPT !.computes = @ + 1]) = modal(r) + each
<1>1. /\ r.overhead \in 0..1 /\ r.model \in 0..1 /\ r.probe \in 0..1 /\ r.computes \in 0..12
  BY DEF ReceiptRows
<1>2. PICK o \in Nat, p \in Nat, m \in Nat : o = OverheadBase /\ p = ProbeEach /\ m = ModelBase
  BY AllowancesAre
<1>3. PICK a \in Nat, b \in Nat, c \in Nat : a = r.overhead * o /\ b = r.computes * each /\ c = r.probe * p
  BY <1>1, <1>2
<1>4. r.model * ModelBase \in Nat /\ 1 * o = o /\ 1 * p = p /\ 1 * m = m
  BY <1>1, <1>2
<1>5. (r.computes + 1) * each = b + each
  BY <1>1, <1>3
<1>6. /\ r.overhead = 0 => a = 0
      /\ r.probe = 0 => c = 0
      /\ r.model = 0 => r.model * m = 0
  BY <1>1, <1>2, <1>3
<1>7. /\ [r EXCEPT !.model = 1].overhead = r.overhead /\ [r EXCEPT !.model = 1].computes = r.computes
      /\ [r EXCEPT !.model = 1].probe = r.probe /\ [r EXCEPT !.model = 1].model = 1
      /\ [r EXCEPT !.overhead = 1].overhead = 1 /\ [r EXCEPT !.overhead = 1].computes = r.computes
      /\ [r EXCEPT !.overhead = 1].probe = r.probe
      /\ [r EXCEPT !.probe = 1].overhead = r.overhead /\ [r EXCEPT !.probe = 1].computes = r.computes
      /\ [r EXCEPT !.probe = 1].probe = 1
      /\ [r EXCEPT !.computes = @ + 1].overhead = r.overhead
      /\ [r EXCEPT !.computes = @ + 1].computes = r.computes + 1
      /\ [r EXCEPT !.computes = @ + 1].probe = r.probe
  BY DEF ReceiptRows
<1>. QED
  BY <1>2, <1>3, <1>4, <1>5, <1>6, <1>7

(* The account of an attempt with the types its arithmetic needs.           *)
LEMMA CurrentRow ==
    ASSUME FundedInv, NEW n \in Attempts
    PROVE  /\ receipts[n] \in ReceiptRows /\ EachOf(n) \in Nat
           /\ Admitted(n).modal = receipts[n].overhead * OverheadBase
                                      + receipts[n].computes * EachOf(n) + receipts[n].probe * ProbeEach
           /\ Admitted(n).openrouter = receipts[n].model * ModelBase
           /\ Admitted(n).openrouter + 0 = receipts[n].model * ModelBase
           /\ DOMAIN receipts = Attempts
<1>1. n \in 0..13 /\ receipts[n] \in ReceiptRows
  BY RowNumbers
<1>2. EachOf(n) \in Nat
  BY <1>1, EachIs
<1>3. /\ Admitted(n).modal = receipts[n].overhead * OverheadBase
                                 + receipts[n].computes * EachOf(n) + receipts[n].probe * ProbeEach
      /\ Admitted(n).openrouter = receipts[n].model * ModelBase
  BY AdmittedIs
<1>4. Admitted(n).openrouter + 0 = Admitted(n).openrouter
  BY AtMostAdmitted
<1>5. DOMAIN receipts = Attempts
  BY DEF FundedInv, SpendTypes
<1>. QED
  BY <1>1, <1>2, <1>3, <1>4, <1>5

(* The model base is an admission to the newest attempt.                    *)
LEMMA ReserveModelAdmits ==
    ASSUME FundedInv, NEW h \in Hosts, ReserveModel(h)
    PROVE  Admission
<1>. DEFINE n == host[h].version
<1>1. /\ n \in Attempts /\ n = approved /\ receipts[n].model = 0
      /\ receipts' = [receipts EXCEPT ![n].model = 1]
      /\ qualified' = qualified /\ approved' = approved /\ released' = released /\ Room(0, ModelBase)
  BY AtSeat DEF ReserveModel, Stands, Affords, CurrentAttempt
<1>. DEFINE r == receipts[n]
            s == [r EXCEPT !.model = 1]
<1>2. /\ r \in ReceiptRows /\ EachOf(n) \in Nat
      /\ Admitted(n).modal = r.overhead * OverheadBase + r.computes * EachOf(n) + r.probe * ProbeEach
      /\ Admitted(n).openrouter = r.model * ModelBase
      /\ Admitted(n).openrouter + 0 = r.model * ModelBase
      /\ DOMAIN receipts = Attempts
  BY <1>1, CurrentRow
<1>3. receipts' = [receipts EXCEPT ![n] = s]
  BY <1>1, <1>2
<1>4. 0 \in Nat /\ ModelBase \in Nat
  BY <1>2, AllowancesAre
<1>5. /\ s.overhead * OverheadBase + s.computes * EachOf(n) + s.probe * ProbeEach
             = Admitted(n).modal + 0
      /\ s.model * ModelBase = Admitted(n).openrouter + ModelBase
  <2>. DEFINE each == EachOf(n)
  <2>1. each \in Nat
    BY <1>2
  <2>2. TRUE
    BY <1>2 DEF ReceiptRows
  <2>. HIDE DEF each
  <2>3. /\ s.overhead * OverheadBase + s.computes * each + s.probe * ProbeEach
             = r.overhead * OverheadBase + r.computes * each + r.probe * ProbeEach + 0
        /\ s.model * ModelBase = r.model * ModelBase + ModelBase
    BY <1>1, <1>2, <2>1, AdmissionAmounts
  <2>. QED
    BY <1>2, <2>2, <2>3 DEF each
<1>. HIDE DEF s, r, n
<1>. QED
  BY <1>1, <1>3, <1>4, <1>5, AdmittedToAttempt

(* The overhead is an admission to the newest attempt, the first time.      *)
LEMMA ReserveOverheadAdmits ==
    ASSUME FundedInv, NEW h \in Hosts, ReserveOverhead(h), receipts[host[h].version].overhead = 0
    PROVE  Admission
<1>. DEFINE n == host[h].version
<1>1. /\ n \in Attempts /\ n = approved /\ receipts[n].overhead = 0
      /\ receipts' = [receipts EXCEPT ![n].overhead = 1]
      /\ qualified' = qualified /\ approved' = approved /\ released' = released /\ Room(OverheadBase, 0)
  BY AtSeat DEF ReserveOverhead, Stands, Affords, CurrentAttempt
<1>. DEFINE r == receipts[n]
            s == [r EXCEPT !.overhead = 1]
<1>2. /\ r \in ReceiptRows /\ EachOf(n) \in Nat
      /\ Admitted(n).modal = r.overhead * OverheadBase + r.computes * EachOf(n) + r.probe * ProbeEach
      /\ Admitted(n).openrouter = r.model * ModelBase
      /\ Admitted(n).openrouter + 0 = r.model * ModelBase
      /\ DOMAIN receipts = Attempts
  BY <1>1, CurrentRow
<1>3. receipts' = [receipts EXCEPT ![n] = s]
  BY <1>1, <1>2
<1>4. OverheadBase \in Nat /\ 0 \in Nat
  BY <1>2, AllowancesAre
<1>5. /\ s.overhead * OverheadBase + s.computes * EachOf(n) + s.probe * ProbeEach
             = Admitted(n).modal + OverheadBase
      /\ s.model * ModelBase = Admitted(n).openrouter + 0
  <2>. DEFINE each == EachOf(n)
  <2>1. each \in Nat
    BY <1>2
  <2>2. s.model = r.model
    BY <1>2 DEF ReceiptRows
  <2>. HIDE DEF each
  <2>3. /\ s.overhead * OverheadBase + s.computes * each + s.probe * ProbeEach
             = r.overhead * OverheadBase + r.computes * each + r.probe * ProbeEach + OverheadBase
    BY <1>1, <1>2, <2>1, AdmissionAmounts
  <2>. QED
    BY <1>2, <2>2, <2>3 DEF each
<1>. HIDE DEF s, r, n
<1>. QED
  BY <1>1, <1>3, <1>4, <1>5, AdmittedToAttempt

(* An execution is an admission to the newest attempt.                      *)
LEMMA ReserveComputeAdmits ==
    ASSUME FundedInv, NEW h \in Hosts, ReserveCompute(h)
    PROVE  Admission
<1>. DEFINE n == host[h].version
<1>1. /\ n \in Attempts /\ n = approved
      /\ receipts' = [receipts EXCEPT ![n].computes = @ + 1]
      /\ qualified' = qualified /\ approved' = approved /\ released' = released /\ Room(EachOf(n), 0)
  BY AtSeat DEF ReserveCompute, Stands, Affords, CurrentAttempt
<1>. DEFINE r == receipts[n]
            s == [r EXCEPT !.computes = @ + 1]
<1>2. /\ r \in ReceiptRows /\ EachOf(n) \in Nat
      /\ Admitted(n).modal = r.overhead * OverheadBase + r.computes * EachOf(n) + r.probe * ProbeEach
      /\ Admitted(n).openrouter = r.model * ModelBase
      /\ Admitted(n).openrouter + 0 = r.model * ModelBase
      /\ DOMAIN receipts = Attempts
  BY <1>1, CurrentRow
<1>3. receipts' = [receipts EXCEPT ![n] = s]
  BY <1>1, <1>2
<1>4. EachOf(n) \in Nat /\ 0 \in Nat
  BY <1>2, AllowancesAre
<1>5. /\ s.overhead * OverheadBase + s.computes * EachOf(n) + s.probe * ProbeEach
             = Admitted(n).modal + EachOf(n)
      /\ s.model * ModelBase = Admitted(n).openrouter + 0
  <2>. DEFINE each == EachOf(n)
  <2>1. each \in Nat
    BY <1>2
  <2>2. s.model = r.model
    BY <1>2 DEF ReceiptRows
  <2>. HIDE DEF each
  <2>3. /\ s.overhead * OverheadBase + s.computes * each + s.probe * ProbeEach
             = r.overhead * OverheadBase + r.computes * each + r.probe * ProbeEach + each
    BY <1>1, <1>2, <2>1, AdmissionAmounts
  <2>. QED
    BY <1>2, <2>2, <2>3 DEF each
<1>. HIDE DEF s, r, n
<1>. QED
  BY <1>1, <1>3, <1>4, <1>5, AdmittedToAttempt

(* A probe is an admission to the newest attempt.                           *)
LEMMA ReserveProbeAdmits ==
    ASSUME FundedInv, NEW x \in Attempts, ReserveProbe(x)
    PROVE  Admission
<1>. DEFINE n == approved
<1>1. /\ n \in Attempts /\ n = approved /\ receipts[n].probe = 0
      /\ receipts' = [receipts EXCEPT ![n].probe = 1]
      /\ qualified' = qualified /\ approved' = approved /\ released' = released /\ Room(ProbeEach, 0)
  BY DEF ReserveProbe, CurrentAttempt
<1>. DEFINE r == receipts[n]
            s == [r EXCEPT !.probe = 1]
<1>2. /\ r \in ReceiptRows /\ EachOf(n) \in Nat
      /\ Admitted(n).modal = r.overhead * OverheadBase + r.computes * EachOf(n) + r.probe * ProbeEach
      /\ Admitted(n).openrouter = r.model * ModelBase
      /\ Admitted(n).openrouter + 0 = r.model * ModelBase
      /\ DOMAIN receipts = Attempts
  BY <1>1, CurrentRow
<1>3. receipts' = [receipts EXCEPT ![n] = s]
  BY <1>1, <1>2
<1>4. ProbeEach \in Nat /\ 0 \in Nat
  BY <1>2, AllowancesAre
<1>5. /\ s.overhead * OverheadBase + s.computes * EachOf(n) + s.probe * ProbeEach
             = Admitted(n).modal + ProbeEach
      /\ s.model * ModelBase = Admitted(n).openrouter + 0
  <2>. DEFINE each == EachOf(n)
  <2>1. each \in Nat
    BY <1>2
  <2>2. s.model = r.model
    BY <1>2 DEF ReceiptRows
  <2>. HIDE DEF each
  <2>3. /\ s.overhead * OverheadBase + s.computes * each + s.probe * ProbeEach
             = r.overhead * OverheadBase + r.computes * each + r.probe * ProbeEach + ProbeEach
    BY <1>1, <1>2, <2>1, AdmissionAmounts
  <2>. QED
    BY <1>2, <2>2, <2>3 DEF each
<1>. HIDE DEF s, r, n
<1>. QED
  BY <1>1, <1>3, <1>4, <1>5, AdmittedToAttempt

(* Every step but an approval admits something that had room, or nothing.   *)
LEMMA StepAdmits ==
    ASSUME FundedInv, Room(0, 0), [SpendNext]_spendVars, ~Approve
    PROVE  Admission
<1>1. ASSUME NEW q \in Qualifications, Qualify(q) PROVE Admission
  BY <1>1, QualifyAdmits
<1>2. ASSUME NEW h \in Hosts, ReserveModel(h) PROVE Admission
  BY <1>2, ReserveModelAdmits
<1>3. ASSUME NEW h \in Hosts, ReserveOverhead(h) PROVE Admission
  <2>. DEFINE n == host[h].version
  <2>1. n \in Attempts /\ receipts[n] \in ReceiptRows /\ receipts \in [Attempts -> ReceiptRows]
    BY <1>3, AtSeat DEF ReserveOverhead, Stands, FundedInv, SpendTypes
  <2>2. CASE receipts[n].overhead = 0
    BY <1>3, <2>2, ReserveOverheadAdmits
  <2>3. CASE receipts[n].overhead # 0
    <3>1. [receipts[n] EXCEPT !.overhead = 1] = receipts[n]
      BY <2>1, <2>3 DEF ReceiptRows
    <3>2. receipts' = receipts
      BY <1>3, <2>1, <3>1 DEF ReserveOverhead
    <3>. QED
      BY <1>3, <3>2, NothingAdmitted DEF ReserveOverhead
  <2>. QED
    BY <2>2, <2>3
<1>4. ASSUME NEW h \in Hosts, ReserveCompute(h) PROVE Admission
  BY <1>4, ReserveComputeAdmits
<1>5. ASSUME NEW n \in Attempts, ReserveProbe(n) PROVE Admission
  BY <1>5, ReserveProbeAdmits
<1>6. ASSUME \/ \E h \in Hosts : \/ Start(h) \/ Readmit(h) \/ Dispatch(h) \/ Finish(h)
                                 \/ AbortAttempt(h) \/ Refused(h) \/ HostCrash(h)
                                 \/ \E ok \in BOOLEAN : Collect(h, ok)
             \/ \E n \in Attempts : Recover(n)
             \/ PinBatch \/ UNCHANGED spendVars
             \/ \E b \in DOMAIN batch : RetainApproval(b) \/ RetainAdmission(b) \/ StockStep(b)
      PROVE  Admission
  <2>1. receipts' = receipts /\ qualified' = qualified /\ approved' = approved /\ released' = released
    BY <1>6
       DEF Start, Readmit, Dispatch, Finish, AbortAttempt, Refused, HostCrash, Collect,
       Recover, PinBatch, RetainApproval, RetainAdmission, StockStep, spendVars, journalVars
  <2>. QED
    BY <2>1, NothingAdmitted
<1>. QED
  BY <1>1, <1>2, <1>3, <1>4, <1>5, <1>6 DEF SpendNext
-----------------------------------------------------------------------------
(* The limits of an amendment do not depend on the bills.                   *)
LEMMA LimitsFixed ==
    ASSUME NEW v \in 0..13, NEW b, NEW c
    PROVE  v # 0 => Amendment(v, b).limits = Amendment(v, c).limits
BY LimitsAre, SMT

(* Limits are integers, and the total is no less than both together.        *)
LEMMA LimitsTyped ==
    ASSUME NEW v \in 0..13
    PROVE  /\ LimitsOf(v).modal \in Int /\ LimitsOf(v).openrouter \in Int
           /\ TotalOf(v) \in Int /\ TotalOf(v) >= LimitsOf(v).modal + LimitsOf(v).openrouter
<1>1. \A x \in Int, y \in Int : Limits(x, y).modal = x /\ Limits(x, y).openrouter = y
  BY DEF Limits
<1>2. v # 0 => Amendment(v, billed).limits.modal \in Int /\ Amendment(v, billed).limits.openrouter \in Int
  <2>. DEFINE l == Amendment(v, billed).limits
  <2>1. v # 0 => l \in {Limits(14000000, 3000000), Limits(16000000, 3000000),
                       Limits(17000000, 3100000), Limits(20000000, 3100000)}
    BY LimitsAre, SMT
  <2>. HIDE DEF l
  <2>2. v # 0 => l.modal \in Int /\ l.openrouter \in Int
    BY <2>1, SMT DEF Limits
  <2>. QED
    BY <2>2 DEF l
<1>3. LimitsOf(v).modal \in Int /\ LimitsOf(v).openrouter \in Int
  BY <1>1, <1>2, SMT DEF LimitsOf, PlanLimits
<1>. QED
  BY <1>3, SMT DEF TotalOf

(* Room under the newest amendment, as the three comparisons of reserve().  *)
LEMMA RoomIs ==
    ASSUME NEW m, NEW q
    PROVE  Room(m, q) <=> /\ Reserved(released).modal + m <= LimitsOf(approved).modal
                          /\ Reserved(released).openrouter + q <= LimitsOf(approved).openrouter
                          /\ Reserved(released).modal + m + Reserved(released).openrouter + q
                                 <= TotalOf(approved)
BY DEF Room, RoomUnder

(* The limits change only with an amendment.                                *)
LEMMA LimitsStay ==
    ASSUME FundedInv, approved' = approved
    PROVE  /\ LimitsOf(approved)' = LimitsOf(approved)
           /\ TotalOf(approved)' = TotalOf(approved)
<1>1. approved \in 0..13
  BY SpendAssumption DEF FundedInv, SpendTypes, Attempts
<1>2. LimitsOf(approved)' = LimitsOf(approved)
  BY <1>1, LimitsFixed DEF LimitsOf
<1>3. TotalOf(approved) = LimitsOf(approved).modal + LimitsOf(approved).openrouter
                              + (IF approved = 0 THEN 50000 ELSE 0)
  BY SMT DEF TotalOf
<1>4. TotalOf(approved)' = LimitsOf(approved)'.modal + LimitsOf(approved)'.openrouter
                              + (IF approved = 0 THEN 50000 ELSE 0)
  BY SMT DEF TotalOf
<1>. QED
  BY <1>2, <1>3, <1>4

(* An admission that had room leaves the journal within its limits.         *)
LEMMA RoomStays ==
    ASSUME FundedInv, FundedInv', Admission
    PROVE  Room(0, 0)'
<1>1. PICK a, m, q : Admits(a, m, q)
  BY DEF Admission
<1>2. /\ Reserved(released)'.modal = Reserved(released).modal + m
      /\ Reserved(released)'.openrouter = Reserved(released).openrouter + q
  BY <1>1, AdmitsReserved
<1>3. approved' = approved /\ m \in Nat /\ q \in Nat /\ Room(m, q)
  BY <1>1 DEF Admits
<1>4. LimitsOf(approved)' = LimitsOf(approved) /\ TotalOf(approved)' = TotalOf(approved)
  BY <1>3, LimitsStay
<1>5. /\ Reserved(released).modal + m <= LimitsOf(approved).modal
      /\ Reserved(released).openrouter + q <= LimitsOf(approved).openrouter
      /\ Reserved(released).modal + m + Reserved(released).openrouter + q <= TotalOf(approved)
  BY <1>3, RoomIs
<1>6. /\ Reserved(released)'.modal + 0 <= LimitsOf(approved)'.modal
      /\ Reserved(released)'.openrouter + 0 <= LimitsOf(approved)'.openrouter
      /\ Reserved(released)'.modal + 0 + Reserved(released)'.openrouter + 0 <= TotalOf(approved)'
  BY <1>2, <1>3, <1>4, <1>5, ReservedTyped
<1>. QED
  BY <1>6 DEF Room, RoomUnder

(* The reserve of the journal is that of the newest attempt and the rest.   *)
LEMMA OthersTyped ==
    ASSUME FundedInv
    PROVE  /\ approved \in 0..13 /\ approved \in Attempts /\ approved \in Rows
           /\ Others \in Int /\ Reserved(released).modal = Others + Admitted(approved).modal
           /\ Admitted(approved).modal \in Nat
<1>1. approved \in 0..13 /\ approved \in Attempts /\ approved \in Rows
  BY SpendAssumption, RowsAre DEF FundedInv, SpendTypes, Attempts
<1>2. Admitted(approved).modal \in Nat /\ Reserved(released).modal \in Int
  BY <1>1, AtMostAdmitted, ReservedTyped
<1>. QED
  BY <1>1, <1>2 DEF Others

(* While an attempt is the newest, the reserve of the others does not       *)
(* change, once the access qualification is paid.                           *)
LEMMA OthersStay ==
    ASSUME FundedInv, FundedInv', Admission
    PROVE  /\ approved' = approved
           /\ approved # 0 \/ "modal-access" \in qualified => Others' = Others
           /\ qualified \subseteq qualified'
<1>1. PICK m \in Nat, q \in Nat :
          \/ Admits(approved, m, q) /\ qualified' = qualified
          \/ Admits(Setup, m, q) /\ approved = 0 /\ qualified \subseteq qualified'
                 /\ ("modal-access" \in qualified => m = 0)
  BY DEF Admission
<1>2. approved' = approved /\ qualified \subseteq qualified'
  BY <1>1 DEF Admits
<1>3. Others' = Reserved(released)'.modal - Admitted(approved)'.modal
  BY DEF Others
<1>4. CASE Admits(approved, m, q)
  <2>1. /\ Reserved(released)'.modal = Reserved(released).modal + m
        /\ Admitted(approved)'.modal = Admitted(approved).modal + m
    <3>1. Reserved(released)'.modal = Reserved(released).modal + m
      BY <1>4, AdmitsReserved
    <3>2. Admitted(approved)'.modal = Admitted(approved).modal + m
      BY <1>2, <1>4 DEF Admits, Admitted
    <3>. QED
      BY <3>1, <3>2
  <2>2. Others' = Others
    BY <1>3, <2>1, OthersTyped
  <2>. QED
    BY <1>2, <2>2
<1>5. CASE Admits(Setup, m, q) /\ approved = 0 /\ ("modal-access" \in qualified => m = 0)
  <2>1. Reserved(released)'.modal = Reserved(released).modal + m
    BY <1>5, AdmitsReserved
  <2>2. Admitted(approved)'.modal = Admitted(approved).modal
    <3>1. approved \in Rows /\ approved # Setup
      BY <1>5, OthersTyped DEF Setup
    <3>. QED
      BY <1>2, <1>5, <3>1 DEF Admits, Admitted
  <2>3. "modal-access" \in qualified => Others' = Others
    BY <1>3, <1>5, <2>1, <2>2, OthersTyped
  <2>. QED
    BY <1>2, <1>5, <2>3
<1>. QED
  BY <1>1, <1>4, <1>5

(* An attempt begins by Start() and by nothing else.                        *)
LEMMA BegunBy ==
    ASSUME FundedInv, [SpendNext]_spendVars, ~Approve, Begun(approved)'
    PROVE  Begun(approved) \/ \E h \in Hosts : Start(h)
<1>. SUFFICES ASSUME \A h \in Hosts : ~Start(h) PROVE Begun(approved)
  OBVIOUS
<1>1. approved' = approved /\ approved \in Attempts
  <2>1. approved \in Attempts
    BY DEF FundedInv, SpendTypes
  <2>2. approved' = approved
    BY
       DEF SpendNext, Qualify, Start, ReserveModel, ReserveOverhead, ReserveCompute,
       Readmit, Dispatch, Finish, AbortAttempt, Collect, Refused, HostCrash, ReserveProbe,
       Recover, PinBatch, RetainApproval, RetainAdmission, StockStep, spendVars, journalVars
  <2>. QED
    BY <2>1, <2>2
<1>2. /\ host \in [Hosts -> Seats] /\ receipts \in [Attempts -> ReceiptRows]
  BY DEF FundedInv, SpendTypes
<1>3. ASSUME receipts'[approved].overhead = 1, receipts[approved].overhead # 1
      PROVE  \E h \in Hosts : host[h].place # "idle" /\ host[h].version = approved
  <2>1. ASSUME NEW n \in Attempts, NEW r, r.overhead = receipts[n].overhead,
               receipts' = [receipts EXCEPT ![n] = r]
        PROVE  FALSE
    BY <1>1, <1>2, <1>3, <2>1
  <2>2. \A n \in Attempts : receipts[n] \in ReceiptRows
    BY <1>2
  <2>3. ASSUME NEW h \in Hosts, ReserveModel(h) PROVE FALSE
    <3>. DEFINE n == host[h].version
    <3>1. n \in Attempts /\ receipts' = [receipts EXCEPT ![n] = [receipts[n] EXCEPT !.model = 1]]
      BY <1>2, <2>3 DEF ReserveModel, Seats
    <3>2. [receipts[n] EXCEPT !.model = 1].overhead = receipts[n].overhead
      BY <2>2, <3>1 DEF ReceiptRows
    <3>. HIDE DEF n
    <3>. QED
      BY <2>1, <3>1, <3>2
  <2>4. ASSUME NEW h \in Hosts, ReserveCompute(h) PROVE FALSE
    <3>. DEFINE n == host[h].version
    <3>1. /\ n \in Attempts
          /\ receipts' = [receipts EXCEPT ![n] = [receipts[n] EXCEPT !.computes = @ + 1]]
      BY <1>2, <2>4 DEF ReserveCompute, Seats
    <3>2. [receipts[n] EXCEPT !.computes = @ + 1].overhead = receipts[n].overhead
      BY <2>2, <3>1 DEF ReceiptRows
    <3>. HIDE DEF n
    <3>. QED
      BY <2>1, <3>1, <3>2
  <2>5. ASSUME NEW n \in Attempts, ReserveProbe(n) PROVE FALSE
    <3>1. receipts' = [receipts EXCEPT ![n] = [receipts[n] EXCEPT !.probe = 1]]
      BY <1>2, <2>5 DEF ReserveProbe
    <3>2. [receipts[n] EXCEPT !.probe = 1].overhead = receipts[n].overhead
      BY <2>2 DEF ReceiptRows
    <3>. QED
      BY <2>1, <3>1, <3>2
  <2>6. ASSUME NEW h \in Hosts, ReserveOverhead(h)
        PROVE  \E g \in Hosts : host[g].place # "idle" /\ host[g].version = approved
    <3>. DEFINE n == host[h].version
    <3>1. n \in Attempts /\ host[h].place = "overhead"
          /\ receipts' = [receipts EXCEPT ![n].overhead = 1]
      BY <1>2, <2>6 DEF ReserveOverhead, Seats, Stands
    <3>2. n = approved
      BY <1>1, <1>2, <1>3, <3>1
    <3>. QED
      BY <3>1, <3>2
  <2>7. receipts' # receipts
    BY <1>3
  <2>. QED
    BY <2>3, <2>4, <2>5, <2>6, <2>7
       DEF SpendNext, Qualify, Start, Readmit, Dispatch, Finish, AbortAttempt, Collect,
       Refused, HostCrash, Recover, PinBatch, RetainApproval, RetainAdmission, StockStep,
       spendVars, journalVars
<1>4. ASSUME NEW g \in Hosts, host'[g].place # "idle", host'[g].version = approved
      PROVE  host[g].place # "idle" /\ host[g].version = approved
  <2>1. CASE host' = host
    BY <1>4, <2>1
  <2>2. ASSUME NEW h \in Hosts, host' = [host EXCEPT ![h] = AtRest]
        PROVE  host[g].place # "idle" /\ host[g].version = approved
    BY <1>2, <1>4, <2>2 DEF AtRest
  <2>3. ASSUME NEW h \in Hosts, NEW p, Moves(h, p), host[h].place # "idle"
        PROVE  host[g].place # "idle" /\ host[g].version = approved
    <3>1. host[h] \in Seats
      BY <1>2
    <3>2. [host[h] EXCEPT !.place = p].version = host[h].version
      BY <3>1 DEF Seats
    <3>3. host' = [host EXCEPT ![h] = [host[h] EXCEPT !.place = p]]
      BY <1>2, <2>3 DEF Moves
    <3>. QED
      BY <1>2, <1>4, <2>3, <3>2, <3>3
  <2>4. \/ host' = host
        \/ \E h \in Hosts : host' = [host EXCEPT ![h] = AtRest]
        \/ \E h \in Hosts, p \in {"overhead", "running", "admitted"} :
              Moves(h, p) /\ host[h].place # "idle"
    BY
       DEF SpendNext, Qualify, Start, ReserveModel, ReserveOverhead, ReserveCompute,
       Readmit, Dispatch, Finish, AbortAttempt, Collect, Refused, HostCrash, ReserveProbe,
       Recover, PinBatch, Stands, RetainApproval, RetainAdmission, StockStep, spendVars,
       journalVars
  <2>. QED
    BY <2>1, <2>2, <2>3, <2>4
<1>5. CASE receipts'[approved].overhead = 1
  BY <1>3, <1>5 DEF Begun
<1>6. CASE \E h \in Hosts : host'[h].place # "idle" /\ host'[h].version = approved
  BY <1>4, <1>6 DEF Begun
<1>. QED
  BY <1>1, <1>5, <1>6 DEF Begun

(* Between two amendments: what Start() found for the rest of a solo        *)
(* attempt stays set aside, because every other account stands still.       *)
LEMMA AffordStays ==
    ASSUME FundedInv, FundedInv', AffordInv, [SpendNext]_spendVars, ~Approve
    PROVE  AffordInv'
<1>1. Admission
  BY StepAdmits DEF AffordInv
<1>2. approved' = approved /\ qualified \subseteq qualified'
      /\ (approved # 0 \/ "modal-access" \in qualified => Others' = Others)
  BY <1>1, OthersStay
<1>3. LimitsOf(approved)' = LimitsOf(approved)
  BY <1>2, LimitsStay
<1>4. Room(0, 0)'
  BY <1>1, RoomStays
<1>5. ASSUME approved <= 10, Begun(approved)'
      PROVE  Others' + FullAllowance <= LimitsOf(approved)'.modal /\ "modal-access" \in qualified'
  <2>1. CASE Begun(approved)
    BY <1>2, <1>3, <1>5, <2>1 DEF AffordInv
  <2>2. ASSUME NEW h \in Hosts, Start(h)
        PROVE  /\ Others' + FullAllowance <= LimitsOf(approved)'.modal
               /\ "modal-access" \in qualified'
    <3>1. receipts[approved] = NoReceipts /\ "modal-access" \in qualified /\ Room(FullAllowance, 0)
      BY <1>5, <2>2 DEF Start
    <3>2. Admitted(approved).modal = 0
      <4>1. EachOf(approved) \in Nat /\ approved \in Attempts
        BY OthersTyped, EachIs
      <4>2. Admitted(approved).modal = 0 * OverheadBase + 0 * EachOf(approved) + 0 * ProbeEach
        BY <3>1, <4>1, AdmittedIs DEF NoReceipts
      <4>. QED
        BY <4>1, <4>2, AllowancesAre
    <3>3. Others = Reserved(released).modal
      BY <3>2, ReservedTyped DEF Others
    <3>4. Others + FullAllowance <= LimitsOf(approved).modal
      BY <3>1, <3>3, RoomIs
    <3>. QED
      BY <1>2, <1>3, <3>1, <3>4
  <2>. QED
    BY <1>5, <2>1, <2>2, BegunBy
<1>6. /\ approved = 8  => Others' <= 8673120
      /\ approved = 9  => Others' <= 9866988
      /\ approved = 10 => Others' <= 8616342
      /\ approved = 11 => Others' <= 9921432
      /\ approved = 12 => Others' <= 15517912
  BY <1>2, SMT DEF AffordInv
<1>. QED
  BY <1>2, <1>4, <1>5, <1>6, SMT DEF AffordInv

(* An amendment admits nothing; its attempt has no receipt and no           *)
(* controller.                                                              *)
LEMMA ApproveAdmits ==
    ASSUME FundedInv, Approve
    PROVE  /\ approved' = approved + 1 /\ approved + 1 \in Attempts /\ approved \in 0..12
           /\ receipts' = receipts /\ work' = work /\ billed' = billed /\ qualified' = qualified
           /\ host' = host
           /\ \A c \in Rows : Admitted(c)' = Admitted(c)
           /\ receipts[approved + 1] = NoReceipts /\ Admitted(approved)'.modal = 0
           /\ Begun(approved)
<1>1. approved' = approved + 1 /\ approved + 1 \in Attempts /\ approved \in 0..12 /\ approved \in Attempts
  <2>1. approved' = approved + 1 /\ approved + 1 \in Attempts
    BY FreedIs
  <2>2. approved \in Attempts
    BY DEF FundedInv, SpendTypes
  <2>. QED
    BY <2>1, <2>2, SpendAssumption DEF Attempts
<1>2. /\ receipts' = receipts /\ work' = work /\ billed' = billed /\ qualified' = qualified
      /\ host' = host /\ receipts[approved].overhead = 1
  BY DEF Approve
<1>3. \A c \in Rows : Admitted(c)' = Admitted(c)
  BY <1>2, AdmittedUnchanged
<1>4. receipts[approved + 1] = NoReceipts
  BY <1>1 DEF FundedInv
<1>5. Admitted(approved)'.modal = 0
  <2>. DEFINE n == approved + 1
  <2>1. n \in 0..13 /\ n # Setup /\ approved' = n /\ receipts'[n] = NoReceipts
    BY <1>1, <1>2, <1>4 DEF Setup
  <2>2. EachOf(n) \in Nat
    BY <2>1, EachIs
  <2>. HIDE DEF n
  <2>3. Admitted(approved)'.modal = 0 * OverheadBase + 0 * EachOf(n) + 0 * ProbeEach
    BY <2>1 DEF Admitted, Limits, EachOf, NoReceipts
  <2>. QED
    BY <2>2, <2>3, AllowancesAre
<1>. QED
  BY <1>1, <1>2, <1>3, <1>4, <1>5 DEF Begun

(* An amendment is retained only within its own limits.                     *)
LEMMA RoomApprove ==
    ASSUME FundedInv, FundedInv', Approve
    PROVE  Room(0, 0)'
<1>. DEFINE n == approved + 1
<1>1. /\ approved' = n /\ n \in 0..13 /\ billed' = billed /\ RoomUnder(n, released', 0, 0)
      /\ \A c \in Rows : Admitted(c)' = Admitted(c)
  <2>1. approved' = n /\ n \in Attempts /\ billed' = billed
        /\ \A c \in Rows : Admitted(c)' = Admitted(c)
    BY ApproveAdmits
  <2>2. released' = [a \in Accounts |->
                       LET r == Amendment(n, billed).releases[a]
                       IN  Limits(released[a].modal + r.modal,
                                  released[a].openrouter + r.openrouter)]
    BY DEF Approve
  <2>3. RoomUnder(n, released', 0, 0)
    BY <2>2 DEF Approve
  <2>4. n \in 0..13
    <3>1. n \in Attempts
      BY <2>1
    <3>2. Newest \in 0..13
      BY SpendAssumption
    <3>. HIDE DEF n
    <3>. QED
      BY <3>1, <3>2 DEF Attempts
  <2>. QED
    BY <2>1, <2>3, <2>4
<1>2. Reserved(released)' = Reserved(released')
  <2>1. \A k \in 1..(Newest + 2) : k - 2 \in Rows
    BY RowsAre
  <2>2. \A c \in Rows : Kept(released, c)' = Kept(released', c)
    BY <1>1 DEF Kept
  <2>3. /\ [k \in 1..(Newest + 2) |-> Kept(released, k - 2)'.modal]
               = [k \in 1..(Newest + 2) |-> Kept(released', k - 2).modal]
        /\ [k \in 1..(Newest + 2) |-> Kept(released, k - 2)'.openrouter]
               = [k \in 1..(Newest + 2) |-> Kept(released', k - 2).openrouter]
    BY <2>1, <2>2
  <2>4. Reserved(released)' =
            Limits(Total(Newest + 2, [k \in 1..(Newest + 2) |-> Kept(released, k - 2)'.modal]),
                   Total(Newest + 2, [k \in 1..(Newest + 2) |-> Kept(released, k - 2)'.openrouter]))
    BY DEF Reserved
  <2>5. Reserved(released') =
            Limits(Total(Newest + 2, [k \in 1..(Newest + 2) |-> Kept(released', k - 2).modal]),
                   Total(Newest + 2, [k \in 1..(Newest + 2) |-> Kept(released', k - 2).openrouter]))
    BY DEF Reserved
  <2>. QED
    BY <2>3, <2>4, <2>5
<1>3. LimitsOf(approved)' = LimitsOf(n)
  BY <1>1 DEF LimitsOf
<1>4. TotalOf(approved)' = TotalOf(n)
  BY <1>1, <1>3 DEF TotalOf
<1>5. LET r == Reserved(released)'
      IN  /\ r.modal + 0 <= LimitsOf(approved)'.modal
          /\ r.openrouter + 0 <= LimitsOf(approved)'.openrouter
          /\ r.modal + 0 + r.openrouter + 0 <= TotalOf(approved)'
  <2>. HIDE DEF n
  <2>. QED
    BY <1>1, <1>2, <1>3, <1>4 DEF RoomUnder
<1>. QED
  BY <1>5 DEF Room, RoomUnder

(* An amendment that gives something back of two accounts lowers the        *)
(* reserve of the journal by just that.                                     *)
LEMMA ApproveReserved ==
    ASSUME FundedInv, FundedInv', Approve, NEW a \in Rows, NEW b \in Rows, a # b,
           NEW x \in Int, NEW y \in Int,
           released'[a].modal = released[a].modal + x, released'[b].modal = released[b].modal + y,
           \A c \in Rows : c # a /\ c # b => released'[c].modal = released[c].modal
    PROVE  Reserved(released)'.modal = Reserved(released).modal - x - y
<1>. DEFINE rows == Newest + 2
            f == [k \in 1..rows |-> Kept(released, k - 2).modal]
            g == [k \in 1..rows |-> Kept(released, k - 2)'.modal]
            i == a + 2
            j == b + 2
            mid == [f EXCEPT ![i] = g[i]]
<1>1. /\ rows \in Nat /\ (\A k \in 1..rows : k - 2 \in Rows)
      /\ i \in 1..rows /\ j \in 1..rows /\ i - 2 = a /\ j - 2 = b /\ i # j
  <2>1. a \in (0 - 1)..Newest /\ b \in (0 - 1)..Newest /\ Newest \in 0..13
    BY RowsAre
  <2>2. \A k \in 1..(Newest + 2) : k - 2 \in (0 - 1)..Newest
    BY <2>1
  <2>. QED
    BY <2>1, <2>2, RowsAre
<1>2. ASSUME NEW c \in Rows
      PROVE  /\ Kept(released, c).modal \in Int /\ Kept(released, c)'.modal \in Int
             /\ c # a /\ c # b => Kept(released, c)'.modal = Kept(released, c).modal
             /\ c = a => Kept(released, c)'.modal = Kept(released, c).modal - x
             /\ c = b => Kept(released, c)'.modal = Kept(released, c).modal - y
  <2>1. /\ Admitted(c).modal \in Int /\ released[c].modal \in Int
        /\ Kept(released, c).modal = Admitted(c).modal - released[c].modal
    BY AdmittedTyped
  <2>2. Kept(released, c)'.modal = Admitted(c)'.modal - released'[c].modal
    BY DEF Kept, Limits
  <2>3. Admitted(c)' = Admitted(c)
    BY ApproveAdmits
  <2>4. /\ c # a /\ c # b => released'[c].modal = released[c].modal
        /\ c = a => released'[c].modal = released[c].modal + x
        /\ c = b => released'[c].modal = released[c].modal + y
    OBVIOUS
  <2>. QED
    BY <2>1, <2>2, <2>3, <2>4
<1>3. f \in [1..rows -> Int] /\ g \in [1..rows -> Int]
  BY <1>1, <1>2
<1>4. /\ \A k \in 1..rows : k # i /\ k # j => g[k] = f[k]
      /\ g[i] = f[i] - x /\ g[j] = f[j] - y
  BY <1>1, <1>2
<1>5. Reserved(released).modal = Total(rows, f)
  BY ReservedAre DEF Limits
<1>6. Reserved(released)'.modal = Total(rows, g)
  BY DEF Reserved, Limits
<1>. HIDE DEF f, g, rows, i, j
<1>7. /\ mid \in [1..rows -> Int] /\ mid[i] = g[i] /\ mid[j] = f[j]
      /\ \A k \in 1..rows : k # i => mid[k] = f[k]
      /\ \A k \in 1..rows : k # j => g[k] = mid[k]
  BY <1>1, <1>3, <1>4
<1>. HIDE DEF mid
<1>8. Total(rows, mid) = Total(rows, f) - f[i] + mid[i]
  BY <1>1, <1>3, <1>7, TotalChange
<1>9. Total(rows, g) = Total(rows, mid) - mid[j] + g[j]
  BY <1>1, <1>3, <1>7, TotalChange
<1>10. Total(rows, f) \in Int /\ f[i] \in Int /\ f[j] \in Int
  BY <1>1, <1>3, TotalType
<1>. QED
  BY <1>4, <1>5, <1>6, <1>7, <1>8, <1>9, <1>10

(* What the amendments v8 to v11 find of the attempt before them.           *)
LEMMA ApprovedRow ==
    ASSUME FundedInv, Approve, approved \in 7..10
    PROVE  LET r == receipts[approved]
           IN  /\ approved = 7 => r.computes = 1 /\ r.probe = 1
               /\ approved = 8 => r.computes = 12 /\ r.probe = 1 /\ billed[8] = 993868
               /\ approved = 9 => r.computes = 1 /\ r.probe = 0 /\ billed[9] = 229152 /\ billed[7] = 86282
               /\ approved = 10 => r.computes = 12 /\ r.probe = 0 /\ billed[10] = 1205090
<1>1. approved \in Attempts
  BY DEF FundedInv, SpendTypes
<1>. DEFINE r == receipts[approved]
            l == Leavings[approved]
<1>2. l.computes = r.computes /\ l.probe = r.probe
  <2>1. l = [computes |-> receipts[approved].computes, dispatched |-> work[approved].dispatched,
             confirmed |-> work[approved].confirmed,
             ended |-> work[approved].confirmed + work[approved].recovered,
             probe |-> receipts[approved].probe, charged |-> work[approved].charged]
    BY <1>1, LeavingsAre
  <2>. HIDE DEF l
  <2>. QED
    BY <2>1
<1>3. /\ l \in Amendment(approved + 1, billed).left
      /\ billed[approved] \in Amendment(approved + 1, billed).bill
  BY DEF Approve
<1>4. approved = 9 => billed[7] = 86282
  <2>1. EarlierEvidence(approved + 1, billed, Leavings)
    BY DEF Approve
  <2>. QED
    BY <2>1, SMT DEF EarlierEvidence
<1>. HIDE DEF l, r
<1>17. ASSUME approved = 7 PROVE r.computes = 1 /\ r.probe = 1
  <2>1. Amendment(8, billed).left = Leaves({1}, {1}, {0}, {0, 1}, {1}, {0})
    BY LeftIs, SMT
  <2>2. l \in Leaves({1}, {1}, {0}, {0, 1}, {1}, {0})
    BY <1>3, <1>17, <2>1
  <2>. QED
    BY <1>2, <2>2, SMT DEF Leaves
<1>18. ASSUME approved = 8 PROVE r.computes = 12 /\ r.probe = 1 /\ billed[8] = 993868
  <2>1. Amendment(9, billed).left = Leaves({12}, {6}, {5}, {6}, {1}, {3115})
    BY LeftIs, SMT
  <2>2. l \in Leaves({12}, {6}, {5}, {6}, {1}, {3115})
    BY <1>3, <1>18, <2>1
  <2>3. billed[8] \in Amendment(9, billed).bill
    BY <1>3, <1>18
  <2>4. billed[8] = 993868
    BY <2>3, BillIs, SMT
  <2>. QED
    BY <1>2, <2>2, <2>4, SMT DEF Leaves
<1>19. ASSUME approved = 9 PROVE r.computes = 1 /\ r.probe = 0 /\ billed[9] = 229152
  <2>1. Amendment(10, billed).left = Leaves({1}, {1}, {0}, {1}, {0}, {0})
    BY LeftIs, SMT
  <2>2. l \in Leaves({1}, {1}, {0}, {1}, {0}, {0})
    BY <1>3, <1>19, <2>1
  <2>3. billed[9] \in Amendment(10, billed).bill
    BY <1>3, <1>19
  <2>4. billed[9] = 229152
    BY <2>3, BillIs, SMT
  <2>. QED
    BY <1>2, <2>2, <2>4, SMT DEF Leaves
<1>20. ASSUME approved = 10 PROVE r.computes = 12 /\ r.probe = 0 /\ billed[10] = 1205090
  <2>1. Amendment(11, billed).left = Leaves({12}, {7}, {6, 7}, {7}, {0}, {4292})
    BY LeftIs, SMT
  <2>2. l \in Leaves({12}, {7}, {6, 7}, {7}, {0}, {4292})
    BY <1>3, <1>20, <2>1
  <2>3. billed[10] \in Amendment(11, billed).bill
    BY <1>3, <1>20
  <2>4. billed[10] = 1205090
    BY <2>3, BillIs, SMT
  <2>. QED
    BY <1>2, <2>2, <2>4, SMT DEF Leaves
<1>. QED
  BY <1>4, <1>17, <1>18, <1>19, <1>20, SMT DEF r

(* With an amendment the newest attempt joins the others, less what is      *)
(* given back.                                                              *)
LEMMA OthersApprove ==
    ASSUME FundedInv, FundedInv', Approve, NEW a \in Rows, NEW b \in Rows, a # b,
           NEW x \in Int, NEW y \in Int,
           Amendment(approved + 1, billed).releases[a].modal = x,
           Amendment(approved + 1, billed).releases[b].modal = y,
           \A c \in Rows : c # a /\ c # b => Amendment(approved + 1, billed).releases[c].modal = 0
    PROVE  Others' = Others + Admitted(approved).modal - x - y
<1>. DEFINE n == approved + 1
            R(c) == Amendment(n, billed).releases[c].modal
<1>1. \A c \in Rows : c \in Accounts /\ released[c].modal \in Int
  BY RowsAre, AdmittedTyped
<1>2. \A c \in Accounts : released'[c].modal = released[c].modal + R(c)
  BY FreedIs DEF Limits
<1>. HIDE DEF R
<1>3. R(a) = x /\ R(b) = y /\ \A c \in Rows : c # a /\ c # b => R(c) = 0
  BY DEF R
<1>4. /\ released'[a].modal = released[a].modal + x /\ released'[b].modal = released[b].modal + y
      /\ \A c \in Rows : c # a /\ c # b => released'[c].modal = released[c].modal
  BY <1>1, <1>2, <1>3
<1>5. Reserved(released)'.modal = Reserved(released).modal - x - y
  BY <1>4, ApproveReserved
<1>6. Others' = Reserved(released)'.modal - Admitted(approved)'.modal
  BY DEF Others
<1>8. Admitted(approved)'.modal = 0
  BY ApproveAdmits
<1>9. Others \in Int /\ Reserved(released).modal = Others + Admitted(approved).modal
      /\ Admitted(approved).modal \in Nat
  BY OthersTyped
<1>. QED
  BY <1>5, <1>6, <1>8, <1>9

(* The accounts of the attempts 7 to 11 when their amendments follow.       *)
LEMMA ApprovedAmount ==
    ASSUME FundedInv, Approve
    PROVE  /\ approved = 7 => Admitted(approved).modal = 1866080
           /\ approved = 8 => Admitted(approved).modal = 10292960
           /\ approved = 9 => Admitted(approved).modal = 1766080
           /\ approved = 10 => Admitted(approved).modal = 10192960
           /\ approved = 11 => Admitted(approved).modal <= 5596480
<1>. DEFINE n == approved
            r == receipts[n]
<1>1. n \in Attempts /\ n \in 0..13 /\ r.overhead = 1
  BY OthersTyped DEF Approve
<1>2. /\ Admitted(n).modal = r.overhead * OverheadBase + r.computes * EachOf(n) + r.probe * ProbeEach
      /\ r.computes \in 0..12 /\ r.probe \in 0..1
  BY <1>1, AdmittedIs, RowNumbers
<1>3. n \in 7..10 =>
          /\ n = 7 => r.computes = 1 /\ r.probe = 1
          /\ n = 8 => r.computes = 12 /\ r.probe = 1
          /\ n = 9 => r.computes = 1 /\ r.probe = 0
          /\ n = 10 => r.computes = 12 /\ r.probe = 0
  BY ApprovedRow
<1>4. n = 11 => r.computes <= 6 /\ r.probe = 0
  <2>1. RowInv(n, r, work[n]) /\ work[n] \in WorkRows
    BY <1>1 DEF FundedInv, SpendTypes
  <2>2. n = 11 => StageEnd(n, 2) = 6
    BY <1>1, StageEndIs
  <2>. QED
    BY <1>2, <2>1, <2>2 DEF RowInv
<1>5. n <= 11 => EachOf(n) = 766080
  BY <1>1, SMT DEF EachOf, ComputeEach
<1>. HIDE DEF n, r
<1>6. n <= 11 => Admitted(n).modal = 1000000 + r.computes * 766080 + r.probe * 100000
  BY <1>1, <1>2, <1>5, SMT DEF OverheadBase, ProbeEach
<1>7. /\ n = 7 => Admitted(n).modal = 1866080
      /\ n = 8 => Admitted(n).modal = 10292960
      /\ n = 9 => Admitted(n).modal = 1766080
      /\ n = 10 => Admitted(n).modal = 10192960
      /\ n = 11 => Admitted(n).modal <= 5596480
  BY <1>1, <1>2, <1>3, <1>4, <1>6, SMT
<1>. QED
  BY <1>7 DEF n

(* From the room attempt 7 found on, each amendment adds one settled        *)
(* account to the others and gives known amounts back: their sum stays      *)
(* below a known bound.                                                     *)
LEMMA CapsApprove ==
    ASSUME FundedInv, FundedInv', AffordInv, Approve
    PROVE  /\ approved = 7 => Others' <= 8673120
           /\ approved = 8 => Others' <= 9866988
           /\ approved = 9 => Others' <= 8616342
           /\ approved = 10 => Others' <= 9921432
           /\ approved = 11 => Others' <= 15517912
<1>1. /\ approved + 1 \in Attempts /\ approved \in 0..12 /\ Begun(approved)
      /\ Others \in Int /\ Admitted(approved).modal \in Nat
  BY ApproveAdmits, OthersTyped
<1>2. \A c \in Attempts : c \in Rows
  BY RowsAre
<1>3. \A k \in 0..(approved + 1) : k \in Rows
  BY <1>1, <1>2, SpendAssumption DEF Attempts
<1>4. \A c \in Rows : c \in Accounts
  BY RowsAre
<1>5. \A x \in Int, y \in Int : Limits(x, y).modal = x
  BY DEF Limits
<1>6. ASSUME approved = 7 PROVE Others' <= 8673120
  <2>3. ASSUME NEW c \in Rows
        PROVE  Amendment(8, billed).releases[c].modal =
                   IF c = 7 THEN 0 ELSE IF c = 8 THEN 0 ELSE 0
    <3>1. Amendment(8, billed).releases[c] =
              IF c = 7 THEN Limits(0, ModelBase) ELSE Limits(0, 0)
      BY <1>4, <2>3, ReleasesAre, SMT
    <3>2. ModelBase \in Int /\ SmallBuffer \in Int
      BY AllowancesAre
    <3>. QED
      BY <3>1, <3>2, SMT DEF Limits
  <2>4. /\ 7 \in Rows /\ 8 \in Rows /\ approved + 1 = 8
        /\ 0 \in Int /\ 0 \in Int
    BY <1>3, <1>6, SMT
  <2>5. /\ Amendment(8, billed).releases[7].modal = 0
        /\ Amendment(8, billed).releases[8].modal = 0
        /\ \A c \in Rows : c # 7 /\ c # 8 => Amendment(8, billed).releases[c].modal = 0
    BY <2>3, <2>4, SMT
  <2>6. PICK x \in Int, y \in Int : x = 0 /\ y = 0
    BY SMT
  <2>7. /\ Amendment(approved + 1, billed).releases[7].modal = x
        /\ Amendment(approved + 1, billed).releases[8].modal = y
        /\ \A c \in Rows : c # 7 /\ c # 8 => Amendment(approved + 1, billed).releases[c].modal = 0
    BY <2>4, <2>5, <2>6, SMT
  <2>8. 7 # 8
    OBVIOUS
  <2>9. Others' = Others + Admitted(approved).modal - x - y
    BY <2>4, <2>7, <2>8, OthersApprove
  <2>10. Others + 10192960 <= 17000000
    <3>1. Others + FullAllowance <= LimitsOf(approved).modal
      BY <1>1, <1>6 DEF AffordInv
    <3>2. LimitsOf(approved) = Limits(17000000, 3100000)
      <4>1. Amendment(7, billed).limits = Limits(17000000, 3100000)
        BY LimitsAre, SMT
      <4>. QED
        BY <1>6, <4>1 DEF LimitsOf
    <3>3. LimitsOf(approved).modal = 17000000
      BY <3>2, SMT DEF Limits
    <3>. QED
      BY <1>1, <3>1, <3>3, SMT DEF FullAllowance, OverheadBase, ComputeEach
  <2>11. Admitted(approved).modal = 1866080
    BY <1>6, ApprovedAmount, SMT
  <2>. QED
    BY <1>1, <2>6, <2>9, <2>10, <2>11, SMT
<1>7. ASSUME approved = 8 PROVE Others' <= 9866988
  <2>1. billed[8] = 993868
    BY <1>7, ApprovedRow, SMT
  <2>2. FullAllowance - billed[8] - Buffer = 9099092
    BY <2>1, SMT DEF FullAllowance, OneAllowance, OverheadBase, ComputeEach, Buffer
  <2>3. ASSUME NEW c \in Rows
        PROVE  Amendment(9, billed).releases[c].modal =
                   IF c = 8 THEN 9099092 ELSE IF c = 9 THEN 0 ELSE 0
    <3>1. Amendment(9, billed).releases[c] =
              IF c = 8 THEN Limits(FullAllowance - billed[8] - Buffer,
                                   ModelBase - 3115 - SmallBuffer)
                ELSE Limits(0, 0)
      BY <1>4, <2>3, ReleasesAre, SMT
    <3>2. ModelBase \in Int /\ SmallBuffer \in Int
      BY AllowancesAre
    <3>. QED
      BY <3>1, <3>2, <2>2, SMT DEF Limits
  <2>4. /\ 8 \in Rows /\ 9 \in Rows /\ approved + 1 = 9
        /\ 9099092 \in Int /\ 0 \in Int
    BY <1>3, <1>7, SMT
  <2>5. /\ Amendment(9, billed).releases[8].modal = 9099092
        /\ Amendment(9, billed).releases[9].modal = 0
        /\ \A c \in Rows : c # 8 /\ c # 9 => Amendment(9, billed).releases[c].modal = 0
    BY <2>3, <2>4, SMT
  <2>6. PICK x \in Int, y \in Int : x = 9099092 /\ y = 0
    BY SMT
  <2>7. /\ Amendment(approved + 1, billed).releases[8].modal = x
        /\ Amendment(approved + 1, billed).releases[9].modal = y
        /\ \A c \in Rows : c # 8 /\ c # 9 => Amendment(approved + 1, billed).releases[c].modal = 0
    BY <2>4, <2>5, <2>6, SMT
  <2>8. 8 # 9
    OBVIOUS
  <2>9. Others' = Others + Admitted(approved).modal - x - y
    BY <2>4, <2>7, <2>8, OthersApprove
  <2>10. Others <= 8673120
    BY <1>7, SMT DEF AffordInv
  <2>11. Admitted(approved).modal = 10292960
    BY <1>7, ApprovedAmount, SMT
  <2>. QED
    BY <1>1, <2>6, <2>9, <2>10, <2>11, SMT
<1>8. ASSUME approved = 9 PROVE Others' <= 8616342
  <2>1. billed[9] = 229152 /\ billed[7] = 86282
    BY <1>8, ApprovedRow, SMT
  <2>2. OneAllowance - billed[7] - Buffer = 1579798 /\ OneAllowance - billed[9] - Buffer = 1436928
    BY <2>1, SMT DEF FullAllowance, OneAllowance, OverheadBase, ComputeEach, Buffer
  <2>3. ASSUME NEW c \in Rows
        PROVE  Amendment(10, billed).releases[c].modal =
                   IF c = 7 THEN 1579798 ELSE IF c = 9 THEN 1436928 ELSE 0
    <3>1. Amendment(10, billed).releases[c] =
              IF c = 7 THEN Limits(OneAllowance - billed[7] - Buffer, 0)
                ELSE IF c = 9 THEN Limits(OneAllowance - billed[9] - Buffer, ModelBase)
                ELSE Limits(0, 0)
      BY <1>4, <2>3, ReleasesAre, SMT
    <3>2. ModelBase \in Int /\ SmallBuffer \in Int
      BY AllowancesAre
    <3>. QED
      BY <3>1, <3>2, <2>2, SMT DEF Limits
  <2>4. /\ 7 \in Rows /\ 9 \in Rows /\ approved + 1 = 10
        /\ 1579798 \in Int /\ 1436928 \in Int
    BY <1>3, <1>8, SMT
  <2>5. /\ Amendment(10, billed).releases[7].modal = 1579798
        /\ Amendment(10, billed).releases[9].modal = 1436928
        /\ \A c \in Rows : c # 7 /\ c # 9 => Amendment(10, billed).releases[c].modal = 0
    BY <2>3, <2>4, SMT
  <2>6. PICK x \in Int, y \in Int : x = 1579798 /\ y = 1436928
    BY SMT
  <2>7. /\ Amendment(approved + 1, billed).releases[7].modal = x
        /\ Amendment(approved + 1, billed).releases[9].modal = y
        /\ \A c \in Rows : c # 7 /\ c # 9 => Amendment(approved + 1, billed).releases[c].modal = 0
    BY <2>4, <2>5, <2>6, SMT
  <2>8. 7 # 9
    OBVIOUS
  <2>9. Others' = Others + Admitted(approved).modal - x - y
    BY <2>4, <2>7, <2>8, OthersApprove
  <2>10. Others <= 9866988
    BY <1>8, SMT DEF AffordInv
  <2>11. Admitted(approved).modal = 1766080
    BY <1>8, ApprovedAmount, SMT
  <2>. QED
    BY <1>1, <2>6, <2>9, <2>10, <2>11, SMT
<1>9. ASSUME approved = 10 PROVE Others' <= 9921432
  <2>1. billed[10] = 1205090
    BY <1>9, ApprovedRow, SMT
  <2>2. FullAllowance - billed[10] - Buffer = 8887870
    BY <2>1, SMT DEF FullAllowance, OneAllowance, OverheadBase, ComputeEach, Buffer
  <2>3. ASSUME NEW c \in Rows
        PROVE  Amendment(11, billed).releases[c].modal =
                   IF c = 10 THEN 8887870 ELSE IF c = 11 THEN 0 ELSE 0
    <3>1. Amendment(11, billed).releases[c] =
              IF c = 10 THEN Limits(FullAllowance - billed[10] - Buffer, ModelBase - 4292)
                ELSE Limits(0, 0)
      BY <1>4, <2>3, ReleasesAre, SMT
    <3>2. ModelBase \in Int /\ SmallBuffer \in Int
      BY AllowancesAre
    <3>. QED
      BY <3>1, <3>2, <2>2, SMT DEF Limits
  <2>4. /\ 10 \in Rows /\ 11 \in Rows /\ approved + 1 = 11
        /\ 8887870 \in Int /\ 0 \in Int
    BY <1>3, <1>9, SMT
  <2>5. /\ Amendment(11, billed).releases[10].modal = 8887870
        /\ Amendment(11, billed).releases[11].modal = 0
        /\ \A c \in Rows : c # 10 /\ c # 11 => Amendment(11, billed).releases[c].modal = 0
    BY <2>3, <2>4, SMT
  <2>6. PICK x \in Int, y \in Int : x = 8887870 /\ y = 0
    BY SMT
  <2>7. /\ Amendment(approved + 1, billed).releases[10].modal = x
        /\ Amendment(approved + 1, billed).releases[11].modal = y
        /\ \A c \in Rows : c # 10 /\ c # 11 => Amendment(approved + 1, billed).releases[c].modal = 0
    BY <2>4, <2>5, <2>6, SMT
  <2>8. 10 # 11
    OBVIOUS
  <2>9. Others' = Others + Admitted(approved).modal - x - y
    BY <2>4, <2>7, <2>8, OthersApprove
  <2>10. Others <= 8616342
    BY <1>9, SMT DEF AffordInv
  <2>11. Admitted(approved).modal = 10192960
    BY <1>9, ApprovedAmount, SMT
  <2>. QED
    BY <1>1, <2>6, <2>9, <2>10, <2>11, SMT
<1>10. ASSUME approved = 11 PROVE Others' <= 15517912
  <2>3. ASSUME NEW c \in Rows
        PROVE  Amendment(12, billed).releases[c].modal =
                   IF c = 11 THEN 0 ELSE IF c = 12 THEN 0 ELSE 0
    <3>1. Amendment(12, billed).releases[c] =
              Limits(0, 0)
      BY <1>4, <2>3, ReleasesAre, SMT
    <3>2. ModelBase \in Int /\ SmallBuffer \in Int
      BY AllowancesAre
    <3>. QED
      BY <3>1, <3>2, SMT DEF Limits
  <2>4. /\ 11 \in Rows /\ 12 \in Rows /\ approved + 1 = 12
        /\ 0 \in Int /\ 0 \in Int
    BY <1>3, <1>10, SMT
  <2>5. /\ Amendment(12, billed).releases[11].modal = 0
        /\ Amendment(12, billed).releases[12].modal = 0
        /\ \A c \in Rows : c # 11 /\ c # 12 => Amendment(12, billed).releases[c].modal = 0
    BY <2>3, <2>4, SMT
  <2>6. PICK x \in Int, y \in Int : x = 0 /\ y = 0
    BY SMT
  <2>7. /\ Amendment(approved + 1, billed).releases[11].modal = x
        /\ Amendment(approved + 1, billed).releases[12].modal = y
        /\ \A c \in Rows : c # 11 /\ c # 12 => Amendment(approved + 1, billed).releases[c].modal = 0
    BY <2>4, <2>5, <2>6, SMT
  <2>8. 11 # 12
    OBVIOUS
  <2>9. Others' = Others + Admitted(approved).modal - x - y
    BY <2>4, <2>7, <2>8, OthersApprove
  <2>10. Others <= 9921432
    BY <1>10, SMT DEF AffordInv
  <2>11. Admitted(approved).modal <= 5596480
    BY <1>10, ApprovedAmount, SMT
  <2>. QED
    BY <1>1, <2>6, <2>9, <2>10, <2>11, SMT
<1>. QED
  BY <1>6, <1>7, <1>8, <1>9, <1>10, SMT

(* An amendment starts a new attempt with room, and nothing of it begun.    *)
LEMMA AffordApprove ==
    ASSUME FundedInv, FundedInv', AffordInv, Approve
    PROVE  AffordInv'
<1>1. Room(0, 0)'
  BY RoomApprove
<1>2. /\ approved' = approved + 1 /\ approved + 1 \in Attempts /\ approved \in 0..12
      /\ receipts' = receipts /\ host' = host /\ receipts[approved + 1] = NoReceipts
  BY ApproveAdmits
<1>3. ~Begun(approved)'
  <2>1. \A h \in Hosts : host[h].place # "idle" => host[h].version <= approved
    BY DEF FundedInv
  <2>2. \A h \in Hosts : host[h].place # "idle" => host[h].version # approved + 1
    <3>1. ASSUME NEW h \in Hosts PROVE host[h].version \in 0..13
      <4>1. host[h] \in Seats
        BY DEF FundedInv, SpendTypes
      <4>2. host[h].version \in Attempts
        BY <4>1 DEF Seats
      <4>3. Attempts \subseteq 0..13
        BY SpendAssumption DEF Attempts
      <4>. QED
        BY <4>2, <4>3
    <3>. QED
      BY <1>2, <2>1, <3>1
  <2>. QED
    BY <1>2, <2>2 DEF Begun, NoReceipts
<1>4. /\ approved' = 8  => Others' <= 8673120
      /\ approved' = 9  => Others' <= 9866988
      /\ approved' = 10 => Others' <= 8616342
      /\ approved' = 11 => Others' <= 9921432
      /\ approved' = 12 => Others' <= 15517912
  BY <1>2, CapsApprove, SMT
<1>. QED
  BY <1>1, <1>3, <1>4, SMT DEF AffordInv

(* An empty journal is within the limits of the plan.                       *)
LEMMA AffordInit == SpendInit => AffordInv
<1>. SUFFICES ASSUME SpendInit PROVE AffordInv
  OBVIOUS
<1>1. /\ approved = 0 /\ released = NothingFreed /\ qualified = {}
      /\ receipts = [n \in Attempts |-> NoReceipts] /\ \A h \in Hosts : host[h] = AtRest
  BY DEF SpendInit
<1>2. FundedInv
  BY FundedInit
<1>. DEFINE rows == Newest + 2
            z == [k \in 1..rows |-> 0]
<1>3. ASSUME NEW a \in Rows PROVE Kept(released, a).modal = 0 /\ Kept(released, a).openrouter = 0
  <2>1. released[a].modal = 0 /\ released[a].openrouter = 0
    BY <1>1, RowsAre DEF NothingFreed, Limits
  <2>2. Admitted(a).modal = 0 /\ Admitted(a).openrouter = 0
    <3>1. CASE a = Setup
      BY <1>1, <3>1 DEF Admitted, Paid, Limits
    <3>2. CASE a \in Attempts
      <4>1. EachOf(a) \in Nat
        BY <1>2, <3>2, RowNumbers, EachIs
      <4>2. /\ Admitted(a).modal = 0 * OverheadBase + 0 * EachOf(a) + 0 * ProbeEach
            /\ Admitted(a).openrouter = 0 * ModelBase
        BY <1>1, <1>2, <3>2, AdmittedIs DEF NoReceipts
      <4>. QED
        BY <4>1, <4>2, AllowancesAre
    <3>. QED
      BY <3>1, <3>2, RowsAre
  <2>. QED
    BY <1>2, <2>1, <2>2, AdmittedTyped
<1>4. rows \in Nat /\ \A k \in 1..rows : k - 2 \in Rows
  BY RowsAre
<1>5. /\ [k \in 1..rows |-> Kept(released, k - 2).modal] = z
      /\ [k \in 1..rows |-> Kept(released, k - 2).openrouter] = z
  BY <1>3, <1>4
<1>6. Total(rows, z) = 0
  BY <1>4, TotalZero
<1>7. Reserved(released) = Limits(Total(rows, z), Total(rows, z))
  BY <1>5 DEF Reserved
<1>8. Reserved(released).modal = 0 /\ Reserved(released).openrouter = 0
  BY <1>6, <1>7 DEF Limits
<1>9. /\ LimitsOf(approved).modal = 11950000 /\ LimitsOf(approved).openrouter = 3000000
      /\ TotalOf(approved) = 15000000
  <2>1. LimitsOf(0).modal = 11950000 /\ LimitsOf(0).openrouter = 3000000
    BY SMT DEF LimitsOf, PlanLimits, Limits
  <2>2. TotalOf(0) = 15000000
    BY <2>1, SMT DEF TotalOf
  <2>. QED
    BY <1>1, <2>1, <2>2
<1>10. Room(0, 0)
  BY <1>8, <1>9, RoomIs, SMT
<1>11. ~Begun(approved)
  <2>1. receipts[approved].overhead = 0
    BY <1>1, SpendAssumption DEF NoReceipts, Attempts
  <2>. QED
    BY <1>1, <2>1 DEF Begun, AtRest
<1>. QED
  BY <1>1, <1>10, <1>11, SMT DEF AffordInv

(* For every instance: the journal is funded, its settled attempts are as   *)
(* their amendments found them, it stays within its limits, and what the    *)
(* newest attempt has still to find is not taken by the others.             *)
THEOREM SpendInvariant == SpendSpec => []SpendInv
<1>1. SpendInit => SpendInv
  BY FundedInit, SettledInit, AffordInit DEF SpendInv
<1>2. SpendInv /\ [SpendNext]_spendVars => SpendInv'
  <2>. SUFFICES ASSUME SpendInv, [SpendNext]_spendVars PROVE SpendInv'
    OBVIOUS
  <2>1. FundedInv' /\ SettledInv'
    BY FundedStep, SettledStep DEF SpendInv
  <2>2. CASE Approve
    BY <2>1, <2>2, AffordApprove DEF SpendInv
  <2>3. CASE ~Approve
    BY <2>1, <2>3, AffordStays DEF SpendInv
  <2>. QED
    BY <2>1, <2>2, <2>3 DEF SpendInv
<1>. QED
  BY <1>1, <1>2, PTL DEF SpendSpec

(* A running attempt finds room for all that is left of it.                 *)
LEMMA RestIsAffordable ==
    ASSUME FundedInv, AffordInv, NEW h \in Hosts, host[h].place = "running",
           Going(approved), host[h].version = approved, approved <= 12
    PROVE  Room((StageEnd(approved, 2) - receipts[approved].computes) * EachOf(approved)
                    + (1 - receipts[approved].overhead) * OverheadBase, 0)
<1>. DEFINE n == approved
            r == receipts[n]
            each == EachOf(n)
            end == StageEnd(n, 2)
            rest == (end - r.computes) * each + (1 - r.overhead) * OverheadBase
<1>1. n \in Attempts /\ n \in 0..12
  BY OthersTyped
<1>2. r.overhead = 1 /\ Begun(n)
  <2>1. SeatInv(host[h], r)
    BY DEF FundedInv
  <2>. QED
    BY <2>1 DEF SeatInv, Begun
<1>3. r.probe = 0 /\ r.computes <= end
  <2>1. RowInv(n, r, work[n])
    BY <1>1 DEF FundedInv
  <2>2. r.probe \in 0..1
    BY <1>1, RowNumbers
  <2>. QED
    BY <2>1, <2>2 DEF RowInv, Going
<1>4. /\ Admitted(n).modal = r.overhead * OverheadBase + r.computes * each + r.probe * ProbeEach
      /\ r.computes \in 0..12
  BY <1>1, AdmittedIs, RowNumbers
<1>5. end = (IF n <= 10 THEN 12 ELSE IF n = 11 THEN 6 ELSE 3) /\ end \in 0..12
  BY <1>1, StageEndIs
<1>6. each = IF n = 12 THEN PairEach ELSE ComputeEach
  BY <1>1 DEF EachOf
<1>7. Others \in Int /\ Reserved(released).modal = Others + Admitted(n).modal
  BY OthersTyped
<1>8. /\ n <= 10 => Others + FullAllowance <= LimitsOf(n).modal
      /\ n = 11 => Others <= 9921432
      /\ n = 12 => Others <= 15517912
      /\ Room(0, 0)
  BY <1>2, SMT DEF AffordInv
<1>9. n \in 11..12 => LimitsOf(n).modal = 20000000
  <2>1. /\ Amendment(11, billed).limits = Limits(20000000, 3100000)
        /\ Amendment(12, billed).limits = Limits(20000000, 3100000)
    BY LimitsAre, SMT
  <2>2. n \in 11..12 => LimitsOf(n) = Limits(20000000, 3100000)
    BY <2>1, SMT DEF LimitsOf
  <2>. QED
    BY <2>2, SMT DEF Limits
<1>10. /\ LimitsOf(n).modal \in Int /\ LimitsOf(n).openrouter \in Int /\ TotalOf(n) \in Int
       /\ TotalOf(n) >= LimitsOf(n).modal + LimitsOf(n).openrouter
  BY <1>1, LimitsTyped
<1>11. Reserved(released).openrouter \in Int
  BY ReservedTyped
<1>12. each \in Nat /\ rest = (end - r.computes) * each
  <2>1. each \in Nat
    BY <1>1, EachIs
  <2>. HIDE DEF each, end
  <2>. QED
    BY <1>2, <1>4, <1>5, <2>1, AllowancesAre
<1>13. Admitted(n).modal + rest = OverheadBase + end * each /\ rest \in Int
  <2>. HIDE DEF each, end, rest, r
  <2>1. Admitted(n).modal = OverheadBase + r.computes * each
    BY <1>2, <1>3, <1>4, <1>12, AllowancesAre
  <2>2. rest = (end - r.computes) * each
    BY <1>12
  <2>3. (end - r.computes) * each = end * each - r.computes * each
    BY <1>4, <1>5, <1>12
  <2>4. end * each \in Int /\ r.computes * each \in Int /\ OverheadBase \in Int
    BY <1>4, <1>5, <1>12, AllowancesAre
  <2>. QED
    BY <2>1, <2>2, <2>3, <2>4
<1>14. Reserved(released).modal + rest = Others + (OverheadBase + end * each)
  <2>. HIDE DEF each, end, rest
  <2>1. Admitted(n).modal \in Int
    BY OthersTyped
  <2>2. Reserved(released).modal + rest = Others + (Admitted(n).modal + rest)
    BY <1>7, <1>13, <2>1
  <2>. QED
    BY <1>13, <2>2
<1>. HIDE DEF r, each, end, rest
<1>15. Others + (OverheadBase + end * each) <= LimitsOf(n).modal
  <2>1. CASE n <= 10
    <3>1. OverheadBase + end * each = FullAllowance
      BY <1>1, <1>5, <1>6, <2>1 DEF FullAllowance
    <3>. QED
      BY <1>8, <2>1, <3>1
  <2>2. CASE n = 11
    <3>1. OverheadBase + end * each = 5596480
      BY <1>5, <1>6, <2>2, SMT DEF OverheadBase, ComputeEach
    <3>. QED
      BY <1>7, <1>8, <1>9, <2>2, <3>1, SMT
  <2>3. CASE n = 12
    <3>1. OverheadBase + end * each = 4413952
      BY <1>5, <1>6, <2>3, SMT DEF OverheadBase, PairEach
    <3>. QED
      BY <1>7, <1>8, <1>9, <2>3, <3>1, SMT
  <2>. QED
    BY <1>1, <2>1, <2>2, <2>3
<1>16. Reserved(released).openrouter + 0 <= LimitsOf(n).openrouter
  BY <1>8, RoomIs
<1>17. /\ Reserved(released).modal + rest <= LimitsOf(n).modal
       /\ Reserved(released).modal + rest + Reserved(released).openrouter + 0 <= TotalOf(n)
  <2>1. Reserved(released).modal + rest <= LimitsOf(n).modal /\ Reserved(released).modal \in Int
    BY <1>14, <1>15, ReservedTyped
  <2>. QED
    BY <1>10, <1>11, <1>13, <1>16, <2>1
<1>. QED
  BY <1>16, <1>17, RoomIs DEF rest, end, each, r

(* run_authorized_solo() checks the room for a complete pilot once, and the *)
(* follow-ups under v11 and v12 never: an attempt that has begun still      *)
(* finds all it has left to reserve, for any controllers, crashes, bills    *)
(* and charges.                                                             *)
THEOREM BegunIsPaidFor == SpendSpec => []BegunIsAffordable
<1>1. SpendInv => BegunIsAffordable
  <2>. SUFFICES ASSUME SpendInv, NEW h \in Hosts, Stands(h, "running"), Going(host[h].version),
                       CurrentAttempt(host[h].version), host[h].version <= 12
                PROVE  LET n == host[h].version
                           rest == (StageEnd(n, 2) - receipts[n].computes) * EachOf(n)
                                       + (1 - receipts[n].overhead) * OverheadBase
                       IN  Room(rest, 0)
    BY DEF BegunIsAffordable
  <2>1. host[h].version = approved /\ host[h].place = "running"
    BY DEF CurrentAttempt, Stands
  <2>. QED
    BY <2>1, RestIsAffordable DEF SpendInv
<1>. QED
  BY <1>1, SpendInvariant, PTL
=============================================================================
