------------------------- MODULE PublicationProofs -------------------------
(***************************************************************************)
(* Artifacts and their publications proved for any writes, requests, calls *)
(* and readers: the store keeps its allowances and its seal, a publication *)
(* that resolves is the one its entry carries, and all steps together are  *)
(* those of the contract.  The argument: rows are only added, a row of the *)
(* registry only changes its status, and a call acts on what it, or an     *)
(* entry of the same content, has prepared.                                *)
(*                                                                         *)
(* The board, for any entries and pages.  The numbers a reader is shown    *)
(* follow the order of the entries it can see, and a new entry is numbered *)
(* ahead of every cursor: so what a view has told of is what fits it, as   *)
(* far as the view has come.  A thread is what has the root of its entry,  *)
(* and these are the entries that answer one another.                      *)
(***************************************************************************)
EXTENDS ArtifactPublication, CollaborationBoard, RosterTotalsProofs, FiniteSetTheorems, TLAPS

WritePlaces == {"idle", "created", "written", "done", "failed", "lost"}

StoreTypes ==
    /\ storageOpen \in BOOLEAN
    /\ blob \in [Writes -> {"absent", "partial", "whole"}]
    /\ row \subseteq Writes /\ keyed \subseteq row
    /\ wplace \in [Writes -> WritePlaces]
    /\ returned \in [Writes -> SUBSET Writes]
    /\ sealed \in SUBSET SUBSET Writes
    /\ storeFaults \in Nat

(* What the file of an attempt holds, by where the attempt is. *)
FilesStand ==
    /\ \A w \in Writes : wplace[w] = "written" => blob[w] = "whole"
    /\ \A w \in row : wplace[w] = "done"

StoreInv == StoreTypes /\ FilesStand /\ StoreIsSound

(* The steps of the store, and those of the service that it takes part in. *)
StoreStep ==
    \/ OpenStorage \/ Seal
    \/ \E w \in Writes : Put(w)
    \/ StoreDies /\ storeFaults' \in Nat
    \/ UNCHANGED filesVars /\ storeFaults' \in Nat
-----------------------------------------------------------------------------
(* Allowances: what a set of rows uses. *)

SizeIn(S) == [w \in 1..WriteAttempts |-> IF w \in S THEN Size[w] ELSE 0]

LEMMA SizesAreIntegers ==
    ASSUME NEW S
    PROVE  SizeIn(S) \in [1..WriteAttempts -> Int]
  BY StoreAssumption DEF SizeIn, Writes

LEMMA UsedOfNone == Used({}) = 0
<1>1. [w \in Writes |-> IF w \in {} THEN Size[w] ELSE 0] = [w \in 1..WriteAttempts |-> 0]
  BY DEF Writes
<1> QED
  BY <1>1, TotalZero, StoreAssumption DEF Used

LEMMA UsedWithOneMore ==
    ASSUME NEW S, NEW w \in Writes, w \notin S
    PROVE  Used(S \cup {w}) = Used(S) + Size[w]
<1>1. SizeIn(S) \in [1..WriteAttempts -> Int] /\ SizeIn(S \cup {w}) \in [1..WriteAttempts -> Int]
  BY SizesAreIntegers
<1>2. w \in 1..WriteAttempts /\ WriteAttempts \in Nat /\ Size[w] \in Nat
  BY StoreAssumption DEF Writes
<1>3. \A v \in 1..WriteAttempts : v # w => SizeIn(S \cup {w})[v] = SizeIn(S)[v]
  BY DEF SizeIn
<1>4. SizeIn(S)[w] = 0 /\ SizeIn(S \cup {w})[w] = Size[w]
  BY <1>2 DEF SizeIn
<1>5. Total(WriteAttempts, SizeIn(S \cup {w}))
        = Total(WriteAttempts, SizeIn(S)) - SizeIn(S)[w] + SizeIn(S \cup {w})[w]
  BY <1>1, <1>2, <1>3, TotalChange
<1>6. Total(WriteAttempts, SizeIn(S)) \in Int
  BY <1>1, <1>2, TotalType
<1>7. Used(S) = Total(WriteAttempts, SizeIn(S))
      /\ Used(S \cup {w}) = Total(WriteAttempts, SizeIn(S \cup {w}))
  BY DEF Used, SizeIn, Writes
<1> QED
  BY <1>2, <1>4, <1>5, <1>6, <1>7

LEMMA StoreBegins ==
    ASSUME StoreInit
    PROVE  StoreInv
<1>1. \A a : RowsOfOwner(a) = {}
  BY DEF StoreInit, RowsOfOwner
<1>2. StoreTypes /\ FilesStand
  BY DEF StoreInit, StoreTypes, FilesStand, WritePlaces
<1>3. StoreIsSound
  BY <1>1, UsedOfNone, StoreAssumption DEF StoreInit, StoreIsSound
<1> QED
  BY <1>2, <1>3 DEF StoreInv

LEMMA StoreGoesOn ==
    ASSUME StoreInv, StoreStep
    PROVE  StoreInv' /\ row \subseteq row' /\ (sealed # {} => row' = row)
<1> USE DEF StoreInv
<1>1. CASE OpenStorage
  BY <1>1 DEF OpenStorage, StoreTypes, FilesStand, StoreIsSound, RowsOfOwner, Used
<1>2. CASE Seal
  BY <1>2 DEF Seal, StoreTypes, FilesStand, StoreIsSound, RowsOfOwner, Used
<1>3. CASE StoreDies /\ storeFaults' \in Nat
  BY <1>3 DEF StoreDies, StoreTypes, FilesStand, StoreIsSound, RowsOfOwner, Used, WritePlaces
<1>4. CASE UNCHANGED filesVars /\ storeFaults' \in Nat
  BY <1>4 DEF filesVars, StoreTypes, FilesStand, StoreIsSound, RowsOfOwner, Used
<1>5. ASSUME NEW w \in Writes, Put(w)
      PROVE  StoreInv' /\ row \subseteq row' /\ (sealed # {} => row' = row)
  <2>1. CASE CreateBlob(w)
    BY <2>1 DEF CreateBlob, StoreTypes, FilesStand, StoreIsSound, RowsOfOwner, Used, WritePlaces
  <2>2. CASE WriteBlob(w)
    BY <2>2 DEF WriteBlob, StoreTypes, FilesStand, StoreIsSound, RowsOfOwner, Used, WritePlaces
  <2>3. CASE PutFails(w)
    BY <2>3 DEF PutFails, Withdraw, StoreTypes, FilesStand, StoreIsSound, RowsOfOwner, Used, WritePlaces
  <2>4. CASE Replay(w)
    BY <2>4 DEF Replay, Earlier, StoreTypes, FilesStand, StoreIsSound, RowsOfOwner, Used, WritePlaces
  <2>5. CASE RefusePut(w)
    BY <2>5 DEF RefusePut, Withdraw, StoreTypes, FilesStand, StoreIsSound, RowsOfOwner, Used, WritePlaces
  <2>6. CASE AdmitWrite(w)
    <3>1. w \notin row /\ row' = row \cup {w} /\ sealed = {} /\ sealed' = {}
      BY <2>6 DEF AdmitWrite, WithinQuotas, FilesStand
    <3>2. StoreTypes' /\ FilesStand'
      BY <2>6 DEF AdmitWrite, StoreTypes, FilesStand, WritePlaces
    <3>3. Used(row') <= MaxCampaign
      BY <2>6, <3>1, UsedWithOneMore DEF AdmitWrite, WithinQuotas
    <3>4. \A a \in Roster : Used(RowsOfOwner(a)') <= MaxActor
      <4> SUFFICES ASSUME NEW a \in Roster
                   PROVE  Used(RowsOfOwner(a)') <= MaxActor
        OBVIOUS
      <4>1. CASE a = Writer[w]
        <5>1. RowsOfOwner(a)' = RowsOfOwner(a) \cup {w} /\ w \notin RowsOfOwner(a)
          BY <4>1, <3>1 DEF RowsOfOwner
        <5> QED
          BY <5>1, <4>1, <2>6, UsedWithOneMore DEF AdmitWrite, WithinQuotas
      <4>2. CASE a # Writer[w]
        <5>1. RowsOfOwner(a)' = RowsOfOwner(a)
          BY <4>2, <3>1 DEF RowsOfOwner
        <5> QED
          BY <5>1 DEF StoreIsSound
      <4> QED
        BY <4>1, <4>2
    <3>5. \A v, u \in keyed' :
              WriteKey[v] = WriteKey[u] /\ Writer[v] = Writer[u] => v = u
      BY <2>6 DEF AdmitWrite, Earlier, StoreIsSound
    <3>6. StoreIsSound'
      <4>1. \A u \in row' : blob'[u] = "whole"
        BY <2>6 DEF AdmitWrite, StoreIsSound, FilesStand
      <4>2. \A u \in Writes : \A v \in returned'[u] :
                v \in row' /\ Writer[v] = Writer[u] /\ (v # u => Content[v] = Content[u])
        BY <2>6 DEF AdmitWrite, StoreIsSound, StoreTypes
      <4>3. Used(row)' = Used(row') /\ \A a : Used(RowsOfOwner(a))' = Used(RowsOfOwner(a)')
        BY DEF Used
      <4> QED
        BY <3>1, <3>3, <3>4, <3>5, <4>1, <4>2, <4>3 DEF StoreIsSound
    <3> QED
      BY <3>1, <3>2, <3>6
  <2> QED
    BY <1>5, <2>1, <2>2, <2>3, <2>4, <2>5, <2>6 DEF Put
<1> QED
  BY <1>1, <1>2, <1>3, <1>4, <1>5 DEF StoreStep
-----------------------------------------------------------------------------
(* The registry, the board and the calls. *)

CallPlaces == {"idle", "prepare", "append", "abort", "bind"}
RowStates  == {"prepared", "bound", "aborted"}
PubRows    == {Absent} \cup {PublicationRow(st, r, i) :
                  st \in RowStates, r \in Requests, i \in Nat}

PublicationTypes ==
    /\ pubs \in [Pids -> PubRows]
    /\ board \in Seq(Requests)
    /\ call \in [ToolCalls -> Requests \cup {NoRequest}]
    /\ cplace \in [ToolCalls -> CallPlaces]
    /\ index \in [ToolCalls -> Nat]
    /\ granted \in [Readers -> SUBSET Pids]

(* The i-th publication of r is r's own, and of its actor's artifact. *)
RowStands(r, i) ==
    /\ pubs[<<r.key, i>>] \in {PublicationRow(st, r, i) : st \in RowStates}
    /\ r.arts[i] \in RowsOfOwner(r.actor)

Prepared(r, n) == \A i \in 1..n : RowStands(r, i)

Scoped(r) == r.audience = "shared" => Visibility = "shared"

(* An entry has all its publications, and its key no other entry. *)
EntriesStand ==
    /\ \A e \in Entries : Scoped(e) /\ Prepared(e, Width(e))
    /\ \A e, f \in Entries : e.key = f.key => e = f

(* What a call has prepared, and when it binds, that its entry is there. *)
CallStands(c) ==
    cplace[c] # "idle" =>
        /\ call[c] \in Requests /\ Scoped(call[c])
        /\ cplace[c] = "prepare" => index[c] < Width(call[c]) /\ Prepared(call[c], index[c])
        /\ cplace[c] \in {"append", "abort", "bind"} => Prepared(call[c], Width(call[c]))
        /\ cplace[c] \in {"abort", "bind"} => index[c] < Width(call[c])
        /\ cplace[c] = "bind" => \E e \in UnderKey(call[c]) : Digest(e) = Digest(call[c])

Carries(e, p) == p \in PidsOf(e)

ReadersStand ==
    /\ \A p \in Pids : pubs[p].status = "bound" => \E e \in Entries : Carries(e, p)
    /\ \A a \in Readers : \A p \in granted[a] :
          \E e \in Entries : Carries(e, p) /\ (e.audience = "private" => e.actor = a)
    /\ \A t \in copies : \E e \in Entries :
          /\ t[2] \in PidsOf(e) /\ t[3] = e.arts[t[2][2]]
          /\ e.audience = "private" => e.actor = t[1]

PublicationInv ==
    /\ StoreInv
    /\ PublicationTypes
    /\ EntriesStand
    /\ \A c \in ToolCalls : CallStands(c)
    /\ ReadersStand

LEMMA PidsOfRequests ==
    ASSUME NEW r \in Requests
    PROVE  /\ Width(r) \in Nat
           /\ \A i \in 1..Width(r) : /\ <<r.key, i>> \in PidsOf(r)
                                     /\ <<r.key, i>> \in Pids
                                     /\ r.arts[i] \in Writes
           /\ \A p \in PidsOf(r) : /\ p[2] \in 1..Width(r) /\ p = <<r.key, p[2]>>
                                   /\ p \in Pids
<1>1. r.arts \in Seq(Writes)
  BY PublicationAssumption
<1>2. Width(r) \in Nat /\ \A i \in 1..Width(r) : r.arts[i] \in Writes
  BY <1>1 DEF Width
<1> QED
  BY <1>2 DEF PidsOf, Pids

(* A row is that of one status, artifact and audience. *)
LEMMA RowFields ==
    ASSUME NEW st, NEW r, NEW i
    PROVE  /\ PublicationRow(st, r, i).status = st
           /\ PublicationRow(st, r, i).art = r.arts[i]
           /\ PublicationRow(st, r, i).audience = r.audience
           /\ PublicationRow(st, r, i) # Absent
           /\ \A x : [PublicationRow(st, r, i) EXCEPT !.status = x] = PublicationRow(x, r, i)
  BY DEF PublicationRow, Absent

LEMMA AppendedEntries ==
    ASSUME board \in Seq(Requests), NEW r \in Requests, board' = board \o <<r>>
    PROVE  board' \in Seq(Requests) /\ Entries' = Entries \cup {r}
<1>1. board' \in Seq(Requests) /\ Len(board') = Len(board) + 1 /\ Len(board) \in Nat
  OBVIOUS
<1>2. board'[Len(board) + 1] = r /\ \A i \in 1..Len(board) : board'[i] = board[i]
  OBVIOUS
<1> QED
  BY <1>1, <1>2 DEF Entries

LEMMA EntriesAreRequests ==
    ASSUME board \in Seq(Requests)
    PROVE  Entries \subseteq Requests
  BY DEF Entries

(* The same digest: the same publications, so as many. *)
LEMMA SamePublications ==
    ASSUME NEW e \in Requests, NEW r \in Requests, PidsOf(e) = PidsOf(r), e.key = r.key
    PROVE  Width(e) = Width(r)
<1>1. Width(e) \in Nat /\ Width(r) \in Nat
  BY PidsOfRequests
<1>2. \A i \in 1..Width(e) : i \in 1..Width(r)
  BY PidsOfRequests
<1>3. \A i \in 1..Width(r) : i \in 1..Width(e)
  BY PidsOfRequests
<1> QED
  BY <1>1, <1>2, <1>3
-----------------------------------------------------------------------------
(* A step leaves every row that there is as it is, but for its status. *)
RowsKept ==
    \A p \in Pids, r \in Requests, i \in Nat :
        pubs[p] \in {PublicationRow(st, r, i) : st \in RowStates}
        => pubs'[p] \in {PublicationRow(st, r, i) : st \in RowStates}

LEMMA PreparedStays ==
    ASSUME row \subseteq row', RowsKept
    PROVE  \A r \in Requests : \A n \in 0..Width(r) : Prepared(r, n) => Prepared(r, n)'
<1> SUFFICES ASSUME NEW r \in Requests, NEW n \in 0..Width(r), Prepared(r, n), NEW i \in 1..n
             PROVE  RowStands(r, i)'
  BY DEF Prepared
<1>1. i \in 1..Width(r) /\ i \in Nat /\ <<r.key, i>> \in Pids
  BY PidsOfRequests
<1>2. RowStands(r, i)
  BY DEF Prepared
<1> QED
  BY <1>1, <1>2 DEF RowStands, RowsKept, RowsOfOwner

LEMMA WhatStays ==
    ASSUME PublicationInv, row \subseteq row', RowsKept, Entries \subseteq Entries'
    PROVE  /\ \A e \in Entries : Scoped(e) /\ Prepared(e, Width(e))'
           /\ \A d \in ToolCalls :
                 call'[d] = call[d] /\ cplace'[d] = cplace[d] /\ index'[d] = index[d]
                 => CallStands(d)'
<1>1. Entries \subseteq Requests
  BY EntriesAreRequests DEF PublicationInv, PublicationTypes
<1>2. \A e \in Entries : Scoped(e) /\ Prepared(e, Width(e))'
  BY <1>1, PreparedStays, PidsOfRequests DEF PublicationInv, EntriesStand
<1>3. ASSUME NEW d \in ToolCalls,
             call'[d] = call[d], cplace'[d] = cplace[d], index'[d] = index[d],
             cplace'[d] # "idle"
      PROVE  CallStands(d)'
  <2>1. CallStands(d) /\ index[d] \in Nat
    BY DEF PublicationInv, PublicationTypes
  <2>2. call[d] \in Requests
    BY <1>3, <2>1 DEF CallStands
  <2> PICK r \in Requests : r = call[d]
    BY <2>2
  <2>3. Width(r) \in Nat
    BY PidsOfRequests
  <2>4. Scoped(r)
    BY <2>1, <1>3 DEF CallStands
  <2>5. cplace[d] = "prepare" => index[d] < Width(r) /\ Prepared(r, index[d])'
    BY <2>1, <1>3, <2>3, PreparedStays DEF CallStands
  <2>6. cplace[d] \in {"append", "abort", "bind"} => Prepared(r, Width(r))'
    BY <2>1, <1>3, <2>3, PreparedStays DEF CallStands
  <2>7. cplace[d] \in {"abort", "bind"} => index[d] < Width(r)
    BY <2>1, <1>3 DEF CallStands
  <2>8. cplace[d] = "bind" => \E e \in UnderKey(r)' : Digest(e) = Digest(r)
    BY <2>1, <1>3 DEF CallStands, UnderKey
  <2> QED
    BY <1>3, <2>4, <2>5, <2>6, <2>7, <2>8 DEF CallStands, UnderKey, Digest, Scoped, Prepared
<1>4. ASSUME NEW d \in ToolCalls, cplace'[d] = "idle"
      PROVE  CallStands(d)'
  BY <1>4 DEF CallStands
<1> QED
  BY <1>2, <1>3, <1>4

OthersStay(c) == \A d \in ToolCalls \ {c} :
    call'[d] = call[d] /\ cplace'[d] = cplace[d] /\ index'[d] = index[d]

CallTypes ==
    /\ call \in [ToolCalls -> Requests \cup {NoRequest}]
    /\ cplace \in [ToolCalls -> CallPlaces]
    /\ index \in [ToolCalls -> Nat]

LEMMA ReturnMoves ==
    ASSUME CallTypes, NEW c \in ToolCalls, Return(c)
    PROVE  CallTypes' /\ OthersStay(c) /\ cplace'[c] = "idle"
  BY DEF CallTypes, Return, PublishMoves, OthersStay, CallPlaces

LEMMA LoopMoves ==
    ASSUME CallTypes, NEW c \in ToolCalls, NEW r \in Requests, Width(r) \in Nat,
           NEW place \in {"prepare", "abort", "bind"}, NEW i \in 0..Width(r),
           Loop(c, r, place, i)
    PROVE  /\ CallTypes' /\ OthersStay(c)
           /\ \/ cplace'[c] = "idle"
              \/ /\ place = "prepare" /\ i = Width(r)
                 /\ cplace'[c] = "append" /\ call'[c] = r
              \/ /\ i < Width(r)
                 /\ cplace'[c] = place /\ call'[c] = r /\ index'[c] = i
<1>1. CASE i = Width(r) /\ place # "prepare"
  BY <1>1, ReturnMoves DEF Loop
<1>2. CASE i = Width(r) /\ place = "prepare"
  BY <1>2 DEF Loop, CallTypes, PublishMoves, OthersStay, CallPlaces
<1>3. CASE i # Width(r)
  BY <1>3 DEF Loop, CallTypes, PublishMoves, OthersStay, CallPlaces
<1> QED
  BY <1>1, <1>2, <1>3

(* A step of one call: what is left to show of it. *)
LEMMA CallGoesOn ==
    ASSUME PublicationInv, NEW c \in ToolCalls,
           UNCHANGED filesVars, storeFaults' \in Nat, UNCHANGED readVars,
           CallTypes', OthersStay(c), CallStands(c)',
           pubs' \in [Pids -> PubRows], RowsKept,
           \A p \in Pids : pubs'[p].status = "bound" =>
              pubs[p].status = "bound" \/ \E e \in Entries : Carries(e, p),
           UNCHANGED board
    PROVE  PublicationInv'
<1>1. StoreInv' /\ row \subseteq row'
  BY StoreGoesOn DEF StoreStep, PublicationInv
<1>2. PublicationTypes'
  BY DEF PublicationInv, PublicationTypes, CallTypes, readVars
<1>3. Entries' = Entries
  BY DEF Entries
<1>4. /\ \A e \in Entries : Scoped(e) /\ Prepared(e, Width(e))'
      /\ \A d \in ToolCalls \ {c} : CallStands(d)'
  BY <1>1, <1>3, WhatStays DEF OthersStay
<1>5. EntriesStand'
  BY <1>3, <1>4 DEF EntriesStand, PublicationInv, Scoped
<1>6. \A d \in ToolCalls : CallStands(d)'
  BY <1>4
<1>7. ReadersStand'
  BY <1>3 DEF ReadersStand, PublicationInv, readVars, Carries
<1> QED
  BY <1>1, <1>2, <1>5, <1>6, <1>7 DEF PublicationInv

LEMMA PublicationBegins == PublicationInit => PublicationInv
<1> SUFFICES ASSUME PublicationInit PROVE PublicationInv
  OBVIOUS
<1>1. StoreInv
  BY StoreBegins DEF PublicationInit
<1>2. PublicationTypes
  BY DEF PublicationInit, PublicationTypes, PubRows, CallPlaces
<1>3. Entries = {}
  BY DEF PublicationInit, Entries
<1>4. \A c \in ToolCalls : CallStands(c)
  BY DEF PublicationInit, CallStands
<1>5. \A p \in Pids : pubs[p].status # "bound"
  BY DEF PublicationInit, Absent
<1>6. EntriesStand /\ ReadersStand
  BY <1>3, <1>5 DEF PublicationInit, EntriesStand, ReadersStand
<1> QED
  BY <1>1, <1>2, <1>4, <1>6 DEF PublicationInv
-----------------------------------------------------------------------------
(* The calls of publish(), step by step. *)

LEMMA ReturnGoesOn ==
    ASSUME PublicationInv, NEW c \in ToolCalls, Return(c),
           UNCHANGED <<filesVars, pubs, board, readVars>>, storeFaults' \in Nat
    PROVE  PublicationInv'
<1>1. CallTypes' /\ OthersStay(c) /\ cplace'[c] = "idle"
  BY ReturnMoves DEF PublicationInv, PublicationTypes, CallTypes
<1>2. CallStands(c)'
  BY <1>1 DEF CallStands
<1>3. RowsKept /\ pubs' \in [Pids -> PubRows]
  BY DEF RowsKept, PublicationInv, PublicationTypes
<1> QED
  BY <1>1, <1>2, <1>3, CallGoesOn

LEMMA BeginGoesOn ==
    ASSUME PublicationInv, NEW c \in ToolCalls, NEW r \in Requests, BeginPublish(c, r)
    PROVE  PublicationInv'
<1>0. Width(r) \in Nat
  BY PidsOfRequests
<1>1. /\ CallTypes' /\ OthersStay(c)
      /\ \/ cplace'[c] = "idle"
         \/ 0 = Width(r) /\ cplace'[c] = "append" /\ call'[c] = r
         \/ 0 < Width(r) /\ cplace'[c] = "prepare" /\ call'[c] = r /\ index'[c] = 0
  BY <1>0, LoopMoves DEF BeginPublish, PublicationInv, PublicationTypes, CallTypes
<1>2. Scoped(r) /\ \A n : n \notin 1..0
  BY DEF BeginPublish, Scoped
<1>3. CallStands(c)'
  BY <1>0, <1>1, <1>2 DEF CallStands, Prepared, Scoped
<1>4. UNCHANGED <<filesVars, pubs, board, readVars>> /\ storeFaults' \in Nat
  BY DEF BeginPublish, storeVars, PublicationInv, StoreInv, StoreTypes
<1>5. RowsKept /\ pubs' \in [Pids -> PubRows]
  BY <1>4 DEF RowsKept, PublicationInv, PublicationTypes
<1> QED
  BY <1>1, <1>3, <1>4, <1>5, CallGoesOn

LEMMA PrepareGoesOn ==
    ASSUME PublicationInv, NEW c \in ToolCalls, Prepare(c)
    PROVE  PublicationInv'
<1>1. CallStands(c) /\ cplace[c] = "prepare" /\ index[c] \in Nat
  BY DEF PublicationInv, PublicationTypes, Prepare
<1> PICK r \in Requests : r = call[c]
  BY <1>1 DEF CallStands
<1> PICK i \in Nat : i = index[c] + 1
  BY <1>1
<1>2. /\ Width(r) \in Nat /\ i \in 1..Width(r) /\ i \in 0..Width(r)
      /\ Scoped(r) /\ Prepared(r, i - 1)
  BY <1>1, PidsOfRequests DEF CallStands
<1> DEFINE p == <<r.key, i>>
<1>3. p \in Pids /\ p = CurrentPublication(c)
  BY <1>2, PidsOfRequests DEF CurrentPublication
<1>4. UNCHANGED <<filesVars, board, readVars>> /\ storeFaults' \in Nat
  BY DEF Prepare, storeVars, PublicationInv, StoreInv, StoreTypes
<1>5. /\ r.arts[i] \in RowsOfOwner(r.actor)
      /\ \/ pubs[p] = Absent /\ pubs' = [pubs EXCEPT ![p] = PublicationRow("prepared", r, i)]
         \/ /\ pubs[p] \in {PublicationRow("prepared", r, i), PublicationRow("bound", r, i)}
            /\ pubs' = pubs
      /\ Loop(c, r, "prepare", i)
  BY <1>3 DEF Prepare
<1>6. /\ CallTypes' /\ OthersStay(c)
      /\ \/ cplace'[c] = "idle"
         \/ i = Width(r) /\ cplace'[c] = "append" /\ call'[c] = r
         \/ i < Width(r) /\ cplace'[c] = "prepare" /\ call'[c] = r /\ index'[c] = i
  BY <1>2, <1>5, LoopMoves DEF PublicationInv, PublicationTypes, CallTypes
<1>7. pubs \in [Pids -> PubRows]
  BY DEF PublicationInv, PublicationTypes
<1>8. pubs' \in [Pids -> PubRows]
  BY <1>3, <1>5, <1>7 DEF PubRows, RowStates
<1>9. RowsKept
  BY <1>3, <1>5, <1>7, RowFields DEF RowsKept
<1>10. Prepared(r, i)'
  <2>1. row' = row
    BY <1>4 DEF filesVars
  <2>2. RowStands(r, i)'
    BY <1>3, <1>5, <1>7, <2>1 DEF RowStands, RowStates, RowsOfOwner
  <2>3. Prepared(r, i - 1)'
    BY <1>2, <1>9, <2>1, PreparedStays
  <2> QED
    BY <1>2, <2>2, <2>3 DEF Prepared
<1>11. CallStands(c)'
  BY <1>2, <1>6, <1>10 DEF CallStands, Scoped
<1>12. \A q \in Pids : pubs'[q].status = "bound" => pubs[q].status = "bound"
  BY <1>3, <1>5, <1>7, RowFields
<1> QED
  BY <1>4, <1>6, <1>8, <1>9, <1>11, <1>12, CallGoesOn

LEMMA AppendGoesOn ==
    ASSUME PublicationInv, NEW c \in ToolCalls, AppendEntry(c)
    PROVE  PublicationInv'
<1>1. CallStands(c) /\ cplace[c] = "append"
  BY DEF PublicationInv, AppendEntry
<1> PICK r \in Requests : r = call[c]
  BY <1>1 DEF CallStands
<1>2. Width(r) \in Nat /\ 0 \in 0..Width(r) /\ Scoped(r) /\ Prepared(r, Width(r))
  BY <1>1, PidsOfRequests DEF CallStands
<1>3. /\ UNCHANGED <<filesVars, pubs, readVars>> /\ storeFaults' \in Nat
      /\ Loop(c, r, "bind", 0)
      /\ \/ (\E e \in UnderKey(r) : Digest(e) = Digest(r)) /\ UNCHANGED board
         \/ UnderKey(r) = {} /\ board' = board \o <<r>>
  BY DEF AppendEntry, storeVars, PublicationInv, StoreInv, StoreTypes
<1>4. /\ CallTypes' /\ OthersStay(c)
      /\ \/ cplace'[c] = "idle"
         \/ 0 < Width(r) /\ cplace'[c] = "bind" /\ call'[c] = r /\ index'[c] = 0
  BY <1>2, <1>3, LoopMoves DEF PublicationInv, PublicationTypes, CallTypes
<1>5. RowsKept /\ pubs' \in [Pids -> PubRows]
  BY <1>3 DEF RowsKept, PublicationInv, PublicationTypes
<1>6. StoreInv' /\ row' = row
  BY <1>3, StoreGoesOn DEF StoreStep, PublicationInv, filesVars
<1>7. Prepared(r, Width(r))'
  BY <1>2, <1>5, <1>6, PreparedStays
<1>8. CASE (\E e \in UnderKey(r) : Digest(e) = Digest(r)) /\ UNCHANGED board
  <2>1. CallStands(c)'
    BY <1>2, <1>4, <1>7, <1>8 DEF CallStands, Scoped, UnderKey, Entries, Digest, Prepared
  <2> QED
    BY <1>3, <1>4, <1>5, <1>8, <2>1, CallGoesOn
<1>9. CASE UnderKey(r) = {} /\ board' = board \o <<r>>
  <2>1. board' \in Seq(Requests) /\ Entries' = Entries \cup {r}
    BY <1>9, AppendedEntries DEF PublicationInv, PublicationTypes
  <2>2. /\ \A e \in Entries : Scoped(e) /\ Prepared(e, Width(e))'
        /\ \A d \in ToolCalls \ {c} : CallStands(d)'
    BY <1>4, <1>5, <1>6, <2>1, WhatStays DEF OthersStay
  <2>3. CallStands(c)'
    <3>1. r \in UnderKey(r)'
      BY <2>1 DEF UnderKey
    <3> QED
      BY <1>2, <1>4, <1>7, <3>1 DEF CallStands, Scoped, UnderKey, Digest, Prepared
  <2>4. EntriesStand'
    BY <1>2, <1>7, <1>9, <2>1, <2>2 DEF EntriesStand, PublicationInv, Scoped, UnderKey
  <2>5. ReadersStand'
    BY <1>3, <2>1 DEF ReadersStand, PublicationInv, readVars, Carries
  <2>6. PublicationTypes'
    BY <1>3, <1>4, <1>5, <2>1 DEF PublicationInv, PublicationTypes, CallTypes, readVars
  <2> QED
    BY <1>6, <2>2, <2>3, <2>4, <2>5, <2>6 DEF PublicationInv
<1> QED
  BY <1>3, <1>8, <1>9

(* A refused or failed entry leaves the call with what it must abort. *)
LEMMA AppendEndsGoesOn ==
    ASSUME PublicationInv, NEW c \in ToolCalls, AppendRefused(c) \/ AppendFails(c)
    PROVE  PublicationInv'
<1>1. CallStands(c) /\ cplace[c] = "append"
  BY DEF PublicationInv, AppendRefused, AppendFails
<1> PICK r \in Requests : r = call[c]
  BY <1>1 DEF CallStands
<1>2. Width(r) \in Nat /\ 0 \in 0..Width(r) /\ Scoped(r) /\ Prepared(r, Width(r))
  BY <1>1, PidsOfRequests DEF CallStands
<1>3. /\ UNCHANGED <<filesVars, pubs, board, readVars>> /\ storeFaults' \in Nat
      /\ Loop(c, r, "abort", 0)
  BY DEF AppendRefused, AppendFails, storeVars, PublicationInv, StoreInv, StoreTypes
<1>4. /\ CallTypes' /\ OthersStay(c)
      /\ \/ cplace'[c] = "idle"
         \/ 0 < Width(r) /\ cplace'[c] = "abort" /\ call'[c] = r /\ index'[c] = 0
  BY <1>2, <1>3, LoopMoves DEF PublicationInv, PublicationTypes, CallTypes
<1>5. RowsKept /\ pubs' \in [Pids -> PubRows]
  BY <1>3 DEF RowsKept, PublicationInv, PublicationTypes
<1>6. CallStands(c)'
  BY <1>2, <1>3, <1>4 DEF CallStands, Scoped, Prepared, RowStands, filesVars, RowsOfOwner
<1> QED
  BY <1>3, <1>4, <1>5, <1>6, CallGoesOn

(* Abort and bind: only the status of a row the call has prepared. *)
LEMMA StatusGoesOn ==
    ASSUME PublicationInv, NEW c \in ToolCalls, NEW r \in Requests, r = call[c],
           NEW place \in {"abort", "bind"}, cplace[c] = place,
           NEW st \in {"bound", "aborted"}, st = "bound" => place = "bind",
           \/ pubs' = [pubs EXCEPT ![CurrentPublication(c)] = [@ EXCEPT !.status = st]]
           \/ pubs' = pubs,
           Loop(c, r, place, index[c] + 1),
           UNCHANGED <<filesVars, board, readVars>>, storeFaults' \in Nat
    PROVE  PublicationInv'
<1>1. CallStands(c) /\ index[c] \in Nat
  BY DEF PublicationInv, PublicationTypes
<1> PICK i \in Nat : i = index[c] + 1
  BY <1>1
<1> DEFINE p == <<r.key, i>>
<1>2. /\ Width(r) \in Nat /\ i \in 1..Width(r) /\ i \in 0..Width(r)
      /\ Scoped(r) /\ Prepared(r, Width(r))
  BY <1>1, PidsOfRequests DEF CallStands
<1>3. p \in Pids /\ p = CurrentPublication(c) /\ p \in PidsOf(r)
  BY <1>2, PidsOfRequests DEF CurrentPublication
<1>4. /\ CallTypes' /\ OthersStay(c)
      /\ \/ cplace'[c] = "idle"
         \/ i < Width(r) /\ cplace'[c] = place /\ call'[c] = r /\ index'[c] = i
  BY <1>2, LoopMoves DEF PublicationInv, PublicationTypes, CallTypes
<1>5. pubs \in [Pids -> PubRows]
  BY DEF PublicationInv, PublicationTypes
<1>6. pubs[p] \in {PublicationRow(x, r, i) : x \in RowStates}
  BY <1>2 DEF Prepared, RowStands
<1>7. \/ pubs' = pubs
      \/ pubs' = [pubs EXCEPT ![p] = PublicationRow(st, r, i)]
  BY <1>3, <1>5, <1>6, RowFields
<1>8. pubs' \in [Pids -> PubRows]
  BY <1>3, <1>5, <1>7 DEF PubRows, RowStates
<1>9. RowsKept
  <2> SUFFICES ASSUME NEW q \in Pids, NEW s \in Requests, NEW j \in Nat,
                      pubs[q] \in {PublicationRow(x, s, j) : x \in RowStates}
               PROVE  pubs'[q] \in {PublicationRow(x, s, j) : x \in RowStates}
    BY DEF RowsKept
  <2>1. CASE q = p /\ pubs' # pubs
    <3>1. pubs'[q] = PublicationRow(st, r, i)
      BY <1>3, <1>5, <1>7, <2>1
    <3>2. r.arts[i] = s.arts[j] /\ r.audience = s.audience
      BY <1>6, <2>1, RowFields
    <3>3. PublicationRow(st, r, i) = PublicationRow(st, s, j)
      BY <3>2 DEF PublicationRow
    <3> QED
      BY <3>1, <3>3 DEF RowStates
  <2>2. CASE q # p \/ pubs' = pubs
    BY <1>3, <1>5, <1>7, <2>2
  <2> QED
    BY <2>1, <2>2
<1>10. Prepared(r, Width(r))'
  BY <1>2, <1>9, PreparedStays DEF filesVars
<1>11. place = "bind" => \E e \in UnderKey(r) : Digest(e) = Digest(r)
  BY <1>1 DEF CallStands
<1>12. CallStands(c)'
  BY <1>2, <1>4, <1>10, <1>11 DEF CallStands, Scoped, UnderKey, Entries, Digest, Prepared
<1>13. place = "bind" => \E e \in Entries : Carries(e, p)
  BY <1>3, <1>11 DEF UnderKey, Digest, Carries
<1>14. \A q \in Pids : pubs'[q].status = "bound" =>
              pubs[q].status = "bound" \/ \E e \in Entries : Carries(e, q)
  BY <1>3, <1>5, <1>7, <1>13, RowFields
<1> QED
  BY <1>4, <1>8, <1>9, <1>12, <1>14, CallGoesOn

LEMMA PublishingGoesOn ==
    ASSUME PublicationInv, NEW c \in ToolCalls, Publishing(c)
    PROVE  PublicationInv'
<1>0. storeFaults \in Nat /\ index[c] \in Nat /\ CallStands(c)
  BY DEF PublicationInv, StoreInv, StoreTypes, PublicationTypes
<1>1. CASE Prepare(c)
  BY <1>1, PrepareGoesOn
<1>2. CASE PrepareRefused(c) \/ BindRefused(c) \/ RegistryFails(c)
  BY <1>0, <1>2, ReturnGoesOn DEF PrepareRefused, BindRefused, RegistryFails, storeVars
<1>3. CASE AppendEntry(c)
  BY <1>3, AppendGoesOn
<1>4. CASE AppendRefused(c) \/ AppendFails(c)
  BY <1>4, AppendEndsGoesOn
<1>5. CASE AbortPending(c)
  <2>1. cplace[c] = "abort" /\ call[c] \in Requests
    BY <1>0, <1>5 DEF AbortPending, CallStands
  <2> PICK r \in Requests : r = call[c]
    BY <2>1
  <2> QED
    BY <1>0, <1>5, <2>1, StatusGoesOn DEF AbortPending, storeVars
<1>6. CASE Bind(c)
  <2>1. cplace[c] = "bind" /\ call[c] \in Requests
    BY <1>0, <1>6 DEF Bind, CallStands
  <2> PICK r \in Requests : r = call[c]
    BY <2>1
  <2> QED
    BY <1>0, <1>6, <2>1, StatusGoesOn DEF Bind, storeVars
<1> QED
  BY <1>1, <1>2, <1>3, <1>4, <1>5, <1>6 DEF Publishing
-----------------------------------------------------------------------------
(* The other steps touch no publication, entry or call but to forget it. *)
LEMMA RestGoesOn ==
    ASSUME PublicationInv, StoreStep, UNCHANGED <<pubs, board>>,
           PublicationTypes', ReadersStand',
           \A c \in ToolCalls : \/ cplace'[c] = "idle"
                                \/ call'[c] = call[c] /\ cplace'[c] = cplace[c] /\ index'[c] = index[c]
    PROVE  PublicationInv'
<1>1. StoreInv' /\ row \subseteq row'
  BY StoreGoesOn DEF PublicationInv
<1>2. RowsKept /\ Entries' = Entries
  BY DEF RowsKept, Entries
<1>3. /\ \A e \in Entries : Scoped(e) /\ Prepared(e, Width(e))'
      /\ \A c \in ToolCalls : CallStands(c)'
  BY <1>1, <1>2, WhatStays DEF CallStands
<1>4. EntriesStand'
  BY <1>2, <1>3 DEF EntriesStand, PublicationInv, Scoped
<1> QED
  BY <1>1, <1>3, <1>4 DEF PublicationInv

LEMMA ReadingGoesOn ==
    ASSUME PublicationInv, NEW a \in Readers,
           (\E p \in Pids : Authorize(a, p)) \/ TrustedRead(a)
    PROVE  PublicationInv'
<1>0. StoreStep /\ UNCHANGED <<pubs, board, call, cplace, index>>
  BY DEF Authorize, TrustedRead, storeVars, StoreStep, PublicationInv, StoreInv, StoreTypes
<1>1. Entries' = Entries /\ Entries \subseteq Requests
  BY <1>0, EntriesAreRequests DEF Entries, PublicationInv, PublicationTypes
<1>2. \A e \in Entries : \A p \in PidsOf(e) :
        pubs[p].art = e.arts[p[2]] /\ pubs[p].audience = e.audience
  <2> SUFFICES ASSUME NEW e \in Entries, NEW p \in PidsOf(e)
               PROVE  pubs[p].art = e.arts[p[2]] /\ pubs[p].audience = e.audience
    OBVIOUS
  <2>1. p[2] \in 1..Width(e) /\ p = <<e.key, p[2]>>
    BY <1>1, PidsOfRequests
  <2>2. RowStands(e, p[2])
    BY <2>1 DEF PublicationInv, EntriesStand, Prepared
  <2> QED
    BY <2>1, <2>2, RowFields DEF RowStands
<1>3. ASSUME NEW p \in Pids, Authorize(a, p)
      PROVE  PublicationTypes' /\ ReadersStand'
  <2>1. \E e \in Entries : Carries(e, p) /\ (e.audience = "private" => e.actor = a)
    BY <1>2, <1>3 DEF Authorize, Carries
  <2>2. PublicationTypes'
    BY <1>0, <1>3 DEF Authorize, PublicationInv, PublicationTypes
  <2>3. ReadersStand'
    BY <1>0, <1>1, <1>3, <2>1 DEF Authorize, PublicationInv, PublicationTypes, ReadersStand, Carries
  <2> QED
    BY <2>2, <2>3
<1>4. ASSUME TrustedRead(a)
      PROVE  PublicationTypes' /\ ReadersStand'
  <2> PICK p \in granted[a] :
          /\ copies' = IF blob[pubs[p].art] = "whole"
                       THEN copies \cup {<<a, p, pubs[p].art>>} ELSE copies
          /\ granted' = [granted EXCEPT ![a] = {}]
    BY <1>4 DEF TrustedRead
  <2>1. \E e \in Entries : p \in PidsOf(e) /\ (e.audience = "private" => e.actor = a)
    BY DEF PublicationInv, ReadersStand, Carries
  <2>2. PublicationTypes'
    BY <1>0 DEF PublicationInv, PublicationTypes
  <2>3. \A t \in copies' : \E e \in Entries :
          /\ t[2] \in PidsOf(e) /\ t[3] = e.arts[t[2][2]]
          /\ e.audience = "private" => e.actor = t[1]
    BY <1>2, <2>1 DEF PublicationInv, ReadersStand
  <2>4. \A b \in Readers : granted'[b] \subseteq granted[b]
    BY DEF PublicationInv, PublicationTypes
  <2>5. ReadersStand'
    BY <1>0, <1>1, <2>3, <2>4 DEF PublicationInv, ReadersStand, Carries
  <2> QED
    BY <2>2, <2>5
<1> QED
  BY <1>0, <1>3, <1>4, RestGoesOn

LEMMA ServiceDiesGoesOn ==
    ASSUME PublicationInv, ServiceDies
    PROVE  PublicationInv'
<1>1. StoreStep
  BY DEF ServiceDies, StoreStep, PublicationInv, StoreInv, StoreTypes
<1>2. PublicationTypes'
  BY DEF ServiceDies, PublicationInv, PublicationTypes, CallPlaces
<1>3. ReadersStand'
  BY DEF ServiceDies, PublicationInv, ReadersStand, Carries, Entries
<1> QED
  BY <1>1, <1>2, <1>3, RestGoesOn DEF ServiceDies

LEMMA StoringGoesOn ==
    ASSUME PublicationInv, OpenStorage \/ Seal \/ (\E w \in Writes : Put(w)), UNCHANGED pubVars
    PROVE  PublicationInv'
<1>1. StoreStep
  BY DEF StoreStep
<1>2. PublicationTypes' /\ ReadersStand'
  BY DEF pubVars, PublicationInv, PublicationTypes, ReadersStand, Carries, Entries
<1> QED
  BY <1>1, <1>2, RestGoesOn DEF pubVars

LEMMA PublicationInductive ==
    PublicationInv /\ [PublicationNext]_publicationVars => PublicationInv'
<1> SUFFICES ASSUME PublicationInv, [PublicationNext]_publicationVars
             PROVE  PublicationInv'
  OBVIOUS
<1>1. CASE UNCHANGED publicationVars
  <2>1. StoreStep /\ UNCHANGED pubVars
    BY <1>1 DEF publicationVars, storeVars, StoreStep, PublicationInv, StoreInv, StoreTypes
  <2>2. PublicationTypes' /\ ReadersStand'
    BY <2>1 DEF pubVars, PublicationInv, PublicationTypes, ReadersStand, Carries, Entries
  <2> QED
    BY <2>1, <2>2, RestGoesOn DEF pubVars
<1> QED
  BY <1>1, StoringGoesOn, BeginGoesOn, PublishingGoesOn, ReadingGoesOn, ServiceDiesGoesOn
     DEF PublicationNext

THEOREM PublicationInvariant == PublicationSpec => []PublicationInv
  BY PublicationBegins, PublicationInductive, PTL DEF PublicationSpec

(* Whatever put() fails, is retried or dies on the way: an admitted artifact *)
(* has its bytes, a write key one artifact, the allowances hold, and a      *)
(* sealed campaign has exactly the artifacts of its seal.                   *)
THEOREM PublicationKeepsStore == PublicationSpec => []StoreIsSound
<1>1. PublicationInv => StoreIsSound
  BY DEF PublicationInv, StoreInv
<1> QED
  BY <1>1, PublicationInvariant, PTL

LEMMA BoundByInvariant == PublicationInv => BoundIsAttached
<1> SUFFICES ASSUME PublicationInv PROVE BoundIsAttached
  OBVIOUS
<1>1. ASSUME NEW p \in Pids, pubs[p].status = "bound"
      PROVE  \E e \in Entries :
                /\ p \in PidsOf(e)
                /\ pubs[p] = PublicationRow("bound", e, p[2])
                /\ Writer[e.arts[p[2]]] = e.actor
                /\ e.audience = "shared" => Visibility = "shared"
  <2> PICK e \in Entries : p \in PidsOf(e)
    BY <1>1 DEF PublicationInv, ReadersStand, Carries
  <2>1. e \in Requests /\ p[2] \in 1..Width(e) /\ p = <<e.key, p[2]>>
    BY EntriesAreRequests, PidsOfRequests DEF PublicationInv, PublicationTypes
  <2>2. RowStands(e, p[2]) /\ Scoped(e)
    BY <2>1 DEF PublicationInv, EntriesStand, Prepared
  <2>3. pubs[p] = PublicationRow("bound", e, p[2])
    BY <1>1, <2>1, <2>2, RowFields DEF RowStands
  <2> QED
    BY <2>2, <2>3 DEF RowStands, RowsOfOwner, Scoped
<1> QED
  BY <1>1 DEF BoundIsAttached, PublicationInv, ReadersStand

(* However the steps of several calls interleave, fail or die: what         *)
(* resolves belongs to the entry of its key, with that entry's artifact,    *)
(* owner and audience, and nobody has a copy of anything else.              *)
THEOREM BoundPublicationsAreAttached == PublicationSpec => []BoundIsAttached
  BY PublicationInvariant, BoundByInvariant, PTL
-----------------------------------------------------------------------------
(* The contract: an entry is posted once for its key, and a publication     *)
(* resolves after the entry that carries it.                                *)

BoundPids == {p \in Pids : pubs[p].status = "bound"}

LEMMA StutterContract ==
    ASSUME Entries' = Entries, BoundPids' = BoundPids
    PROVE  [Contract!Next]_(Contract!vars)
  BY DEF BoundPids, Contract!vars

LEMMA AppendContract ==
    ASSUME PublicationInv, NEW c \in ToolCalls, AppendEntry(c)
    PROVE  [Contract!Next]_(Contract!vars)
<1>1. BoundPids' = BoundPids
  BY DEF AppendEntry, BoundPids
<1>2. call[c] \in Requests
  BY DEF AppendEntry, PublicationInv, CallStands
<1> PICK r \in Requests : r = call[c]
  BY <1>2
<1>3. CASE UNCHANGED board
  BY <1>1, <1>3, StutterContract DEF Entries
<1>4. CASE UnderKey(r) = {} /\ board' = board \o <<r>>
  <2>1. Entries' = Entries \cup {r} /\ Entries \subseteq Requests
    BY <1>4, AppendedEntries, EntriesAreRequests DEF PublicationInv, PublicationTypes
  <2>2. \A q \in Entries : q.key # r.key
    BY <1>4 DEF UnderKey
  <2>3. Contract!Post(r)
    BY <1>1, <2>1, <2>2 DEF Contract!Post, BoundPids
  <2> QED
    BY <2>3 DEF Contract!Next
<1> QED
  BY <1>3, <1>4 DEF AppendEntry

LEMMA BindContract ==
    ASSUME PublicationInv, NEW c \in ToolCalls, Bind(c)
    PROVE  [Contract!Next]_(Contract!vars)
<1>1. CallStands(c) /\ index[c] \in Nat /\ pubs \in [Pids -> PubRows]
  BY DEF PublicationInv, PublicationTypes
<1>2. call[c] \in Requests
  BY <1>1 DEF Bind, CallStands
<1> PICK r \in Requests : r = call[c]
  BY <1>2
<1> PICK p : p = CurrentPublication(c)
  OBVIOUS
<1>3. p \in Pids /\ p \in PidsOf(r)
  BY <1>1, PidsOfRequests DEF Bind, CallStands, CurrentPublication
<1>4. PICK e \in Entries : e \in Requests /\ p \in PidsOf(e)
  BY <1>1, <1>3, EntriesAreRequests
     DEF Bind, CallStands, UnderKey, Digest, PublicationInv, PublicationTypes
<1>5. pubs' = [pubs EXCEPT ![p] = [@ EXCEPT !.status = "bound"]] /\ Entries' = Entries
  BY DEF Bind, Entries
<1>6. pubs'[p].status = "bound"
  <2>1. PICK i \in 1..Width(r) : p = <<r.key, i>> /\ RowStands(r, i)
    BY <1>1, PidsOfRequests DEF Bind, CallStands, CurrentPublication, Prepared
  <2> QED
    BY <1>1, <1>3, <1>5, <2>1, RowFields DEF RowStands
<1>7. BoundPids' = BoundPids \cup {p}
  BY <1>1, <1>3, <1>5, <1>6 DEF BoundPids
<1>8. Contract!Publish(p)
  BY <1>4, <1>5, <1>7 DEF Contract!Publish, BoundPids
<1> QED
  BY <1>3, <1>8 DEF Contract!Next

(* Preparing and aborting make nothing resolve and end nothing that does. *)
LEMMA PendingContract ==
    ASSUME PublicationInv, NEW c \in ToolCalls, Prepare(c) \/ AbortPending(c)
    PROVE  [Contract!Next]_(Contract!vars)
<1>1. /\ CallStands(c) /\ index[c] \in Nat /\ pubs \in [Pids -> PubRows]
      /\ cplace[c] \in {"prepare", "abort"}
  BY DEF PublicationInv, PublicationTypes, Prepare, AbortPending
<1> PICK r \in Requests : r = call[c]
  BY <1>1 DEF CallStands
<1> PICK i \in 1..Width(r) : i = index[c] + 1
  BY <1>1, PidsOfRequests DEF CallStands
<1> DEFINE p == <<r.key, i>>
<1>2. p \in Pids /\ p = CurrentPublication(c)
  BY PidsOfRequests DEF CurrentPublication
<1>3. Entries' = Entries
  BY DEF Prepare, AbortPending, Entries
<1>4. BoundPids' = BoundPids
  <2>1. CASE Prepare(c)
    BY <1>1, <1>2, <2>1, RowFields DEF Prepare, BoundPids, Absent
  <2>2. CASE AbortPending(c)
    <3>1. RowStands(r, i)
      BY <1>1, <2>2 DEF AbortPending, CallStands, Prepared
    <3> QED
      BY <1>1, <1>2, <2>2, <3>1, RowFields DEF AbortPending, BoundPids, RowStands
  <2> QED
    BY <2>1, <2>2
<1> QED
  BY <1>3, <1>4, StutterContract

LEMMA NextContract ==
    PublicationInv /\ [PublicationNext]_publicationVars => [Contract!Next]_(Contract!vars)
<1> SUFFICES ASSUME PublicationInv, [PublicationNext]_publicationVars
             PROVE  [Contract!Next]_(Contract!vars)
  OBVIOUS
<1>1. ASSUME NEW c \in ToolCalls, Publishing(c)
      PROVE  [Contract!Next]_(Contract!vars)
  <2>1. CASE UNCHANGED <<pubs, board>>
    BY <2>1, StutterContract DEF Entries, BoundPids
  <2>2. CASE Prepare(c) \/ AbortPending(c)
    BY <2>2, PendingContract
  <2>3. CASE AppendEntry(c) \/ Bind(c)
    BY <2>3, AppendContract, BindContract
  <2> QED
    BY <1>1, <2>1, <2>2, <2>3
       DEF Publishing, PrepareRefused, AppendRefused, AppendFails, BindRefused, RegistryFails
<1>2. CASE \/ (OpenStorage \/ Seal \/ \E w \in Writes : Put(w)) /\ UNCHANGED pubVars
           \/ \E c \in ToolCalls, r \in Requests : BeginPublish(c, r)
           \/ \E a \in Readers, p \in Pids : Authorize(a, p)
           \/ \E a \in Readers : TrustedRead(a)
           \/ ServiceDies
           \/ UNCHANGED publicationVars
  <2>1. UNCHANGED <<pubs, board>>
    BY <1>2 DEF pubVars, BeginPublish, Authorize, TrustedRead, ServiceDies, publicationVars
  <2> QED
    BY <2>1, StutterContract DEF Entries, BoundPids
<1> QED
  BY <1>1, <1>2 DEF PublicationNext

LEMMA InitContract == PublicationInit => Contract!Init
  BY DEF PublicationInit, Contract!Init, Entries, Absent

(* Preparing, appending and binding in three databases, with retries, races *)
(* and deaths, is one atomic post per key followed by its publications.     *)
THEOREM PublicationImplementsContract == PublicationSpec => ImplementsPublication
  BY PublicationInvariant, NextContract, InitContract, PTL
     DEF PublicationSpec, ImplementsPublication, Contract!Spec
-----------------------------------------------------------------------------
(* The entries of an actor among the first n.                              *)
OwnOf(a, n) == {i \in 1..n : posts[i].actor = a}

BoardEntries == [actor : Posters, body : Words, reply : Nat, actorSequence : Nat, root : Nat]

(* An entry is numbered among those of its actor, and has the root of the  *)
(* earlier entry it answers.                                               *)
PostsStand ==
    /\ posts \in Seq(BoardEntries)
    /\ \A i \in Posted :
          /\ posts[i].actorSequence = Cardinality(OwnOf(posts[i].actor, i))
          /\ posts[i].reply \in 0..(i - 1)
          /\ posts[i].root = IF posts[i].reply = 0 THEN i ELSE posts[posts[i].reply].root

(* What the view should show, and how far it has come.                     *)
Fits(i) ==
    /\ scopeKind = "actor_private" => posts[i].actor = view.reader
    /\ view.operation = "search" => posts[i].body = view.query
    /\ view.operation = "notifications" => posts[i].actor # view.reader
    /\ view.operation = "thread" => view.ended /\ posts[i].root = posts[view.query].root
Reached(i) == IF view.ended THEN i <= view.of ELSE SequenceColumn(i) <= view.after

(* The first number no entry that the reader can see has yet.              *)
Ahead(a) == IF scopeKind = "actor_private" THEN ActorSequence(a) ELSE Len(posts) + 1

Listing == [reader : Posters, operation : Views, query : Words \cup Nat, after : Nat,
            told : Seq(Nat \X Nat), ended : BOOLEAN, of : Nat]

(* Every entry a view has told of carries its number, in ascending order;  *)
(* and these are the entries that fit, as far as the view has come.        *)
ToldInOrder ==
    /\ \A k \in 1..Len(view.told) :
          /\ view.told[k][1] \in Posted
          /\ view.told[k][2] = SequenceColumn(view.told[k][1])
    /\ \A k, l \in 1..Len(view.told) : k < l => view.told[k][1] < view.told[l][1]
ToldWhatFits ==
    \A i \in Posted :
        (\E k \in 1..Len(view.told) : view.told[k][1] = i) <=> Fits(i) /\ Reached(i)

ViewStands ==
    view # NoView =>
        /\ view \in Listing
        /\ scopeKind \in Scopes
        /\ view.after < Ahead(view.reader) /\ view.of <= Len(posts)
        /\ view.operation = "notifications" => ~view.ended
        /\ view.operation = "thread" =>
              /\ ~view.ended => view.after = 0
              /\ view.ended => view.query \in Posted
        /\ ToldInOrder
        /\ ToldWhatFits

BoardInv ==
    /\ scopeKind \in Scopes \cup {"none"}
    /\ PostsStand
    /\ ViewStands

(* Counting an actor's entries: the longer the board, the more, and an     *)
(* entry of its own is one more.                                           *)
LEMMA OwnCounted ==
    ASSUME NEW a, NEW n \in Nat
    PROVE  /\ IsFiniteSet(OwnOf(a, n)) /\ Cardinality(OwnOf(a, n)) \in Nat
           /\ \A m \in 0..n : Cardinality(OwnOf(a, m)) <= Cardinality(OwnOf(a, n))
           /\ \A m \in 0..n : m < n /\ posts[n].actor = a =>
                  Cardinality(OwnOf(a, m)) < Cardinality(OwnOf(a, n))
           /\ \A m \in 0..n : posts[n].actor = a /\ m = n - 1 =>
                  Cardinality(OwnOf(a, n)) = Cardinality(OwnOf(a, m)) + 1
<1>1. \A k \in Nat : IsFiniteSet(OwnOf(a, k)) /\ Cardinality(OwnOf(a, k)) \in Nat
  <2>1. TAKE k \in Nat
  <2>2. IsFiniteSet(1..k) /\ OwnOf(a, k) \subseteq 1..k
    BY FS_Interval DEF OwnOf
  <2>. QED
    BY <2>2, FS_Subset, FS_CardinalityType
<1>2. \A m \in 0..n : Cardinality(OwnOf(a, m)) <= Cardinality(OwnOf(a, n))
  <2>1. TAKE m \in 0..n
  <2>2. OwnOf(a, m) \subseteq OwnOf(a, n) /\ m \in Nat
    BY DEF OwnOf
  <2>. QED
    BY <1>1, <2>2, FS_Subset
<1>3. ASSUME NEW m \in 0..n, m < n, posts[n].actor = a
      PROVE  Cardinality(OwnOf(a, m)) < Cardinality(OwnOf(a, n))
  <2>1. OwnOf(a, m) \subseteq OwnOf(a, n) /\ n \in OwnOf(a, n) /\ n \notin OwnOf(a, m)
    BY <1>3 DEF OwnOf
  <2>. QED
    BY <1>1, <1>3, <2>1, FS_Subset
<1>4. ASSUME NEW m \in 0..n, m = n - 1, posts[n].actor = a
      PROVE  Cardinality(OwnOf(a, n)) = Cardinality(OwnOf(a, m)) + 1
  <2>1. OwnOf(a, n) = OwnOf(a, m) \cup {n} /\ n \notin OwnOf(a, m)
    BY <1>4 DEF OwnOf
  <2>2. IsFiniteSet(OwnOf(a, m))
    BY <1>1, m \in Nat
  <2>3. Cardinality(OwnOf(a, m) \cup {n}) = Cardinality(OwnOf(a, m)) + 1
    BY <2>1, <2>2, FS_AddElement
  <2>. QED
    BY <2>1, <2>3
<1>. QED
  BY <1>1, <1>2, <1>3, <1>4

(* The numbers a reader is shown are natural, in the order of the entries  *)
(* it can see, and none is ahead of the board.                             *)
LEMMA ColumnOrder ==
    ASSUME PostsStand, scopeKind \in Scopes, NEW a
    PROVE  /\ \A i \in VisibleTo(a) : SequenceColumn(i) \in Nat \ {0} /\ SequenceColumn(i) < Ahead(a)
           /\ \A i, j \in VisibleTo(a) : i < j <=> SequenceColumn(i) < SequenceColumn(j)
           /\ Ahead(a) \in Nat \ {0}
<1>. Len(posts) \in Nat /\ Posted = 1..Len(posts) /\ Len(posts) >= 0
  BY DEF PostsStand, Posted
<1>. OwnOf(a, Len(posts)) = {i \in Posted : posts[i].actor = a} /\ OwnOf(a, 0) = {}
  BY DEF OwnOf
<1>1. CASE scopeKind = "organisation_shared"
  BY <1>1 DEF VisibleTo, SequenceColumn, Ahead
<1>2. CASE scopeKind = "actor_private"
  <2>1. \A i \in VisibleTo(a) : i \in 1..Len(posts) /\ posts[i].actor = a
                                /\ SequenceColumn(i) = Cardinality(OwnOf(a, i))
    BY <1>2 DEF VisibleTo, SequenceColumn, PostsStand
  <2>2. Ahead(a) = Cardinality(OwnOf(a, Len(posts))) + 1
    BY <1>2 DEF Ahead, ActorSequence
  <2>3. \A i \in VisibleTo(a) : /\ Cardinality(OwnOf(a, i)) \in Nat
                                /\ Cardinality(OwnOf(a, 0)) < Cardinality(OwnOf(a, i))
                                /\ Cardinality(OwnOf(a, i)) <= Cardinality(OwnOf(a, Len(posts)))
    <3>1. TAKE i \in VisibleTo(a)
    <3>2. i \in Nat /\ 0 \in 0..i /\ 0 < i /\ i \in 0..Len(posts) /\ posts[i].actor = a
      BY <2>1
    <3>. QED
      BY <3>2, OwnCounted
  <2>4. Cardinality(OwnOf(a, 0)) = 0 /\ Cardinality(OwnOf(a, Len(posts))) \in Nat
    BY FS_EmptySet, OwnCounted
  <2>5. ASSUME NEW i \in VisibleTo(a), NEW j \in VisibleTo(a), i < j
        PROVE  SequenceColumn(i) < SequenceColumn(j)
    <3>1. i \in 0..j /\ j \in Nat /\ posts[j].actor = a
      BY <2>1, <2>5
    <3>. QED
      BY <2>1, <2>5, <3>1, OwnCounted
  <2>6. \A i \in VisibleTo(a) : SequenceColumn(i) \in Nat \ {0} /\ SequenceColumn(i) < Ahead(a)
    BY <2>1, <2>2, <2>3, <2>4
  <2>7. \A i, j \in VisibleTo(a) : i < j <=> SequenceColumn(i) < SequenceColumn(j)
    <3>1. TAKE i, j \in VisibleTo(a)
    <3>2. i \in Nat /\ j \in Nat /\ SequenceColumn(i) \in Nat /\ SequenceColumn(j) \in Nat
      BY <2>1, <2>6
    <3>3. i < j => SequenceColumn(i) < SequenceColumn(j)
      BY <2>5
    <3>4. j < i => SequenceColumn(j) < SequenceColumn(i)
      BY <2>5
    <3>. QED
      BY <3>2, <3>3, <3>4
  <2>. QED
    BY <2>2, <2>4, <2>6, <2>7
<1>. QED
  BY <1>1, <1>2 DEF Scopes

(* A new entry is numbered, rooted and answers as an entry should, and     *)
(* leaves the earlier ones and their numbers alone.                        *)
LEMMA PostedEntry ==
    ASSUME BoardInv, NEW a \in Posters, NEW w \in Words, NEW r \in 0..BoardSize, PostEntry(a, w, r)
    PROVE  /\ PostsStand'
           /\ Len(posts') = Len(posts) + 1 /\ Len(posts) \in Nat
           /\ \A i \in Posted : posts'[i] = posts[i] /\ SequenceColumn(i)' = SequenceColumn(i)
           /\ \A b : Ahead(b) <= Ahead(b)' /\ Ahead(b) \in Nat /\ Ahead(b)' \in Nat
           /\ \A b, i : i = Len(posts) + 1 /\ i \in VisibleTo(b)' => Ahead(b) <= SequenceColumn(i)'
<1>. DEFINE n == Len(posts)
            e == [actor |-> a, body |-> w, reply |-> r, actorSequence |-> ActorSequence(a),
                  root |-> IF r = 0 THEN n + 1 ELSE posts[r].root]
<1>1. /\ posts \in Seq(BoardEntries) /\ n \in Nat /\ Posted = 1..n
      /\ scopeKind \in Scopes /\ scopeKind' = scopeKind
      /\ r \in 0..n /\ r \in Nat /\ posts' = Append(posts, e)
  BY DEF BoardInv, PostsStand, PostEntry, Posted, VisibleTo
<1>2. /\ Len(posts') = n + 1 /\ posts'[n + 1] = e
      /\ \A i \in 1..n : posts'[i] = posts[i]
      /\ Posted' = 1..n + 1
  BY <1>1 DEF Posted
<1>. DEFINE Mine(b, k) == {j \in 1..k : posts'[j].actor = b}
<1>. HIDE DEF e
<1>3. \A b : \A k \in 0..n : Mine(b, k) = OwnOf(b, k)
  BY <1>1, <1>2 DEF OwnOf
<1>4. \A b : /\ ActorSequence(b) = Cardinality(OwnOf(b, n)) + 1
              /\ ActorSequence(b)' = Cardinality(Mine(b, n + 1)) + 1
              /\ ActorSequence(b) \in Nat /\ ActorSequence(b)' \in Nat
              /\ Cardinality(OwnOf(b, n)) \in Nat /\ Cardinality(Mine(b, n + 1)) \in Nat
              /\ Cardinality(OwnOf(b, n)) <= Cardinality(Mine(b, n + 1))
  <2>1. TAKE b
  <2>2. OwnOf(b, n) = {i \in Posted : posts[i].actor = b}
        /\ Mine(b, n + 1) = {i \in Posted' : posts'[i].actor = b}
    BY <1>1, <1>2 DEF OwnOf
  <2>3. IsFiniteSet(1..(n + 1)) /\ Mine(b, n + 1) \subseteq 1..(n + 1)
    <3>1. 1 \in Int /\ n + 1 \in Int
      BY <1>1
    <3>. QED
      BY <3>1, FS_Interval
  <2>4. OwnOf(b, n) \subseteq Mine(b, n + 1)
    BY <1>1, <1>2 DEF OwnOf
  <2>. QED
    <3>1. IsFiniteSet(Mine(b, n + 1)) /\ IsFiniteSet(OwnOf(b, n))
          /\ Cardinality(OwnOf(b, n)) <= Cardinality(Mine(b, n + 1))
      BY <2>3, <2>4, FS_Subset
    <3>2. Cardinality(OwnOf(b, n)) \in Nat /\ Cardinality(Mine(b, n + 1)) \in Nat
      BY <3>1, FS_CardinalityType
    <3>3. ActorSequence(b) = Cardinality(OwnOf(b, n)) + 1
      BY <2>2 DEF ActorSequence
    <3>4. ActorSequence(b)' = Cardinality(Mine(b, n + 1)) + 1
      BY <2>2 DEF ActorSequence
    <3>. HIDE DEF Mine
    <3>. QED
      BY <3>1, <3>2, <3>3, <3>4
<1>5. /\ e.actor = a /\ e.reply = r /\ e.actorSequence = Cardinality(OwnOf(a, n)) + 1
      /\ e.root = (IF r = 0 THEN n + 1 ELSE posts[r].root)
  BY <1>4 DEF e
<1>6. e \in BoardEntries
  <2>1. e.root \in Nat
    <3>1. r # 0 => posts[r] \in BoardEntries
      BY <1>1
    <3>. QED
      BY <1>1, <1>5, <3>1 DEF BoardEntries
  <2>2. ActorSequence(a) \in Nat
    BY <1>4
  <2>. QED
    BY <1>1, <1>5, <2>1, <2>2 DEF e, BoardEntries
<1>7. Cardinality(Mine(a, n + 1)) = Cardinality(OwnOf(a, n)) + 1
  <2>1. Mine(a, n + 1) = OwnOf(a, n) \cup {n + 1} /\ n + 1 \notin OwnOf(a, n)
    BY <1>1, <1>2, <1>5 DEF OwnOf
  <2>2. IsFiniteSet(OwnOf(a, n))
    BY <1>1, OwnCounted
  <2>. QED
    BY <2>1, <2>2, FS_AddElement
<1>8. PostsStand'
  <2>1. posts' \in Seq(BoardEntries)
    BY <1>1, <1>6
  <2>2. ASSUME NEW i \in 1..n
        PROVE  /\ posts'[i].actorSequence = Cardinality(Mine(posts'[i].actor, i))
               /\ posts'[i].reply \in 0..(i - 1)
               /\ posts'[i].root = IF posts'[i].reply = 0 THEN i ELSE posts'[posts'[i].reply].root
    <3>1. posts'[i] = posts[i] /\ i \in 0..n
      BY <1>2
    <3>2. /\ posts[i].actorSequence = Cardinality(OwnOf(posts[i].actor, i))
          /\ posts[i].reply \in 0..(i - 1)
          /\ posts[i].root = IF posts[i].reply = 0 THEN i ELSE posts[posts[i].reply].root
      BY <1>1 DEF BoardInv, PostsStand
    <3>3. posts[i].reply # 0 => posts'[posts[i].reply] = posts[posts[i].reply]
      BY <1>1, <1>2, <3>2
    <3>4. Mine(posts[i].actor, i) = OwnOf(posts[i].actor, i)
      BY <1>3, <3>1
    <3>5. Mine(posts'[i].actor, i) = OwnOf(posts[i].actor, i)
      BY <3>1, <3>4
    <3>. HIDE DEF Mine
    <3>. QED
      BY <3>1, <3>2, <3>3, <3>5
  <2>3. /\ posts'[n + 1].actorSequence = Cardinality(Mine(posts'[n + 1].actor, n + 1))
        /\ posts'[n + 1].reply \in 0..n
        /\ posts'[n + 1].root = IF posts'[n + 1].reply = 0 THEN n + 1
                                ELSE posts'[posts'[n + 1].reply].root
    <3>1. posts'[n + 1].actor = a /\ posts'[n + 1].reply = r
          /\ posts'[n + 1].actorSequence = Cardinality(OwnOf(a, n)) + 1
          /\ posts'[n + 1].root = IF r = 0 THEN n + 1 ELSE posts[r].root
      BY <1>2, <1>5
    <3>2. r # 0 => posts'[r] = posts[r]
      BY <1>1, <1>2
    <3>. HIDE DEF Mine
    <3>. QED
      BY <1>1, <1>7, <3>1, <3>2
  <2>4. ASSUME NEW i \in Posted'
        PROVE  /\ posts'[i].actorSequence = Cardinality(Mine(posts'[i].actor, i))
               /\ posts'[i].reply \in 0..(i - 1)
               /\ posts'[i].root = IF posts'[i].reply = 0 THEN i ELSE posts'[posts'[i].reply].root
    <3>1. CASE i \in 1..n
      BY <3>1, <2>2
    <3>2. CASE i = n + 1
      <4>. HIDE DEF Mine
      <4>1. n + 1 - 1 = n
        BY <1>1
      <4>. QED
        BY <3>2, <2>3, <4>1
    <3>3. i \in 1..n \/ i = n + 1
      BY <1>1, <1>2
    <3>. HIDE DEF Mine
    <3>. QED
      BY <3>1, <3>2, <3>3
  <2>. QED
    BY <2>1, <2>4 DEF PostsStand, OwnOf
<1>9. \A i \in 1..n : SequenceColumn(i)' = SequenceColumn(i)
  BY <1>1, <1>2 DEF SequenceColumn
<1>10. \A b : Ahead(b) <= Ahead(b)' /\ Ahead(b) \in Nat /\ Ahead(b)' \in Nat
  <2>1. TAKE b
  <2>2. CASE scopeKind = "actor_private"
    <3>1. Ahead(b) = ActorSequence(b) /\ Ahead(b)' = ActorSequence(b)'
      BY <1>1, <2>2 DEF Ahead
    <3>. HIDE DEF Mine
    <3>. QED
      BY <1>4, <3>1
  <2>3. CASE scopeKind # "actor_private"
    BY <1>1, <1>2, <2>3 DEF Ahead
  <2>. QED
    BY <2>2, <2>3
<1>11. ASSUME NEW b, NEW i, i = n + 1, i \in VisibleTo(b)' PROVE Ahead(b) <= SequenceColumn(i)'
  <2>1. CASE scopeKind = "actor_private"
    <3>1. posts'[i].actor = b
      BY <1>1, <1>11, <2>1 DEF VisibleTo
    <3>2. b = a
      BY <1>2, <1>5, <1>11, <3>1
    <3>3. SequenceColumn(i)' = e.actorSequence /\ Ahead(b) = ActorSequence(a)
      BY <1>1, <1>2, <1>11, <2>1, <3>2 DEF SequenceColumn, Ahead
    <3>. HIDE DEF Mine
    <3>. QED
      BY <1>4, <1>5, <3>3
  <2>2. CASE scopeKind # "actor_private"
    BY <1>1, <1>2, <1>11, <2>2 DEF Ahead, SequenceColumn
  <2>. QED
    BY <2>1, <2>2
<1>. QED
  BY <1>1, <1>2, <1>8, <1>9, <1>10, <1>11

(* A new entry is ahead of every view: what it shows stays what it should. *)
LEMMA PostStep ==
    ASSUME BoardInv, NEW a \in Posters, NEW w \in Words, NEW r \in 0..BoardSize, PostEntry(a, w, r)
    PROVE  BoardInv'
<1>. DEFINE n == Len(posts)
<1>1. /\ view' = view /\ scopeKind' = scopeKind
      /\ n \in Nat /\ Len(posts') = n + 1 /\ Posted = 1..n /\ Posted' = 1..(n + 1)
      /\ \A i \in 1..n : posts'[i] = posts[i] /\ SequenceColumn(i)' = SequenceColumn(i)
      /\ \A b : Ahead(b) <= Ahead(b)' /\ Ahead(b) \in Nat /\ Ahead(b)' \in Nat
      /\ \A b, i : i = n + 1 /\ i \in VisibleTo(b)' => Ahead(b) <= SequenceColumn(i)'
  BY PostedEntry DEF PostEntry, Posted
<1>2. scopeKind \in Scopes
  BY DEF BoardInv, PostEntry
<1>3. PostsStand /\ PostsStand'
  BY PostedEntry DEF BoardInv
<1>4. ASSUME view # NoView
      PROVE  /\ view.after < Ahead(view.reader)' /\ view.of <= n + 1
             /\ view \in Listing
             /\ view.operation = "notifications" => ~view.ended
             /\ view.operation = "thread" =>
                   /\ ~view.ended => view.after = 0
                   /\ view.ended => view.query \in 1..(n + 1)
             /\ ToldInOrder' /\ ToldWhatFits'
  <2>1. /\ view \in Listing /\ view.after < Ahead(view.reader) /\ view.of <= n
        /\ view.after \in Nat /\ view.of \in Nat
        /\ view.operation = "notifications" => ~view.ended
        /\ view.operation = "thread" =>
              /\ ~view.ended => view.after = 0
              /\ view.ended => view.query \in 1..n
        /\ ToldInOrder /\ ToldWhatFits
    BY <1>1, <1>4 DEF BoardInv, ViewStands, Listing
  <2>2. Ahead(view.reader) \in Nat /\ Ahead(view.reader)' \in Nat
    BY <1>1
  <2>3. view.after < Ahead(view.reader)'
    <3>1. Ahead(view.reader) <= Ahead(view.reader)'
      BY <1>1
    <3>. QED
      BY <2>1, <2>2, <3>1
  <2>4. ToldInOrder'
    BY <1>1, <2>1 DEF ToldInOrder
  <2>5. ASSUME NEW i \in 1..n PROVE (Fits(i)' <=> Fits(i)) /\ (Reached(i)' <=> Reached(i))
    BY <1>1, <2>1 DEF Fits, Reached
  <2>6. ASSUME NEW i, i = n + 1
        PROVE  /\ ~(Fits(i)' /\ Reached(i)')
               /\ ~ \E k \in 1..Len(view.told) : view.told[k][1] = i
    <3>1. ~ \E k \in 1..Len(view.told) : view.told[k][1] = i
      BY <1>1, <2>1, <2>6 DEF ToldInOrder
    <3>2. CASE view.ended
      BY <1>1, <2>1, <2>6, <3>1, <3>2 DEF Reached
    <3>3. CASE ~view.ended
      <4>1. SUFFICES ASSUME Fits(i)', Reached(i)' PROVE FALSE
        BY <3>1
      <4>2. i \in VisibleTo(view.reader)'
        BY <1>1, <2>6, <4>1 DEF Fits, VisibleTo
      <4>3. \A b : b = view.reader => b = view'.reader
        BY <1>1
      <4>4. Ahead(view.reader) <= SequenceColumn(i)'
        BY <1>1, <2>6, <4>2
      <4>5. SequenceColumn(i)' <= view.after
        BY <1>1, <3>3, <4>1 DEF Reached
      <4>6. SequenceColumn(i)' \in Nat
        <5>1. i \in 1..(n + 1) /\ i \in Nat
          BY <1>1, <2>6
        <5>2. posts'[i] \in BoardEntries
          BY <1>1, <1>3, <5>1 DEF PostsStand
        <5>. QED
          BY <5>1, <5>2 DEF SequenceColumn, BoardEntries
      <4>. QED
        BY <2>1, <2>2, <4>4, <4>5, <4>6
    <3>. QED
      BY <3>2, <3>3
  <2>7. ToldWhatFits'
    <3>1. \A i \in Posted' : i \in 1..n \/ i = n + 1
      BY <1>1
    <3>2. ASSUME NEW i \in Posted'
          PROVE (\E k \in 1..Len(view.told) : view.told[k][1] = i) <=> Fits(i)' /\ Reached(i)'
      <4>1. CASE i \in 1..n
        BY <1>1, <2>1, <2>5, <4>1 DEF ToldWhatFits
      <4>2. CASE i = n + 1
        BY <2>6, <4>2
      <4>. QED
        BY <3>1, <4>1, <4>2
    <3>. QED
      BY <1>1, <3>2 DEF ToldWhatFits
  <2>. QED
    BY <1>1, <2>1, <2>3, <2>4, <2>7
<1>5. ViewStands'
  BY <1>1, <1>2, <1>4 DEF ViewStands
<1>. QED
  BY <1>1, <1>2, <1>3, <1>5 DEF BoardInv

(* The greatest number of a bounded set.                                   *)
LEMMA MaxIs ==
    ASSUME NEW T, T \subseteq Nat, T # {}, NEW b \in Nat, \A x \in T : x <= b
    PROVE  Max(T) \in T /\ \A x \in T : x <= Max(T)
<1>. DEFINE Above == {c \in Nat : \A x \in T : x <= c}
<1>1. PICK c \in Above : \A d \in Above : c <= d
  <2>1. b \in Above /\ Above \subseteq Nat
    OBVIOUS
  <2>. QED
    BY <2>1, LeastNatural
<1>2. c \in T
  <2>1. SUFFICES ASSUME c \notin T PROVE FALSE
    OBVIOUS
  <2>2. PICK x \in T : TRUE
    OBVIOUS
  <2>3. \A y \in T : y <= c - 1
    BY <1>1, <2>1
  <2>4. c - 1 \in Above
    BY <1>1, <2>2, <2>3
  <2>. QED
    BY <1>1, <2>4
<1>3. \A y \in T : c >= y
  BY <1>1
<1>. QED
  BY <1>2, <1>3 DEF Max

(* The rows of a query: all that lie after the cursor, in order.           *)
LEMMA RowsAre ==
    ASSUME PostsStand, NEW S, S \subseteq Posted, NEW rows \in RowsAfter(S)
    PROVE  /\ Len(rows) \in Nat /\ rows \in Seq(S)
           /\ \A k \in 1..Len(rows) : rows[k] \in S /\ SequenceColumn(rows[k]) > view.after
           /\ \A i \in S : SequenceColumn(i) > view.after => \E k \in 1..Len(rows) : rows[k] = i
           /\ \A k, l \in 1..Len(rows) : k < l => SequenceColumn(rows[k]) < SequenceColumn(rows[l])
<1>. DEFINE later == {i \in S : SequenceColumn(i) > view.after}
            c == Cardinality(later)
<1>1. c \in Nat
  <2>1. Len(posts) \in Nat /\ Posted = 1..Len(posts)
    BY DEF PostsStand, Posted
  <2>2. IsFiniteSet(1..Len(posts))
    BY <2>1, 1 \in Int, Len(posts) \in Int, FS_Interval
  <2>3. later \subseteq 1..Len(posts)
    BY <2>1
  <2>. QED
    BY <2>2, <2>3, FS_Subset, FS_CardinalityType
<1>2. /\ rows \in [1..c -> later]
      /\ \A i \in later : \E k \in DOMAIN rows : rows[k] = i
      /\ \A k, l \in DOMAIN rows : k < l => SequenceColumn(rows[k]) < SequenceColumn(rows[l])
  BY DEF RowsAfter
<1>. HIDE DEF c
<1>3. rows \in Seq(later) /\ Len(rows) = c /\ DOMAIN rows = 1..c
  BY <1>1, <1>2
<1>4. rows \in Seq(S)
  BY <1>3
<1>. QED
  BY <1>1, <1>2, <1>3, <1>4

(* A page holds the first of the rows.                                     *)
LEMMA PageIs ==
    ASSUME NEW S, NEW rows \in Seq(S)
    PROVE  /\ PageOf(rows) \in Seq(S)
           /\ Len(PageOf(rows)) = IF Len(rows) > PageSize THEN PageSize ELSE Len(rows)
           /\ \A k \in 1..Len(PageOf(rows)) : PageOf(rows)[k] = rows[k]
<1>1. PageSize \in Nat \ {0} /\ Len(rows) \in Nat
  BY BoardAssumption
<1>2. CASE Len(rows) > PageSize
  <2>1. \A i \in 1..PageSize : rows[i] \in S
    BY <1>1, <1>2
  <2>2. SubSeq(rows, 1, PageSize) \in Seq(S) /\ Len(SubSeq(rows, 1, PageSize)) = PageSize
        /\ \A k \in 1..PageSize : SubSeq(rows, 1, PageSize)[k] = rows[k]
    BY <1>1, <1>2, <2>1
  <2>. QED
    BY <1>2, <2>2 DEF PageOf
<1>3. CASE ~(Len(rows) > PageSize)
  BY <1>3 DEF PageOf
<1>. QED
  BY <1>2, <1>3

(* A page of the rows of a query over S, and what a reader is told by it.  *)
IsPage(S, rows, page) ==
    /\ S \subseteq VisibleTo(view.reader) /\ rows \in RowsAfter(S)
    /\ page \in Seq(S) /\ Len(page) <= Len(rows)
    /\ \A k \in 1..Len(page) : page[k] = rows[k]
ToldBefore ==
    \A k \in 1..Len(view.told) : view.told[k][1] \in VisibleTo(view.reader)
                                 /\ SequenceColumn(view.told[k][1]) <= view.after
ToldBy(rows, page) ==
    /\ Told(page) \in Seq(Nat \X Nat)
    /\ \A k \in 1..Len(Told(page)) :
          /\ Told(page)[k][1] \in Posted
          /\ Told(page)[k][2] = SequenceColumn(Told(page)[k][1])
    /\ \A k, l \in 1..Len(Told(page)) : k < l => Told(page)[k][1] < Told(page)[l][1]
    /\ \A i : (\E k \in 1..Len(Told(page)) : Told(page)[k][1] = i) <=>
                \/ \E k \in 1..Len(view.told) : view.told[k][1] = i
                \/ \E k \in 1..Len(page) : rows[k] = i

(* What a reader has been told of after a page: what it was told of before *)
(* and the page, each with its number, still in order.                     *)
LEMMA Telling ==
    ASSUME PostsStand, scopeKind \in Scopes, view \in Listing, ToldInOrder, ToldBefore,
           NEW S, NEW rows, NEW page, IsPage(S, rows, page)
    PROVE  ToldBy(rows, page)
<1>. DEFINE n == Len(view.told)
            m == Len(page)
            t == [k \in 1..m |-> <<page[k], SequenceColumn(page[k])>>]
            see == VisibleTo(view.reader)
            col(i) == SequenceColumn(i)
<1>1. /\ n \in Nat /\ m \in Nat /\ view.told \in Seq(Nat \X Nat) /\ view.after \in Nat
      /\ \A k \in 1..n : view.told[k] \in Nat \X Nat
  BY DEF Listing
<1>0. /\ S \subseteq see /\ rows \in RowsAfter(S) /\ page \in Seq(S) /\ m <= Len(rows)
      /\ \A k \in 1..m : page[k] = rows[k]
      /\ \A k \in 1..n : view.told[k][1] \in see /\ col(view.told[k][1]) <= view.after
  BY DEF IsPage, ToldBefore
<1>2. /\ \A i \in see : i \in Posted /\ i \in Nat /\ col(i) \in Nat
      /\ \A i, j \in see : i < j <=> col(i) < col(j)
  <2>1. see \subseteq Posted /\ Posted \subseteq Nat
    BY DEF VisibleTo, Posted
  <2>. QED
    BY <2>1, ColumnOrder
<1>3. S \subseteq Posted
  BY <1>0, <1>2
<1>4. /\ Len(rows) \in Nat
      /\ \A k \in 1..Len(rows) : rows[k] \in S /\ col(rows[k]) > view.after
      /\ \A k, l \in 1..Len(rows) : k < l => col(rows[k]) < col(rows[l])
  BY <1>0, <1>3, RowsAre
<1>5. \A k \in 1..m : k \in 1..Len(rows) /\ page[k] = rows[k] /\ rows[k] \in see
  BY <1>0, <1>1, <1>4
<1>. HIDE DEF see, col
<1>6. t \in Seq(Nat \X Nat) /\ Len(t) = m
  <2>1. \A k \in 1..m : page[k] \in Nat /\ SequenceColumn(page[k]) \in Nat
    BY <1>2, <1>5 DEF col
  <2>. QED
    BY <1>1, <2>1
<1>7. Told(page) = view.told \o t
  BY DEF Told
<1>8. /\ Told(page) \in Seq(Nat \X Nat) /\ Len(Told(page)) = n + m
      /\ \A k \in 1..n : Told(page)[k] = view.told[k]
      /\ \A k \in 1..m : Told(page)[n + k] = <<rows[k], SequenceColumn(rows[k])>>
  BY <1>1, <1>5, <1>6, <1>7
<1>. HIDE DEF t
<1>9. /\ \A k \in 1..n : /\ Told(page)[k][1] = view.told[k][1]
                         /\ Told(page)[k][2] = col(Told(page)[k][1])
                         /\ Told(page)[k][1] \in see
                         /\ col(Told(page)[k][1]) <= view.after
      /\ \A k \in (n + 1)..(n + m) :
                         /\ Told(page)[k][1] = rows[k - n] /\ k - n \in 1..m
                         /\ Told(page)[k][2] = col(Told(page)[k][1])
                         /\ Told(page)[k][1] \in see
                         /\ col(Told(page)[k][1]) > view.after
  <2>1. \A k \in 1..n : /\ Told(page)[k][1] = view.told[k][1]
                         /\ Told(page)[k][2] = col(Told(page)[k][1])
                         /\ Told(page)[k][1] \in see
                         /\ col(Told(page)[k][1]) <= view.after
    BY <1>0, <1>8 DEF ToldInOrder, see, col
  <2>2. ASSUME NEW k \in (n + 1)..(n + m)
        PROVE  /\ Told(page)[k][1] = rows[k - n] /\ k - n \in 1..m
               /\ Told(page)[k][2] = col(Told(page)[k][1])
               /\ Told(page)[k][1] \in see
               /\ col(Told(page)[k][1]) > view.after
    <3>1. k - n \in 1..m /\ n + (k - n) = k
      BY <1>1
    <3>2. Told(page)[k] = <<rows[k - n], SequenceColumn(rows[k - n])>>
      BY <1>8, <3>1
    <3>3. rows[k - n] \in see /\ col(rows[k - n]) > view.after
      BY <1>4, <1>5, <3>1
    <3>. QED
      BY <3>1, <3>2, <3>3 DEF col
  <2>. QED
    BY <2>1, <2>2
<1>10. \A k \in 1..(n + m) : k \in 1..n \/ k \in (n + 1)..(n + m)
  BY <1>1
<1>11. \A k \in 1..Len(Told(page)) : /\ Told(page)[k][1] \in Posted
                                     /\ Told(page)[k][2] = SequenceColumn(Told(page)[k][1])
  BY <1>2, <1>8, <1>9, <1>10 DEF col
<1>12. ASSUME NEW k \in 1..(n + m), NEW l \in 1..(n + m), k < l
       PROVE  Told(page)[k][1] < Told(page)[l][1]
  <2>1. CASE l \in 1..n
    <3>1. k \in 1..n
      BY <1>1, <1>12, <2>1
    <3>. QED
      BY <1>9, <1>12, <2>1, <3>1 DEF ToldInOrder
  <2>2. CASE l \in (n + 1)..(n + m)
    <3>1. col(Told(page)[k][1]) < col(Told(page)[l][1])
      <4>1. CASE k \in 1..n
        <5>1. col(Told(page)[k][1]) \in Nat /\ col(Told(page)[l][1]) \in Nat
          BY <1>2, <1>9, <2>2, <4>1
        <5>2. col(Told(page)[k][1]) <= view.after /\ col(Told(page)[l][1]) > view.after
          BY <1>9, <2>2, <4>1
        <5>. QED
          BY <1>1, <5>1, <5>2
      <4>2. CASE k \in (n + 1)..(n + m)
        <5>1. k - n \in 1..Len(rows) /\ l - n \in 1..Len(rows) /\ k - n < l - n
          <6>1. k - n \in 1..m /\ l - n \in 1..m
            BY <1>9, <2>2, <4>2
          <6>2. k - n < l - n
            BY <1>1, <1>12
          <6>. QED
            BY <1>5, <6>1, <6>2
        <5>. QED
          BY <1>4, <1>9, <2>2, <4>2, <5>1
      <4>. QED
        BY <1>10, <4>1, <4>2
    <3>. QED
      BY <1>2, <1>9, <1>10, <3>1
  <2>. QED
    BY <1>10, <2>1, <2>2
<1>13. ASSUME NEW i
       PROVE  (\E k \in 1..(n + m) : Told(page)[k][1] = i) <=>
                  \/ \E k \in 1..n : view.told[k][1] = i
                  \/ \E k \in 1..m : rows[k] = i
  <2>1. ASSUME NEW k \in 1..m PROVE n + k \in 1..(n + m) /\ Told(page)[n + k][1] = rows[k]
    <3>1. n + k \in 1..(n + m)
      BY <1>1
    <3>2. Told(page)[n + k] = <<rows[k], SequenceColumn(rows[k])>>
      BY <1>8
    <3>. QED
      BY <3>1, <3>2
  <2>2. \A k \in 1..n : k \in 1..(n + m) /\ Told(page)[k][1] = view.told[k][1]
    BY <1>1, <1>9
  <2>3. ASSUME NEW k \in 1..(n + m), Told(page)[k][1] = i
        PROVE  (\E j \in 1..n : view.told[j][1] = i) \/ (\E j \in 1..m : rows[j] = i)
    <3>1. CASE k \in 1..n
      BY <2>2, <2>3, <3>1
    <3>2. CASE k \in (n + 1)..(n + m)
      <4>1. k - n \in 1..m /\ rows[k - n] = i
        BY <1>9, <2>3, <3>2
      <4>. QED
        BY <4>1
    <3>. QED
      BY <1>10, <3>1, <3>2
  <2>. QED
    BY <2>1, <2>2, <2>3
<1>. QED
  BY <1>8, <1>11, <1>12, <1>13 DEF ToldBy

(* Whatever a page makes of the view: if it stands for these rows and has  *)
(* come as far as the page, then it has told of what it should.            *)
LEMMA TellStep ==
    ASSUME PostsStand, scopeKind \in Scopes, view \in Listing, ToldInOrder,
           UNCHANGED <<scopeKind, posts>>,
           NEW S, NEW rows, NEW page, IsPage(S, rows, page),
           view'.told = Told(page),
           \A i \in Posted : Fits(i)' <=> i \in S,
           \A i \in Posted : (\E k \in 1..Len(view.told) : view.told[k][1] = i) <=>
                                 i \in S /\ SequenceColumn(i) <= view.after,
           \A i \in S : Reached(i)' <=> \/ SequenceColumn(i) <= view.after
                                        \/ \E k \in 1..Len(page) : rows[k] = i
    PROVE  ToldInOrder' /\ ToldWhatFits' /\ Told(page) \in Seq(Nat \X Nat)
<1>1. ToldBefore
  BY DEF ToldInOrder, ToldBefore, IsPage
<1>2. S \subseteq Posted
  BY DEF VisibleTo, IsPage
<1>3. ToldBy(rows, page)
  BY <1>1, Telling
<1>4. Posted' = Posted /\ \A i : SequenceColumn(i)' = SequenceColumn(i)
  BY DEF Posted, SequenceColumn
<1>5. ToldInOrder'
  BY <1>3, <1>4 DEF ToldInOrder, ToldBy
<1>6. ASSUME NEW i \in Posted
      PROVE  (\E k \in 1..Len(Told(page)) : Told(page)[k][1] = i) <=> Fits(i)' /\ Reached(i)'
  <2>1. \A k \in 1..Len(page) : rows[k] \in S
    <3>1. Len(rows) \in Nat /\ Len(page) \in Nat /\ \A k \in 1..Len(rows) : rows[k] \in S
      BY <1>2, RowsAre DEF IsPage
    <3>. QED
      BY <3>1 DEF IsPage
  <2>. QED
    BY <1>3, <2>1 DEF ToldBy
<1>7. ToldWhatFits'
  BY <1>4, <1>6 DEF ToldWhatFits
<1>. QED
  BY <1>3, <1>5, <1>7 DEF ToldBy

(* A page of the recent entries or of a search.  A row is left over, and   *)
(* the view has come to the last one shown; or none is, and it has come to *)
(* the end of the board.                                                   *)
LEMMA EntryPageStep == ASSUME BoardInv, EntryPage PROVE BoardInv'
<1>. DEFINE S == {i \in VisibleTo(view.reader) : Matching(i)}
<1>1. PICK rows \in RowsAfter(S) :
         view' = [view EXCEPT !.told = Told(PageOf(rows)), !.of = Len(posts),
             !.ended = Len(rows) <= PageSize,
             !.after = IF Len(rows) > PageSize THEN SequenceColumn(rows[PageSize]) ELSE @]
  BY DEF EntryPage
<1>2. /\ view # NoView /\ view.operation \in {"recent", "search"} /\ ~view.ended
      /\ scopeKind' = scopeKind /\ posts' = posts
      /\ PostsStand /\ scopeKind \in Scopes /\ view \in Listing
      /\ view.after < Ahead(view.reader) /\ ToldInOrder /\ ToldWhatFits
  BY DEF EntryPage, BoardInv, ViewStands
<1>. DEFINE page == PageOf(rows)
            more == Len(rows) > PageSize
            last == rows[PageSize]
<1>3. S \subseteq VisibleTo(view.reader) /\ S \subseteq Posted /\ Posted = 1..Len(posts)
      /\ Len(posts) \in Nat
  BY <1>2 DEF VisibleTo, Posted, PostsStand
<1>4. /\ Len(rows) \in Nat /\ rows \in Seq(S)
      /\ \A k \in 1..Len(rows) : rows[k] \in S /\ SequenceColumn(rows[k]) > view.after
      /\ \A i \in S : SequenceColumn(i) > view.after => \E k \in 1..Len(rows) : rows[k] = i
      /\ \A k, l \in 1..Len(rows) : k < l => SequenceColumn(rows[k]) < SequenceColumn(rows[l])
  BY <1>2, <1>3, RowsAre
<1>5. /\ page \in Seq(S) /\ Len(page) = IF more THEN PageSize ELSE Len(rows)
      /\ \A k \in 1..Len(page) : page[k] = rows[k]
      /\ PageSize \in Nat \ {0}
  BY <1>4, PageIs, BoardAssumption
<1>6. IsPage(S, rows, page)
  BY <1>3, <1>4, <1>5 DEF IsPage
<1>7. /\ view'.told = Told(page) /\ view'.of = Len(posts) /\ view'.ended = ~more
      /\ view'.after = (IF more THEN SequenceColumn(last) ELSE view.after)
      /\ view'.reader = view.reader /\ view'.operation = view.operation
      /\ view'.query = view.query
  BY <1>1, <1>2, <1>4, <1>5 DEF Listing
<1>8. \A i \in VisibleTo(view.reader) : SequenceColumn(i) \in Nat /\ SequenceColumn(i) < Ahead(view.reader)
  BY <1>2, ColumnOrder
<1>9. more => last \in S /\ PageSize \in 1..Len(rows)
  BY <1>4, <1>5
<1>10. \A i \in Posted : Fits(i)' <=> i \in S
  BY <1>2, <1>3, <1>7 DEF Fits, VisibleTo, Matching
<1>11. \A i \in Posted : (\E k \in 1..Len(view.told) : view.told[k][1] = i) <=>
                             i \in S /\ SequenceColumn(i) <= view.after
  <2>1. \A i \in Posted : Fits(i) <=> i \in S
    BY <1>2, <1>3 DEF Fits, VisibleTo, Matching
  <2>. QED
    BY <1>2, <2>1 DEF ToldWhatFits, Reached
<1>12. ASSUME NEW i \in S
       PROVE  Reached(i)' <=> \/ SequenceColumn(i) <= view.after
                              \/ \E k \in 1..Len(page) : rows[k] = i
  <2>1. SequenceColumn(i)' = SequenceColumn(i)
    BY <1>2 DEF SequenceColumn
  <2>2. SequenceColumn(i) \in Nat /\ view.after \in Nat /\ i \in 1..Len(posts)
    BY <1>2, <1>3, <1>8 DEF Listing
  <2>3. CASE ~more
    <3>1. Reached(i)'
      <4>1. view'.ended = TRUE
        BY <1>7, <2>3
      <4>. QED
        BY <1>7, <2>2, <4>1 DEF Reached
    <3>. QED
      BY <1>4, <1>5, <2>2, <2>3, <3>1
  <2>4. CASE more
    <3>1. Reached(i)' <=> SequenceColumn(i) <= SequenceColumn(last)
      BY <1>7, <2>1, <2>4 DEF Reached
    <3>2. /\ SequenceColumn(last) > view.after /\ SequenceColumn(last) \in Nat
          /\ Len(page) = PageSize
      BY <1>3, <1>4, <1>5, <1>8, <1>9, <2>4
    <3>3. ASSUME NEW k \in 1..Len(rows), rows[k] = i
          PROVE  SequenceColumn(i) <= SequenceColumn(last) <=> k \in 1..PageSize
      <4>1. k < PageSize => SequenceColumn(i) < SequenceColumn(last)
        BY <1>4, <1>9, <2>4, <3>3
      <4>2. PageSize < k => SequenceColumn(last) < SequenceColumn(i)
        BY <1>4, <1>9, <2>4, <3>3
      <4>. QED
        BY <1>4, <1>5, <2>2, <3>2, <3>3, <4>1, <4>2
    <3>4. \A k \in 1..PageSize : k \in 1..Len(rows)
      BY <1>4, <1>9, <2>4
    <3>. QED
      BY <1>4, <2>2, <3>1, <3>2, <3>3, <3>4
  <2>. QED
    BY <2>3, <2>4
<1>. HIDE DEF S, page, more, last
<1>13. ToldInOrder' /\ ToldWhatFits' /\ Told(page) \in Seq(Nat \X Nat)
  BY <1>2, <1>6, <1>7, <1>10, <1>11, <1>12, TellStep
<1>14. view' \in Listing /\ view'.after < Ahead(view.reader)
  <2>1. CASE more
    <3>1. SequenceColumn(last) \in Nat /\ SequenceColumn(last) < Ahead(view.reader)
      BY <1>3, <1>8, <1>9, <2>1
    <3>. QED
      BY <1>1, <1>2, <1>3, <1>7, <1>13, <2>1, <3>1 DEF Listing, page, more, last
  <2>2. CASE ~more
    BY <1>1, <1>2, <1>3, <1>7, <1>13, <2>2 DEF Listing, page, more, last
  <2>. QED
    BY <2>1, <2>2
<1>15. Ahead(view.reader)' = Ahead(view.reader) /\ PostsStand'
  BY <1>2, <1>7 DEF Ahead, ActorSequence, Posted, PostsStand, OwnOf
<1>16. ViewStands'
  BY <1>2, <1>3, <1>7, <1>13, <1>14, <1>15 DEF ViewStands, Ahead, ActorSequence, Posted
<1>. QED
  BY <1>2, <1>15, <1>16 DEF BoardInv

(* Notifications: of peers in a shared scope.  A row is left over, or the  *)
(* view has come to the last number the reader can see.                    *)
LEMMA NotificationsStep == ASSUME BoardInv, Notifications PROVE BoardInv'
<1>. DEFINE S == IF scopeKind = "actor_private" THEN {}
                 ELSE {i \in Posted : posts[i].actor # view.reader}
            see == VisibleTo(view.reader)
            far == Max({SequenceColumn(i) : i \in see} \cup {0})
<1>1. PICK rows \in RowsAfter(S) :
         view' = [view EXCEPT !.told = Told(PageOf(rows)),
             !.after = IF Len(rows) > PageSize THEN SequenceColumn(rows[PageSize]) ELSE far]
  BY DEF Notifications
<1>2. /\ view # NoView /\ view.operation = "notifications" /\ ~view.ended
      /\ scopeKind' = scopeKind /\ posts' = posts
      /\ PostsStand /\ scopeKind \in Scopes /\ view \in Listing
      /\ view.after < Ahead(view.reader) /\ ToldInOrder /\ ToldWhatFits
      /\ view.of <= Len(posts)
  BY DEF Notifications, BoardInv, ViewStands
<1>. DEFINE page == PageOf(rows)
            more == Len(rows) > PageSize
            last == rows[PageSize]
<1>3. S \subseteq see /\ S \subseteq Posted /\ Posted = 1..Len(posts) /\ Len(posts) \in Nat
  BY <1>2 DEF VisibleTo, Posted, PostsStand
<1>4. /\ Len(rows) \in Nat /\ rows \in Seq(S)
      /\ \A k \in 1..Len(rows) : rows[k] \in S /\ SequenceColumn(rows[k]) > view.after
      /\ \A i \in S : SequenceColumn(i) > view.after => \E k \in 1..Len(rows) : rows[k] = i
      /\ \A k, l \in 1..Len(rows) : k < l => SequenceColumn(rows[k]) < SequenceColumn(rows[l])
  BY <1>2, <1>3, RowsAre
<1>5. /\ page \in Seq(S) /\ Len(page) = IF more THEN PageSize ELSE Len(rows)
      /\ \A k \in 1..Len(page) : page[k] = rows[k]
      /\ PageSize \in Nat \ {0}
  BY <1>4, PageIs, BoardAssumption
<1>6. IsPage(S, rows, page)
  BY <1>3, <1>4, <1>5 DEF IsPage
<1>7. /\ view'.told = Told(page) /\ view'.of = view.of /\ view'.ended = view.ended
      /\ view'.after = (IF more THEN SequenceColumn(last) ELSE far)
      /\ view'.reader = view.reader /\ view'.operation = view.operation
      /\ view'.query = view.query
  BY <1>1, <1>2, <1>4, <1>5 DEF Listing
<1>8. /\ \A i \in see : SequenceColumn(i) \in Nat /\ SequenceColumn(i) < Ahead(view.reader)
      /\ Ahead(view.reader) \in Nat \ {0}
  BY <1>2, ColumnOrder
<1>9. more => last \in S /\ PageSize \in 1..Len(rows)
  BY <1>4, <1>5
<1>10. far \in Nat /\ far < Ahead(view.reader) /\ \A i \in see : SequenceColumn(i) <= far
  <2>. DEFINE T == {SequenceColumn(i) : i \in see} \cup {0}
              b == Ahead(view.reader) - 1
  <2>1. T \subseteq Nat /\ T # {} /\ b \in Nat /\ \A x \in T : x <= b
    BY <1>8
  <2>2. Max(T) \in T /\ \A x \in T : x <= Max(T)
    <3>. HIDE DEF T, b
    <3>. QED
      BY <2>1, MaxIs
  <2>. QED
    BY <1>8, <2>1, <2>2
<1>. HIDE DEF far
<1>11. \A i \in Posted : (Fits(i)' <=> i \in S) /\ (Fits(i) <=> i \in S)
  BY <1>2, <1>3, <1>7 DEF Fits, VisibleTo
<1>12. \A i \in Posted : (\E k \in 1..Len(view.told) : view.told[k][1] = i) <=>
                             i \in S /\ SequenceColumn(i) <= view.after
  BY <1>2, <1>11 DEF ToldWhatFits, Reached
<1>13. ASSUME NEW i \in S
       PROVE  Reached(i)' <=> \/ SequenceColumn(i) <= view.after
                              \/ \E k \in 1..Len(page) : rows[k] = i
  <2>1. SequenceColumn(i)' = SequenceColumn(i)
    BY <1>2 DEF SequenceColumn
  <2>2. SequenceColumn(i) \in Nat /\ view.after \in Nat /\ i \in see
    BY <1>2, <1>3, <1>8 DEF Listing
  <2>3. CASE ~more
    <3>1. Reached(i)'
      BY <1>2, <1>7, <1>10, <2>1, <2>2, <2>3 DEF Reached
    <3>. QED
      BY <1>4, <1>5, <2>2, <2>3, <3>1
  <2>4. CASE more
    <3>1. Reached(i)' <=> SequenceColumn(i) <= SequenceColumn(last)
      BY <1>2, <1>7, <2>1, <2>4 DEF Reached
    <3>2. /\ SequenceColumn(last) > view.after /\ SequenceColumn(last) \in Nat
          /\ Len(page) = PageSize
      BY <1>3, <1>4, <1>5, <1>8, <1>9, <2>4
    <3>3. ASSUME NEW k \in 1..Len(rows), rows[k] = i
          PROVE  SequenceColumn(i) <= SequenceColumn(last) <=> k \in 1..PageSize
      <4>1. k < PageSize => SequenceColumn(i) < SequenceColumn(last)
        BY <1>4, <1>9, <2>4, <3>3
      <4>2. PageSize < k => SequenceColumn(last) < SequenceColumn(i)
        BY <1>4, <1>9, <2>4, <3>3
      <4>. QED
        BY <1>4, <1>5, <2>2, <3>2, <3>3, <4>1, <4>2
    <3>4. \A k \in 1..PageSize : k \in 1..Len(rows)
      BY <1>4, <1>9, <2>4
    <3>. QED
      BY <1>4, <2>2, <3>1, <3>2, <3>3, <3>4
  <2>. QED
    BY <2>3, <2>4
<1>14. ToldInOrder' /\ ToldWhatFits' /\ Told(page) \in Seq(Nat \X Nat)
  <2>1. \A i \in Posted : Fits(i)' <=> i \in S
    BY <1>11
  <2>. HIDE DEF S, page, more, last, see
  <2>. QED
    BY <1>2, <1>6, <1>7, <1>12, <1>13, <2>1, TellStep
<1>15. view' \in Listing /\ view'.after < Ahead(view.reader)
  <2>1. CASE more
    <3>1. SequenceColumn(last) \in Nat /\ SequenceColumn(last) < Ahead(view.reader)
      BY <1>3, <1>8, <1>9, <2>1
    <3>. HIDE DEF S, see
    <3>. QED
      BY <1>1, <1>2, <1>3, <1>7, <1>14, <2>1, <3>1 DEF Listing, page, more, last
  <2>2. CASE ~more
    <3>. HIDE DEF S, see
    <3>. QED
      BY <1>1, <1>2, <1>3, <1>7, <1>10, <1>14, <2>2 DEF Listing, page, more, last
  <2>. QED
    BY <2>1, <2>2
<1>16. Ahead(view.reader)' = Ahead(view.reader) /\ PostsStand'
  BY <1>2, <1>7 DEF Ahead, ActorSequence, Posted, PostsStand, OwnOf
<1>. HIDE DEF S, see, page, more, last
<1>17. ViewStands'
  BY <1>2, <1>3, <1>7, <1>14, <1>15, <1>16 DEF ViewStands, Ahead, ActorSequence, Posted
<1>. QED
  BY <1>2, <1>16, <1>17 DEF BoardInv

(* A thread is told of at once and as a whole.                             *)
LEMMA GetThreadStep == ASSUME BoardInv, NEW c \in Posted, GetThread(c) PROVE BoardInv'
<1>. DEFINE S == {i \in VisibleTo(view.reader) : posts[i].root = posts[c].root}
<1>1. PICK rows \in RowsAfter(S) :
         view' = [view EXCEPT !.ended = TRUE, !.of = Len(posts), !.query = c, !.told = Told(rows)]
  BY DEF GetThread
<1>2. /\ view # NoView /\ view.operation = "thread" /\ ~view.ended /\ view.after = 0
      /\ scopeKind' = scopeKind /\ posts' = posts
      /\ PostsStand /\ scopeKind \in Scopes /\ view \in Listing
      /\ view.after < Ahead(view.reader) /\ ToldInOrder /\ ToldWhatFits
  BY DEF GetThread, BoardInv, ViewStands
<1>3. S \subseteq VisibleTo(view.reader) /\ S \subseteq Posted /\ Posted = 1..Len(posts)
      /\ Len(posts) \in Nat
  BY <1>2 DEF VisibleTo, Posted, PostsStand
<1>4. /\ Len(rows) \in Nat /\ rows \in Seq(S)
      /\ \A i \in S : SequenceColumn(i) > view.after => \E k \in 1..Len(rows) : rows[k] = i
  BY <1>2, <1>3, RowsAre
<1>5. IsPage(S, rows, rows)
  BY <1>3, <1>4 DEF IsPage
<1>6. /\ view'.told = Told(rows) /\ view'.of = Len(posts) /\ view'.ended = TRUE
      /\ view'.after = view.after
      /\ view'.reader = view.reader /\ view'.operation = view.operation
      /\ view'.query = c
  BY <1>1, <1>2 DEF Listing
<1>7. \A i \in Posted : Fits(i)' <=> i \in S
  BY <1>2, <1>3, <1>6 DEF Fits, VisibleTo
<1>8. \A i \in VisibleTo(view.reader) : SequenceColumn(i) \in Nat \ {0}
  BY <1>2, ColumnOrder
<1>9. \A i \in Posted : (\E k \in 1..Len(view.told) : view.told[k][1] = i) <=>
                            i \in S /\ SequenceColumn(i) <= view.after
  <2>1. \A i \in Posted : ~Fits(i)
    BY <1>2 DEF Fits
  <2>2. \A i \in S : ~(SequenceColumn(i) <= view.after)
    BY <1>2, <1>3, <1>8
  <2>. QED
    BY <1>2, <2>1, <2>2 DEF ToldWhatFits
<1>10. \A i \in S : Reached(i)' <=> \/ SequenceColumn(i) <= view.after
                                    \/ \E k \in 1..Len(rows) : rows[k] = i
  <2>1. TAKE i \in S
  <2>2. Reached(i)'
    BY <1>3, <1>6 DEF Reached
  <2>3. SequenceColumn(i) > view.after
    BY <1>2, <1>3, <1>8
  <2>. QED
    BY <1>4, <2>2, <2>3
<1>. HIDE DEF S
<1>11. ToldInOrder' /\ ToldWhatFits' /\ Told(rows) \in Seq(Nat \X Nat)
  BY <1>2, <1>5, <1>6, <1>7, <1>9, <1>10, TellStep
<1>12. view' \in Listing
  <2>1. c \in Words \cup Nat /\ Len(posts) \in Nat /\ TRUE \in BOOLEAN
    BY <1>3
  <2>. QED
    BY <1>1, <1>2, <1>11, <2>1 DEF Listing
<1>13. Ahead(view.reader)' = Ahead(view.reader) /\ PostsStand' /\ Posted' = Posted
  BY <1>2, <1>6 DEF Ahead, ActorSequence, Posted, PostsStand, OwnOf
<1>14. ViewStands'
  BY <1>2, <1>3, <1>6, <1>11, <1>12, <1>13 DEF ViewStands
<1>. QED
  BY <1>2, <1>13, <1>14 DEF BoardInv

(* A view that is opened has told of nothing, and no number is below one.  *)
LEMMA OpenViewStep ==
    ASSUME BoardInv, NEW a \in Posters, NEW o \in Views, NEW q \in Words \cup {0}, OpenView(a, o, q)
    PROVE  BoardInv'
<1>1. /\ scopeKind' = scopeKind /\ posts' = posts /\ PostsStand /\ scopeKind \in Scopes
      /\ view' = [reader |-> a, operation |-> o, query |-> q,
                  after |-> 0, told |-> <<>>, ended |-> FALSE, of |-> 0]
  BY DEF OpenView, BoardInv
<1>2. /\ view'.reader = a /\ view'.operation = o /\ view'.after = 0 /\ view'.told = <<>>
      /\ view'.ended = FALSE /\ view'.of = 0 /\ view' \in Listing
  BY <1>1 DEF Listing
<1>3. PostsStand' /\ Posted' = Posted /\ Len(posts) \in Nat /\ Ahead(a)' = Ahead(a)
      /\ \A i : SequenceColumn(i)' = SequenceColumn(i)
  BY <1>1 DEF PostsStand, Posted, OwnOf, Ahead, ActorSequence, SequenceColumn
<1>4. Ahead(a) \in Nat \ {0} /\ \A i \in VisibleTo(a) : SequenceColumn(i) \in Nat \ {0}
  BY <1>1, ColumnOrder
<1>5. ToldInOrder'
  BY <1>2 DEF ToldInOrder
<1>6. \A i \in Posted : ~(Fits(i)' /\ Reached(i)')
  <2>1. TAKE i \in Posted
  <2>2. Fits(i)' => i \in VisibleTo(a)
    BY <1>1, <1>2 DEF Fits, VisibleTo
  <2>3. Reached(i)' => SequenceColumn(i) <= 0
    BY <1>2, <1>3 DEF Reached
  <2>. QED
    BY <1>4, <2>2, <2>3
<1>7. ToldWhatFits'
  BY <1>2, <1>3, <1>6 DEF ToldWhatFits
<1>8. ViewStands'
  <2>1. view'.after < Ahead(view.reader)'
    BY <1>2, <1>3, <1>4
  <2>. QED
    BY <1>1, <1>2, <1>3, <1>5, <1>7, <2>1 DEF ViewStands
<1>. QED
  BY <1>1, <1>3, <1>8 DEF BoardInv

LEMMA BoardBegins == BoardInit => BoardInv
<1>1. SUFFICES ASSUME BoardInit PROVE BoardInv
  OBVIOUS
<1>2. scopeKind = "none" /\ posts = <<>> /\ view = NoView
  BY <1>1 DEF BoardInit
<1>3. PostsStand
  BY <1>2 DEF PostsStand, Posted
<1>. QED
  BY <1>2, <1>3 DEF BoardInv, ViewStands

(* Before provision() there is no view; a step that changes nothing here   *)
(* keeps everything.                                                       *)
LEMMA BoardStays ==
    ASSUME BoardInv, UNCHANGED <<posts, view>>, scopeKind' \in Scopes \cup {"none"},
           scopeKind' = scopeKind \/ scopeKind = "none"
    PROVE  BoardInv'
<1>1. PostsStand'
  BY DEF BoardInv, PostsStand, Posted, OwnOf
<1>2. CASE scopeKind' = scopeKind
  BY <1>1, <1>2 DEF BoardInv, ViewStands, ToldInOrder, ToldWhatFits, Fits, Reached, Ahead,
                    ActorSequence, SequenceColumn, Posted
<1>3. CASE scopeKind = "none"
  <2>1. view = NoView
    BY <1>3 DEF BoardInv, ViewStands, Scopes
  <2>. QED
    BY <1>1, <2>1 DEF BoardInv, ViewStands
<1>. QED
  BY <1>2, <1>3

LEMMA BoardStep == BoardInv /\ [BoardNext]_boardVars => BoardInv'
<1>1. SUFFICES ASSUME BoardInv, [BoardNext]_boardVars PROVE BoardInv'
  OBVIOUS
<1>2. ASSUME NEW s \in Scopes, Provision(s) PROVE BoardInv'
  BY <1>1, <1>2, BoardStays DEF Provision
<1>3. ASSUME NEW a \in Posters, NEW w \in Words, NEW r \in 0..BoardSize, PostEntry(a, w, r)
      PROVE  BoardInv'
  BY <1>1, <1>3, PostStep
<1>4. ASSUME NEW a \in Posters, NEW o \in Views,
             NEW q \in IF o = "search" THEN Words ELSE {0}, OpenView(a, o, q)
      PROVE  BoardInv'
  BY <1>1, <1>4, OpenViewStep
<1>5. CASE EntryPage
  BY <1>1, <1>5, EntryPageStep
<1>6. CASE Notifications
  BY <1>1, <1>6, NotificationsStep
<1>7. ASSUME NEW c \in Posted, GetThread(c) PROVE BoardInv'
  BY <1>1, <1>7, GetThreadStep
<1>8. CASE UNCHANGED boardVars
  <2>1. UNCHANGED <<posts, view>> /\ scopeKind' = scopeKind
    BY <1>8 DEF boardVars
  <2>2. scopeKind' \in Scopes \cup {"none"}
    BY <1>1, <2>1 DEF BoardInv
  <2>. QED
    BY <1>1, <2>1, <2>2, BoardStays
<1>. QED
  BY <1>1, <1>2, <1>3, <1>4, <1>5, <1>6, <1>7, <1>8 DEF BoardNext

(* The store and every view of it, whatever is published between the pages *)
(* and whoever reads: entries are numbered and rooted in publish() as they *)
(* should be, and a view has told, in order and with their numbers, of the *)
(* entries that fit it as far as its cursor has come.                      *)
THEOREM BoardInvariant == BoardSpec => []BoardInv
<1>. QED
  BY BoardBegins, BoardStep, PTL DEF BoardSpec

(* The entries that answer one another are those of one root: get_thread() *)
(* may select by the root publish() stored.                                *)
LEMMA ThreadIsConnected ==
    ASSUME PostsStand, NEW c \in Posted
    PROVE  Connected(c) = {j \in Posted : posts[j].root = posts[c].root}
<1>. DEFINE Closed(C) == \A k, l \in Posted : posts[k].reply = l => (k \in C <=> l \in C)
            One == {j \in Posted : posts[j].root = posts[c].root}
<1>1. Posted = 1..Len(posts) /\ Len(posts) \in Nat
  BY DEF Posted, PostsStand
<1>2. \A i \in Posted : /\ posts[i].reply \in 0..(i - 1)
                        /\ posts[i].root = IF posts[i].reply = 0 THEN i ELSE posts[posts[i].reply].root
  BY DEF PostsStand
<1>3. Closed(One)
  BY <1>1, <1>2
<1>4. ASSUME NEW C \in SUBSET Posted, Closed(C)
      PROVE  \A i \in Posted : i \in C <=> posts[i].root \in C
  <2>. DEFINE Wrong == {i \in Posted : ~(i \in C <=> posts[i].root \in C)}
  <2>1. SUFFICES ASSUME Wrong # {} PROVE FALSE
    OBVIOUS
  <2>2. Wrong \subseteq Nat
    BY <1>1
  <2>3. PICK i \in Wrong : \A j \in Wrong : i <= j
    BY <2>1, <2>2, LeastNatural
  <2>4. posts[i].reply # 0
    BY <1>2, <2>3
  <2>. DEFINE l == posts[i].reply
  <2>5. l \in Posted /\ l < i /\ i \in Posted
    BY <1>1, <1>2, <2>3, <2>4
  <2>6. l \notin Wrong
    BY <1>1, <2>3, <2>5
  <2>7. (i \in C <=> l \in C) /\ posts[i].root = posts[l].root
    BY <1>2, <1>4, <2>4, <2>5
  <2>. QED
    BY <2>3, <2>5, <2>6, <2>7
<1>5. \A j \in Posted : j \in Connected(c) <=>
          \A C \in SUBSET Posted : c \in C /\ Closed(C) => j \in C
  BY DEF Connected
<1>6. ASSUME NEW j \in Connected(c) PROVE j \in One
  <2>1. j \in Posted
    BY DEF Connected
  <2>. HIDE DEF Closed
  <2>2. One \in SUBSET Posted /\ c \in One
    OBVIOUS
  <2>. HIDE DEF One
  <2>. QED
    BY <1>3, <1>5, <2>1, <2>2
<1>7. ASSUME NEW j \in One PROVE j \in Connected(c)
  <2>1. ASSUME NEW C \in SUBSET Posted, c \in C, Closed(C) PROVE j \in C
    <3>1. (j \in C <=> posts[j].root \in C) /\ (c \in C <=> posts[c].root \in C)
      BY <1>4, <2>1
    <3>. QED
      BY <2>1, <3>1
  <2>. HIDE DEF Closed
  <2>. QED
    BY <1>5, <2>1
<1>. QED
  BY <1>6, <1>7

(* What a view stands for is what fits it.                                 *)
LEMMA WantedFits ==
    ASSUME BoardInv, view # NoView, NEW n \in 0..Len(posts)
    PROVE  Wanted(n) = {i \in 1..n : Fits(i)}
<1>1. /\ PostsStand /\ view \in Listing /\ Len(posts) \in Nat /\ Posted = 1..Len(posts)
      /\ view.operation = "thread" /\ view.ended => view.query \in Posted
  BY DEF BoardInv, ViewStands, PostsStand, Posted
<1>2. view.operation \in Views /\ view.ended \in BOOLEAN
  BY <1>1 DEF Listing
<1>. DEFINE seen == {i \in 1..n : scopeKind = "actor_private" => posts[i].actor = view.reader}
<1>3. CASE view.operation = "recent"
  BY <1>3 DEF Wanted, Fits
<1>4. CASE view.operation = "search"
  BY <1>4 DEF Wanted, Fits
<1>5. CASE view.operation = "notifications"
  BY <1>5 DEF Wanted, Fits
<1>6. CASE view.operation = "thread" /\ view.ended
  <2>1. Wanted(n) = seen \cap Connected(view.query)
    BY <1>6 DEF Wanted
  <2>2. Connected(view.query) = {j \in Posted : posts[j].root = posts[view.query].root}
    BY <1>1, <1>6, ThreadIsConnected
  <2>3. 1..n \subseteq Posted
    BY <1>1
  <2>. QED
    BY <1>6, <2>1, <2>2, <2>3 DEF Fits
<1>7. CASE view.operation = "thread" /\ ~view.ended
  BY <1>7 DEF Wanted, Fits
<1>. QED
  BY <1>2, <1>3, <1>4, <1>5, <1>6, <1>7 DEF Views

LEMMA BoardInvExact == BoardInv => PagesAreExact
<1>1. SUFFICES ASSUME BoardInv, view # NoView PROVE PagesAreExact
  BY DEF PagesAreExact
<1>. DEFINE n == Len(view.told)
            told == [k \in 1..n |-> view.told[k][1]]
            shown == {told[k] : k \in 1..n}
<1>2. /\ PostsStand /\ scopeKind \in Scopes /\ view \in Listing
      /\ view.after < Ahead(view.reader) /\ view.of <= Len(posts)
      /\ view.operation = "notifications" => ~view.ended
      /\ ToldInOrder /\ ToldWhatFits
  BY <1>1 DEF BoardInv, ViewStands
<1>3. /\ Len(posts) \in Nat /\ Posted = 1..Len(posts) /\ Len(posts) \in 0..Len(posts)
      /\ view.after \in Nat /\ view.of \in Nat /\ view.ended \in BOOLEAN
  BY <1>2 DEF PostsStand, Posted, Listing
<1>4. /\ \A i \in VisibleTo(view.reader) : SequenceColumn(i) \in Nat
      /\ \A i, j \in VisibleTo(view.reader) : i < j <=> SequenceColumn(i) < SequenceColumn(j)
  BY <1>2, ColumnOrder
<1>5. \A i \in Posted : Fits(i) => i \in VisibleTo(view.reader)
  BY DEF Fits, VisibleTo
<1>6. \A i \in Posted : i \in shown <=> Fits(i) /\ Reached(i)
  BY <1>2 DEF ToldWhatFits
<1>7. shown \subseteq Posted
  BY <1>2 DEF ToldInOrder
<1>8. \A k \in 1..n : told[k] \in shown /\ view.told[k][1] = told[k]
                      /\ view.told[k][2] = SequenceColumn(told[k])
  BY <1>2 DEF ToldInOrder
<1>9. \A k, l \in 1..n : k < l => told[k] < told[l]
  BY <1>2 DEF ToldInOrder
<1>10. Wanted(Len(posts)) = {i \in Posted : Fits(i)}
  BY <1>1, <1>3, WantedFits
<1>. HIDE DEF told, shown
<1>11. \A i \in Wanted(Len(posts)), k \in 1..n : i <= told[k] => i \in shown
  <2>1. SUFFICES ASSUME NEW i \in Posted, Fits(i), NEW j \in shown, i <= j PROVE i \in shown
    BY <1>8, <1>10
  <2>2. j \in Posted /\ Fits(j) /\ Reached(j) /\ i \in Nat /\ j \in Nat
    BY <1>3, <1>6, <1>7
  <2>3. /\ i \in VisibleTo(view.reader) /\ j \in VisibleTo(view.reader)
        /\ SequenceColumn(i) \in Nat /\ SequenceColumn(j) \in Nat
    BY <1>4, <1>5, <2>1, <2>2
  <2>4. SequenceColumn(i) <= SequenceColumn(j)
    BY <1>4, <2>1, <2>2, <2>3
  <2>5. Reached(i)
    BY <1>3, <2>1, <2>2, <2>3, <2>4 DEF Reached
  <2>. QED
    BY <1>6, <2>1, <2>5
<1>12. view.ended => shown = Wanted(view.of)
  <2>1. SUFFICES ASSUME view.ended PROVE shown = Wanted(view.of)
    OBVIOUS
  <2>2. Wanted(view.of) = {i \in 1..view.of : Fits(i)} /\ 1..view.of \subseteq Posted
    BY <1>1, <1>2, <1>3, WantedFits
  <2>3. \A i \in Posted : Reached(i) <=> i \in 1..view.of
    BY <1>3, <2>1 DEF Reached
  <2>. QED
    BY <1>6, <1>7, <2>2, <2>3
<1>13. ASSUME view.operation = "notifications", scopeKind = "organisation_shared"
       PROVE  shown = Wanted(view.after)
  <2>1. view.after <= Len(posts)
    BY <1>2, <1>3, <1>13 DEF Ahead
  <2>2. Wanted(view.after) = {i \in 1..view.after : Fits(i)} /\ 1..view.after \subseteq Posted
    BY <1>1, <1>3, <2>1, WantedFits
  <2>3. \A i \in Posted : Reached(i) <=> i \in 1..view.after
    BY <1>2, <1>3, <1>13 DEF Reached, SequenceColumn
  <2>. QED
    BY <1>6, <1>7, <2>2, <2>3
<1>14. ASSUME scopeKind = "actor_private"
       PROVE  /\ \A k \in 1..n : view.told[k][2] =
                     Cardinality({i \in 1..told[k] : posts[i].actor = view.reader})
              /\ view.after < ActorSequence(view.reader)
  <2>1. view.after < ActorSequence(view.reader)
    BY <1>2, <1>14 DEF Ahead
  <2>2. ASSUME NEW i \in shown
        PROVE  SequenceColumn(i) = Cardinality({j \in 1..i : posts[j].actor = view.reader})
    <3>1. i \in Posted /\ posts[i].actor = view.reader
      BY <1>6, <1>7, <1>14 DEF Fits
    <3>2. SequenceColumn(i) = Cardinality(OwnOf(view.reader, i))
      BY <1>2, <1>14, <3>1 DEF PostsStand, SequenceColumn
    <3>. QED
      BY <3>2 DEF OwnOf
  <2>. QED
    BY <1>8, <2>1, <2>2
<1>15. shown \subseteq Wanted(Len(posts))
  BY <1>6, <1>7, <1>10
<1>. QED
  BY <1>9, <1>11, <1>12, <1>13, <1>14, <1>15 DEF PagesAreExact, told, shown

(* SqliteCollaborationBackend's cursors: whatever is published between two *)
(* pages, a reader is told of the entries its view stands for, in order,   *)
(* once each and with none skipped, and the numbers and the cursor of an   *)
(* actor-private scope count the reader's own entries only.                *)
THEOREM PagesStayExact == BoardSpec => []PagesAreExact
<1>. QED
  BY BoardInvariant, BoardInvExact, PTL
=============================================================================
