------------------------ MODULE ArtifactPublication ------------------------
(***************************************************************************)
(* ArtifactService over the publication registry, the collaboration board  *)
(* and the artifact store, three databases without a common transaction:   *)
(* prepare every publication, append the entry, bind every publication.    *)
(* Calls of an actor may overlap, fail or die between any two steps, and   *)
(* are retried under the same idempotency key.                             *)
(*                                                                         *)
(* A publication is identified by its key and index: the registry draws    *)
(* its identifier once per publication key and deletes no row.             *)
(* Left out: bodies (the request tells them apart), audit tables, and how  *)
(* entries are listed (module CollaborationBoard).                         *)
(***************************************************************************)
EXTENDS ArtifactStore, Sequences, SequencesExt

CONSTANTS ToolCalls,      \* concurrent publish() calls
          Requests,       \* [key, actor, body, arts, audience, reply]
          NoRequest,
          Visibility,     \* of the scope: "shared" or "private"
          Readers         \* actors that read publications

ASSUME PublicationAssumption ==
    /\ Visibility \in {"shared", "private"}
    /\ \A q, r \in Requests : q.key = r.key => q.actor = r.actor
    /\ \A r \in Requests : r.arts \in Seq(Writes) /\ r.key # NoKey
    /\ NoRequest \notin Requests

VARIABLES pubs,      \* the rows of table publications
          board,     \* the entries of the scope, in sequence order
          call,      \* the request of each call, NoRequest when idle
          cplace,    \* where each call is
          index,     \* how many publications its loop has passed
          granted,   \* the outstanding read authorizations
          copies     \* what the readers have materialized

pubVars  == <<pubs, board, call, cplace, index, granted, copies>>
publicationVars == <<storeVars, pubVars>>

Width(r)   == Len(r.arts)
PidsOf(r)  == {<<r.key, i>> : i \in 1..Width(r)}
Pids       == UNION {PidsOf(r) : r \in Requests}
Entries    == {board[i] : i \in 1..Len(board)}
Absent     == [status |-> "absent"]

PublicationRow(status, r, i) == [status |-> status, art |-> r.arts[i], audience |-> r.audience]

PublicationInit ==
    /\ StoreInit
    /\ pubs = [p \in Pids |-> Absent]
    /\ board = <<>>
    /\ call = [c \in ToolCalls |-> NoRequest]
    /\ cplace = [c \in ToolCalls |-> "idle"]
    /\ index = [c \in ToolCalls |-> 0]
    /\ granted = [a \in Readers |-> {}]
    /\ copies = {}

PublishMoves(c, place, n) ==
    /\ cplace' = [cplace EXCEPT ![c] = place]
    /\ index' = [index EXCEPT ![c] = n]

Return(c) ==
    /\ PublishMoves(c, "idle", 0)
    /\ call' = [call EXCEPT ![c] = NoRequest]

(* The loop over the publications of request r goes on at index i; after    *)
(* the last one prepare leads to the entry, and abort and bind to the end.  *)
Loop(c, r, place, i) ==
    IF i = Width(r) /\ place # "prepare" THEN Return(c)
    ELSE /\ IF i = Width(r) THEN PublishMoves(c, "append", 0) ELSE PublishMoves(c, place, i)
         /\ call' = [call EXCEPT ![c] = r]

readVars == <<granted, copies>>

(* publish(): a shared audience needs a shared scope.                       *)
BeginPublish(c, r) ==
    /\ cplace[c] = "idle"
    /\ r.audience = "shared" => Visibility = "shared"
    /\ Loop(c, r, "prepare", 0)
    /\ UNCHANGED <<storeVars, pubs, board, readVars>>

CurrentPublication(c) == <<call[c].key, index[c] + 1>>

(* Mutant: a row under the publication key is returned whatever it is for.  *)
PrepareUnderKey(c) ==
    LET r == call[c]
        i == index[c] + 1
        p == CurrentPublication(c)
    IN  /\ cplace[c] = "prepare"
        /\ r.arts[i] \in RowsOfOwner(r.actor)
        /\ pubs' = IF pubs[p] = Absent
                   THEN [pubs EXCEPT ![p] = PublicationRow("prepared", r, i)] ELSE pubs
        /\ Loop(c, r, "prepare", i)
        /\ UNCHANGED <<storeVars, board, readVars>>

(* describe_owned() and prepare() for the next artifact of the request.     *)
Prepare(c) ==
    LET r == call[c]
        i == index[c] + 1
        p == CurrentPublication(c)
    IN  /\ cplace[c] = "prepare"
        /\ r.arts[i] \in RowsOfOwner(r.actor)
        /\ \/ /\ pubs[p] = Absent
              /\ pubs' = [pubs EXCEPT ![p] = PublicationRow("prepared", r, i)]
           \/ /\ pubs[p] \in {PublicationRow("prepared", r, i), PublicationRow("bound", r, i)}
              /\ UNCHANGED pubs
        /\ Loop(c, r, "prepare", i)
        /\ UNCHANGED <<storeVars, board, readVars>>

(* An artifact that is not the actor's, a key used for another request, or  *)
(* an aborted preparation: the call raises outside its try block and leaves *)
(* what it has prepared.                                                    *)
PrepareRefused(c) ==
    LET r == call[c]
        i == index[c] + 1
        p == CurrentPublication(c)
    IN  /\ cplace[c] = "prepare"
        /\ \/ r.arts[i] \notin RowsOfOwner(r.actor)
           \/ pubs[p] \notin {Absent, PublicationRow("prepared", r, i), PublicationRow("bound", r, i)}
        /\ Return(c)
        /\ UNCHANGED <<storeVars, pubs, board, readVars>>

Visible(a, e) == Visibility = "shared" \/ e.actor = a

(* The reply_to of the request names a visible entry.                       *)
ReplyHolds(r) ==
    r.reply # NoKey => \E e \in Entries : e.key = r.reply /\ Visible(r.actor, e)

UnderKey(r) == {e \in Entries : e.key = r.key}

(* The digest of a request: its body, reply and publication identifiers.    *)
Digest(r) == <<r.body, r.reply, PidsOf(r)>>

(* SqliteCollaborationBackend.publish(): the same request under the same    *)
(* key returns the entry it has, another one is refused.                    *)
AppendEntry(c) ==
    LET r == call[c]
    IN  /\ cplace[c] = "append"
        /\ \/ /\ \E e \in UnderKey(r) : Digest(e) = Digest(r)
              /\ UNCHANGED board
           \/ /\ UnderKey(r) = {}
              /\ ReplyHolds(r)
              /\ board' = board \o <<r>>
        /\ Loop(c, r, "bind", 0)
        /\ UNCHANGED <<storeVars, pubs, readVars>>

AppendRefused(c) ==
    LET r == call[c]
    IN  /\ cplace[c] = "append"
        /\ IF UnderKey(r) = {} THEN ~ReplyHolds(r)
           ELSE \A e \in UnderKey(r) : Digest(e) # Digest(r)
        /\ Loop(c, r, "abort", 0)
        /\ UNCHANGED <<storeVars, pubs, board, readVars>>

(* The transaction fails: nothing of it is stored.                          *)
AppendFails(c) ==
    /\ cplace[c] = "append"
    /\ storeFaults < MaxStoreFaults
    /\ storeFaults' = storeFaults + 1
    /\ Loop(c, call[c], "abort", 0)
    /\ UNCHANGED <<filesVars, pubs, board, readVars>>

(* Mutant: abort() does not look at the state of the row.                   *)
AbortBound(c) ==
    /\ cplace[c] = "abort"
    /\ pubs' = [pubs EXCEPT ![CurrentPublication(c)] = [@ EXCEPT !.status = "aborted"]]
    /\ Loop(c, call[c], "abort", index[c] + 1)
    /\ UNCHANGED <<storeVars, board, readVars>>

(* abort() of the next publication; the RuntimeError of a bound one is      *)
(* suppressed.                                                              *)
AbortPending(c) ==
    LET p == CurrentPublication(c)
    IN  /\ cplace[c] = "abort"
        /\ pubs' = IF pubs[p].status = "bound" THEN pubs
                   ELSE [pubs EXCEPT ![p] = [@ EXCEPT !.status = "aborted"]]
        /\ Loop(c, call[c], "abort", index[c] + 1)
        /\ UNCHANGED <<storeVars, board, readVars>>

(* bind() of the next publication: an aborted one raises.                   *)
Bind(c) ==
    LET p == CurrentPublication(c)
    IN  /\ cplace[c] = "bind"
        /\ pubs[p].status # "aborted"
        /\ pubs' = [pubs EXCEPT ![p] = [@ EXCEPT !.status = "bound"]]
        /\ Loop(c, call[c], "bind", index[c] + 1)
        /\ UNCHANGED <<storeVars, board, readVars>>

BindRefused(c) ==
    /\ cplace[c] = "bind"
    /\ pubs[CurrentPublication(c)].status = "aborted"
    /\ Return(c)
    /\ UNCHANGED <<storeVars, pubs, board, readVars>>

(* A failed transaction of prepare(), abort() or bind() ends the call: an   *)
(* sqlite3 error is not a RuntimeError and is not suppressed.               *)
RegistryFails(c) ==
    /\ cplace[c] \in {"prepare", "abort", "bind"}
    /\ storeFaults < MaxStoreFaults
    /\ storeFaults' = storeFaults + 1
    /\ Return(c)
    /\ UNCHANGED <<filesVars, pubs, board, readVars>>

(* materialize() up to authorize_read(): the publication resolves, its      *)
(* audience and the scope admit the reader, and the thread it can see holds *)
(* an entry that carries it.                                                *)
Authorize(a, p) ==
    /\ granted[a] = {}
    /\ pubs[p].status = "bound"
    /\ \E e \in Entries :
          /\ p \in PidsOf(e) /\ Visible(a, e)
          /\ IF pubs[p].audience = "private" THEN e.actor = a
                                             ELSE Visibility = "shared"
    /\ pubs[p].art \in row
    /\ granted' = [granted EXCEPT ![a] = {p}]
    /\ UNCHANGED <<storeVars, pubs, board, call, cplace, index, copies>>

(* trusted_read() consumes the authorization, verifies the bytes and        *)
(* returns them.                                                            *)
TrustedRead(a) ==
    \E p \in granted[a] :
        /\ copies' = IF blob[pubs[p].art] = "whole"
                     THEN copies \cup {<<a, p, pubs[p].art>>} ELSE copies
        /\ granted' = [granted EXCEPT ![a] = {}]
        /\ UNCHANGED <<storeVars, pubs, board, call, cplace, index>>

(* The process dies: calls and authorizations are lost.                     *)
ServiceDies ==
    /\ storeFaults < MaxStoreFaults
    /\ storeFaults' = storeFaults + 1
    /\ StoreDies
    /\ call' = [c \in ToolCalls |-> NoRequest]
    /\ cplace' = [c \in ToolCalls |-> "idle"]
    /\ index' = [c \in ToolCalls |-> 0]
    /\ granted' = [a \in Readers |-> {}]
    /\ UNCHANGED <<pubs, board, copies>>

Publishing(c) ==
    \/ Prepare(c) \/ PrepareRefused(c)
    \/ AppendEntry(c) \/ AppendRefused(c) \/ AppendFails(c)
    \/ AbortPending(c)
    \/ Bind(c) \/ BindRefused(c) \/ RegistryFails(c)

PublicationNext ==
    \/ /\ \/ OpenStorage \/ Seal
          \/ \E w \in Writes : Put(w)
       /\ UNCHANGED pubVars
    \/ \E c \in ToolCalls, r \in Requests : BeginPublish(c, r)
    \/ \E c \in ToolCalls : Publishing(c)
    \/ \E a \in Readers, p \in Pids : Authorize(a, p)
    \/ \E a \in Readers : TrustedRead(a)
    \/ ServiceDies

PublicationSpec == PublicationInit /\ [][PublicationNext]_publicationVars
-----------------------------------------------------------------------------
(* Whatever put() fails, is retried or dies on the way, and whenever the    *)
(* seal comes: an admitted artifact has its bytes, an idempotency key has   *)
(* one artifact and a retry returns it, the allowances hold, and a sealed   *)
(* campaign has exactly the artifacts of its seal.                          *)
StoreIsSound ==
    /\ \A w \in row : blob[w] = "whole"
    /\ \A v, w \in keyed :
          WriteKey[v] = WriteKey[w] /\ Writer[v] = Writer[w] => v = w
    /\ \A w \in Writes : \A v \in returned[w] :
          v \in row /\ Writer[v] = Writer[w] /\ (v # w => Content[v] = Content[w])
    /\ \A a \in Roster : Used(RowsOfOwner(a)) <= MaxActor
    /\ Used(row) <= MaxCampaign
    /\ \A s \in sealed : s = row

(* A publication that resolves belongs to the one entry of its key, and     *)
(* gives exactly the artifact, of the entry's own actor, and the audience   *)
(* that entry was published with; a copy was made of nothing else.          *)
BoundIsAttached ==
    /\ \A p \in Pids : pubs[p].status = "bound" =>
          \E e \in Entries :
              /\ p \in PidsOf(e)
              /\ pubs[p] = PublicationRow("bound", e, p[2])
              /\ Writer[e.arts[p[2]]] = e.actor
              /\ e.audience = "shared" => Visibility = "shared"
    /\ \A t \in copies : \E e \in Entries :
          /\ t[2] \in PidsOf(e) /\ t[3] = e.arts[t[2][2]]
          /\ e.audience = "private" => e.actor = t[1]

(* The calls, failures and deaths of all actors together act like one       *)
(* atomic post per key and one publication per artifact after it.           *)
Contract == INSTANCE PublicationContract
    WITH board    <- Entries,
         readable <- {p \in Pids : pubs[p].status = "bound"},
         KeyOf    <- [r \in Requests |-> r.key],
         Carried  <- [r \in Requests |-> PidsOf(r)]
ImplementsPublication == Contract!Spec

(* docs/MODULE_CONTRACTS.md, artifact service: "recovery either binds the   *)
(* matching durable entry or aborts the preparation": a publication that a  *)
(* durable entry carries is not aborted.                                    *)
AbortedIsUnwritten ==
    \A e \in Entries : \A p \in PidsOf(e) : pubs[p].status # "aborted"
=============================================================================
