--------------------------- MODULE ArtifactStore ---------------------------
(***************************************************************************)
(* LocalArtifactStorage: blobs on disk, rows and write keys in SQLite, and *)
(* the seal of a campaign.  A put() writes the blob, forces it to disk and *)
(* only then admits it in one transaction; between these steps another     *)
(* put(), the seal or a process death may come.                            *)
(*                                                                         *)
(* One campaign.  Each attempt of a put() draws a fresh reference, so the  *)
(* attempt stands for its artifact.  Left out: bytes and media types       *)
(* (Content tells the same write from another one) and the audit table.    *)
(***************************************************************************)
EXTENDS RosterTotals, FiniteSets

CONSTANTS WriteAttempts, \* how many put() calls are made
          Writer,         \* [Writes -> actors], from the session
          WriteKey,      \* [Writes -> idempotency keys, or NoKey]
          Content,       \* [Writes -> contents]
          Size,          \* [Writes -> bytes]
          Roster,        \* the actors of the campaign
          NoKey,
          MaxArtifact,
          MaxActor,
          MaxCampaign,
          MaxStoreFaults      \* bound on failed steps and process deaths

(* Each call of put() draws a fresh reference: its number stands for it.    *)
Writes == 1..WriteAttempts

ASSUME StoreAssumption ==
    /\ WriteAttempts \in Nat
    /\ Size \in [Writes -> Nat]
    /\ MaxArtifact \in Nat /\ MaxActor \in Nat /\ MaxCampaign \in Nat
    /\ MaxStoreFaults \in Nat

VARIABLES storageOpen, \* storage_campaigns holds the campaign and its roster
          blob,        \* the blob file of each reference
          row,         \* the references in table artifacts
          keyed,       \* those that a row of artifact_write_keys names
          wplace,      \* where each attempt is
          returned,    \* the reference each attempt has returned, if any
          sealed,      \* the storage_seals of the campaign: the rows each covers
          storeFaults

filesVars == <<storageOpen, blob, row, keyed, wplace, returned, sealed>>
storeVars == <<filesVars, storeFaults>>

StoreInit ==
    /\ storageOpen = FALSE
    /\ blob = [w \in Writes |-> "absent"]
    /\ row = {}
    /\ keyed = {}
    /\ wplace = [w \in Writes |-> "idle"]
    /\ returned = [w \in Writes |-> {}]
    /\ sealed = {}
    /\ storeFaults = 0

RowsOfOwner(a) == {w \in row : Writer[w] = a}

(* SUM(size_bytes) over the rows in S.                                      *)
Used(S) == Total(WriteAttempts, [w \in Writes |-> IF w \in S THEN Size[w] ELSE 0])

(* open_campaign(): every actor's allowance must fit in the campaign's.     *)
OpenStorage ==
    /\ ~storageOpen
    /\ MaxActor * Cardinality(Roster) <= MaxCampaign
    /\ storageOpen' = TRUE
    /\ UNCHANGED <<blob, row, keyed, wplace, returned, sealed, storeFaults>>

(* put(): an oversized content is refused before a file exists.             *)
CreateBlob(w) ==
    /\ wplace[w] = "idle"
    /\ Size[w] > 0 /\ Size[w] <= MaxArtifact
    /\ blob' = [blob EXCEPT ![w] = "partial"]
    /\ wplace' = [wplace EXCEPT ![w] = "created"]
    /\ UNCHANGED <<storageOpen, row, keyed, returned, sealed, storeFaults>>

WriteBlob(w) ==
    /\ wplace[w] = "created"
    /\ blob' = [blob EXCEPT ![w] = "whole"]
    /\ wplace' = [wplace EXCEPT ![w] = "written"]
    /\ UNCHANGED <<storageOpen, row, keyed, returned, sealed, storeFaults>>

(* The except branch of put() removes the file of the failed attempt.       *)
Withdraw(w) ==
    /\ blob' = [blob EXCEPT ![w] = "absent"]
    /\ wplace' = [wplace EXCEPT ![w] = "failed"]
    /\ UNCHANGED <<storageOpen, row, keyed, returned, sealed>>

PutFails(w) ==
    /\ wplace[w] \in {"created", "written"}
    /\ storeFaults < MaxStoreFaults
    /\ storeFaults' = storeFaults + 1
    /\ Withdraw(w)

(* The earlier write of the same actor under the same key.                  *)
Earlier(w) == {v \in keyed : WriteKey[v] = WriteKey[w] /\ Writer[v] = Writer[w]}

(* Mutant: the seal is not looked up before a row is admitted.              *)
WithinQuotasOfUnsealed(w) ==
    /\ storageOpen
    /\ Writer[w] \in Roster
    /\ Used(RowsOfOwner(Writer[w])) + Size[w] <= MaxActor
    /\ Used(row) + Size[w] <= MaxCampaign

(* _enforce_quotas(), inside the transaction that inserts the row.          *)
WithinQuotas(w) ==
    /\ storageOpen
    /\ sealed = {}
    /\ Writer[w] \in Roster
    /\ Used(RowsOfOwner(Writer[w])) + Size[w] <= MaxActor
    /\ Used(row) + Size[w] <= MaxCampaign

AdmitWrite(w) ==
    /\ wplace[w] = "written"
    /\ Earlier(w) = {}
    /\ WithinQuotas(w)
    /\ row' = row \cup {w}
    /\ keyed' = IF WriteKey[w] = NoKey THEN keyed ELSE keyed \cup {w}
    /\ wplace' = [wplace EXCEPT ![w] = "done"]
    /\ returned' = [returned EXCEPT ![w] = {w}]
    /\ UNCHANGED <<storageOpen, blob, sealed, storeFaults>>

(* A retry under a key returns the earlier artifact and drops its own file. *)
Replay(w) ==
    /\ wplace[w] = "written"
    /\ \E v \in Earlier(w) :
          /\ Content[v] = Content[w]
          /\ returned' = [returned EXCEPT ![w] = {v}]
    /\ blob' = [blob EXCEPT ![w] = "absent"]
    /\ wplace' = [wplace EXCEPT ![w] = "done"]
    /\ UNCHANGED <<storageOpen, row, keyed, sealed, storeFaults>>

RefusePut(w) ==
    /\ wplace[w] = "written"
    /\ IF Earlier(w) = {} THEN ~WithinQuotas(w)
                          ELSE \A v \in Earlier(w) : Content[v] # Content[w]
    /\ Withdraw(w)
    /\ UNCHANGED storeFaults

(* seal() reads and verifies every blob in the transaction that stores the  *)
(* seal; sealing again must give the same seal.                             *)
Seal ==
    /\ storageOpen
    /\ \A w \in row : blob[w] = "whole"
    /\ sealed = {}
    /\ sealed' = {row}
    /\ UNCHANGED <<storageOpen, blob, row, keyed, wplace, returned, storeFaults>>

(* The process dies: the files it had not admitted stay behind.             *)
StoreDies ==
    /\ wplace' = [w \in Writes |-> IF wplace[w] \in {"created", "written"}
                                   THEN "lost" ELSE wplace[w]]
    /\ UNCHANGED <<storageOpen, blob, row, keyed, returned, sealed>>

Put(w) ==
    \/ CreateBlob(w) \/ WriteBlob(w) \/ PutFails(w)
    \/ AdmitWrite(w) \/ Replay(w) \/ RefusePut(w)

=============================================================================
