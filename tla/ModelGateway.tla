---------------------------- MODULE ModelGateway ----------------------------
(***************************************************************************)
(* ModelBudgetGateway in front of the ledger: in-memory access tokens with *)
(* a count of authenticated requests, one handler thread per model call,   *)
(* a client that may stop reading or sending, an upstream provider that    *)
(* may accept, refuse or fail, and a ledger whose transactions may fail.   *)
(* Handler threads, revocations, the closing thread and a crash of the     *)
(* process interleave; only the ledger survives the crash.                 *)
(*                                                                         *)
(* A call index is one HTTP request; the gateway draws a fresh call_id for *)
(* it, so it is also the ledger's call.  Request and response bodies, the  *)
(* per-token Unix sockets and token digests are left out.                  *)
(***************************************************************************)
EXTENDS ModelBudget, FiniteSets

CONSTANTS Tokens,         \* bound on the tokens of a behaviour
          TokenActor,     \* the actor each token is issued to
          LedgerMayFail,  \* whether a transaction may raise a database error
          MaxCrashes      \* bound on the crashes of the gateway's process

ASSUME TokenAssumption == TokenActor \in [Tokens -> Actors]
ASSUME FailureAssumption == LedgerMayFail \in BOOLEAN
ASSUME CrashAssumption == MaxCrashes \in Nat
ASSUME TokenNames == {"none", "idle", "next", "closed"} \cap Tokens = {}

VARIABLES token,       \* where each token is in its life
          revoked,     \* state.revoked of the tokens in the registry
          active,      \* state.active_requests of the tokens in the registry
          call,        \* where each request's handler thread is
          callToken,   \* the token each request was authorised under
          billed,      \* what the provider bills for the call
          closer,      \* the thread in close(): idle, between tokens, at a token, closed
          crashes

gatewayVars == <<token, revoked, active, call, callToken, billed, closer, crashes>>
vars == <<ledgerVars, gatewayVars>>

TokenStates == {"unissued", "issued", "active", "gone", "lost"}
InFlight    == {"authorized", "upstream", "headers", "streaming", "receipt",
                "answering", "unwinding", "abandoning"}
CallStates  == {"idle", "done", "abandoned", "crashed"} \cup InFlight

Registered(t)  == token[t] \in {"issued", "active"}
CallsUnder(t)  == {c \in Calls : call[c] \in InFlight /\ callToken[c] = t}
CallActor(c)   == TokenActor[callToken[c]]

Init ==
    /\ LedgerInit
    /\ token = [t \in Tokens |-> "unissued"]
    /\ revoked = [t \in Tokens |-> FALSE]
    /\ active = [t \in Tokens |-> 0]
    /\ call = [c \in Calls |-> "idle"]
    /\ callToken = [c \in Calls |-> "none"]
    /\ billed = [c \in Calls |-> 0]
    /\ closer = "idle"
    /\ crashes = 0

(* The composition provisions the budget before it starts the harness. *)
Provision ==
    /\ OpenCampaign
    /\ UNCHANGED gatewayVars

-----------------------------------------------------------------------------
(* Tokens.  The harness issues and activates them; it has stopped before    *)
(* the composition closes the gateway.                                      *)
Issue(t) ==
    /\ opened
    /\ closer = "idle"
    /\ token[t] = "unissued"
    /\ token' = [token EXCEPT ![t] = "issued"]
    /\ UNCHANGED <<ledgerVars, revoked, active, call, callToken, billed, closer, crashes>>

Activate(t) ==
    /\ closer = "idle"
    /\ token[t] = "issued"
    /\ token' = [token EXCEPT ![t] = "active"]
    /\ UNCHANGED <<ledgerVars, revoked, active, call, callToken, billed, closer, crashes>>

(* revoke() denies new requests at once and then waits for the others. *)
RevokeStart(t) ==
    /\ Registered(t)
    /\ ~ revoked[t]
    /\ revoked' = [revoked EXCEPT ![t] = TRUE]
    /\ UNCHANGED <<ledgerVars, token, active, call, callToken, billed, closer, crashes>>

(* Mutant: revoke() does not wait. *)
RevokeReturnEarly(t) ==
    /\ Registered(t)
    /\ revoked[t]
    /\ token' = [token EXCEPT ![t] = "gone"]
    /\ UNCHANGED <<ledgerVars, revoked, active, call, callToken, billed, closer, crashes>>

RevokeReturn(t) ==
    /\ Registered(t)
    /\ revoked[t]
    /\ active[t] = 0
    /\ token' = [token EXCEPT ![t] = "gone"]
    /\ UNCHANGED <<ledgerVars, revoked, active, call, callToken, billed, closer, crashes>>

(* close() revokes the registered tokens one after the other. *)
CloseStart ==
    /\ closer = "idle"
    /\ closer' = "next"
    /\ UNCHANGED <<ledgerVars, token, revoked, active, call, callToken, billed, crashes>>

CloseRevoke(t) ==
    /\ closer = "next"
    /\ Registered(t)
    /\ revoked' = [revoked EXCEPT ![t] = TRUE]
    /\ closer' = t
    /\ UNCHANGED <<ledgerVars, token, active, call, callToken, billed, crashes>>

CloseRevoked(t) ==
    /\ closer = t
    /\ ~ Registered(t)
    /\ closer' = "next"
    /\ UNCHANGED <<ledgerVars, token, revoked, active, call, callToken, billed, crashes>>

CloseReturn ==
    /\ closer = "next"
    /\ \A t \in Tokens : ~ Registered(t)
    /\ closer' = "closed"
    /\ UNCHANGED <<ledgerVars, token, revoked, active, call, callToken, billed, crashes>>

-----------------------------------------------------------------------------
(* One request.  A request that _authorize denies changes nothing. *)
Authorize(c, t) ==
    /\ call[c] = "idle"
    /\ token[t] = "active"
    /\ ~ revoked[t]
    /\ active' = [active EXCEPT ![t] = @ + 1]
    /\ call' = [call EXCEPT ![c] = "authorized"]
    /\ callToken' = [callToken EXCEPT ![c] = t]
    /\ UNCHANGED <<ledgerVars, token, revoked, billed, closer, crashes>>

(* The handler of call c moves on, and nothing of the tokens changes. *)
Continue(c, from, to) ==
    /\ call[c] = from
    /\ call' = [call EXCEPT ![c] = to]
    /\ UNCHANGED <<token, revoked, active, callToken, closer, crashes>>

(* The body is invalid and an error is sent, or the read or reserve() raises. *)
RejectBody(c) ==
    /\ \E to \in {"answering", "unwinding"} : Continue(c, "authorized", to)
    /\ UNCHANGED <<ledgerVars, billed>>

ReserveCall(c, m) ==
    /\ Continue(c, "authorized", "upstream")
    /\ Reserve(CallActor(c), c, m)
    /\ UNCHANGED billed

RefuseCall(c, m) ==
    /\ Continue(c, "authorized", "answering")
    /\ Refuse(CallActor(c), c, m)
    /\ UNCHANGED billed

(* The provider starts the call and will bill it. *)
UpstreamAccepts(c, cost) ==
    /\ Continue(c, "upstream", "headers")
    /\ billed' = [billed EXCEPT ![c] = cost]
    /\ UNCHANGED ledgerVars

(* A 4xx answer: the provider definitely did not start the call. *)
UpstreamRefuses(c) ==
    /\ Continue(c, "upstream", "answering")
    /\ Release(c)
    /\ UNCHANGED billed

(* Mutant: an ambiguous failure gives the budget back. *)
UpstreamAmbiguousReleases(c, cost) ==
    /\ Continue(c, "upstream", "answering")
    /\ Release(c)
    /\ billed' = [billed EXCEPT ![c] = cost]

(* A 5xx answer or a broken connection: the provider may bill the call. *)
UpstreamAmbiguous(c, cost) ==
    /\ Continue(c, "upstream", "answering")
    /\ Forfeit(c)
    /\ billed' = [billed EXCEPT ![c] = cost]

HeadersSent(c) ==
    /\ Continue(c, "headers", "streaming")
    /\ UNCHANGED <<ledgerVars, billed>>

(* The client is gone when the headers are written: the exception leaves    *)
(* the handler through the finally clause and no ledger operation is run.   *)
HeadersFail(c) ==
    /\ Continue(c, "headers", "abandoning")
    /\ UNCHANGED <<ledgerVars, billed>>

StreamCompletes(c) ==
    /\ Continue(c, "streaming", "receipt")
    /\ UNCHANGED <<ledgerVars, billed>>

(* Mutant: a broken stream leaves the reservation. *)
StreamBreaksUnrecorded(c) ==
    /\ Continue(c, "streaming", "unwinding")
    /\ UNCHANGED <<ledgerVars, billed>>

(* The provider or the client breaks off, or the response passes its bound. *)
StreamBreaks(c) ==
    /\ Continue(c, "streaming", "unwinding")
    /\ Forfeit(c)
    /\ UNCHANGED billed

(* Mutant: a call without a receipt is released. *)
UsageInvalidReleases(c) ==
    /\ Continue(c, "receipt", "unwinding")
    /\ Release(c)
    /\ UNCHANGED billed

(* The usage receipt is missing, contradictory or from another route. *)
UsageInvalid(c) ==
    /\ Continue(c, "receipt", "unwinding")
    /\ Forfeit(c)
    /\ UNCHANGED billed

(* The receipt states what the provider bills; an overrun is swallowed. *)
SettleCall(c) ==
    /\ Continue(c, "receipt", "unwinding")
    /\ Settle(c, billed[c])
    /\ UNCHANGED billed

(* release(), forfeit() or settle() raises a database error.  Only the      *)
(* RuntimeError of an overrun is caught, and by settle()'s caller alone:    *)
(* the exception leaves the handler, and the row stays reserved.            *)
LedgerFails(c) ==
    /\ LedgerMayFail
    /\ \/ /\ Continue(c, "upstream", "abandoning")
          /\ \E cost \in Costs \cup {0} : billed' = [billed EXCEPT ![c] = cost]
       \/ /\ \E from \in {"streaming", "receipt"} : Continue(c, from, "abandoning")
          /\ UNCHANGED billed
    /\ UNCHANGED ledgerVars

(* Mutant: a request whose handler raises is not uncounted. *)
UnwindAnswered(c) ==
    /\ call[c] \in {"answering", "unwinding", "abandoning"}
    /\ active' = [active EXCEPT ![callToken[c]] = IF call[c] # "abandoning" THEN @ - 1 ELSE @]
    /\ call' = [call EXCEPT ![c] = IF @ = "abandoning" THEN "abandoned" ELSE "done"]
    /\ UNCHANGED <<ledgerVars, token, revoked, callToken, billed, closer, crashes>>

(* The finally clause of _handle: _release_authorization.  The answer of a  *)
(* request that ends in one has been written, or writing it has failed.     *)
Unwind(c) ==
    /\ call[c] \in {"answering", "unwinding", "abandoning"}
    /\ active' = [active EXCEPT ![callToken[c]] = @ - 1]
    /\ call' = [call EXCEPT ![c] = IF @ = "abandoning" THEN "abandoned" ELSE "done"]
    /\ UNCHANGED <<ledgerVars, token, revoked, callToken, billed, closer, crashes>>

(* The process dies: threads and tokens are lost, the ledger is not. *)
Crash ==
    /\ crashes < MaxCrashes
    /\ crashes' = crashes + 1
    /\ token' = [t \in Tokens |-> IF Registered(t) THEN "lost" ELSE token[t]]
    /\ revoked' = [t \in Tokens |-> FALSE]
    /\ active' = [t \in Tokens |-> 0]
    /\ call' = [c \in Calls |-> IF call[c] \in InFlight THEN "crashed" ELSE call[c]]
    /\ closer' = "idle"
    /\ UNCHANGED <<ledgerVars, callToken, billed>>

Handler(c) ==
    \/ RejectBody(c)
    \/ \E m \in Maxima : ReserveCall(c, m)
    \/ \E m \in Maxima : RefuseCall(c, m)
    \/ \E cost \in Costs : UpstreamAccepts(c, cost)
    \/ UpstreamRefuses(c)
    \/ \E cost \in Costs : UpstreamAmbiguous(c, cost)
    \/ HeadersSent(c)
    \/ HeadersFail(c)
    \/ StreamCompletes(c)
    \/ StreamBreaks(c)
    \/ UsageInvalid(c)
    \/ SettleCall(c)
    \/ LedgerFails(c)
    \/ Unwind(c)

Closer ==
    \/ \E t \in Tokens : CloseRevoke(t)
    \/ \E t \in Tokens : CloseRevoked(t)
    \/ CloseReturn

Next ==
    \/ Provision
    \/ \E t \in Tokens : Issue(t)
    \/ \E t \in Tokens : Activate(t)
    \/ \E t \in Tokens : RevokeStart(t)
    \/ \E t \in Tokens : RevokeReturn(t)
    \/ CloseStart
    \/ Closer
    \/ \E c \in Calls, t \in Tokens : Authorize(c, t)
    \/ \E c \in Calls : Handler(c)
    \/ Crash

Spec == Init /\ [][Next]_vars

(* Where a handler reads from its client or writes to it: the sockets to    *)
(* clients have no timeout, so nothing but the client ends such a wait.     *)
(* While it streams it also reads from the provider, whose connection has a *)
(* timeout and whose response has a byte bound.                             *)
ClientWaits == {"authorized", "headers", "streaming", "answering"}

(* A handler that waits for no client takes its next step: the provider's   *)
(* connection and the database have timeouts.  The condition variable wakes *)
(* the revoking thread, which then returns, and the closing thread goes on. *)
Fairness ==
    /\ \A c \in Calls : WF_vars(call[c] \notin ClientWaits /\ Handler(c))
    /\ \A t \in Tokens : WF_vars(RevokeReturn(t))
    /\ WF_vars(Closer)

FairSpec == Spec /\ Fairness

-----------------------------------------------------------------------------
(* Every variable of the gateway has its type. *)
GatewayTypeOK ==
    /\ LedgerTypeOK
    /\ token \in [Tokens -> TokenStates]
    /\ revoked \in [Tokens -> BOOLEAN]
    /\ active \in [Tokens -> Nat]
    /\ call \in [Calls -> CallStates]
    /\ callToken \in [Calls -> Tokens \cup {"none"}]
    /\ \A c \in Calls : call[c] # "idle" => callToken[c] \in Tokens
    /\ billed \in [Calls -> Nat]
    /\ closer \in {"idle", "next", "closed"} \cup Tokens
    /\ crashes \in 0..MaxCrashes

(* Every request in flight is counted at a registered, active token:       *)
(* _release_authorization never finds its token missing or its count zero. *)
RequestsHoldTheirToken ==
    /\ \A t \in Tokens : active[t] = Cardinality(CallsUnder(t))
    /\ \A c \in Calls : call[c] \in InFlight => token[callToken[c]] = "active"

(* When revoke() has returned, the only reservations still active under    *)
(* the token are those whose handler an exception has left: writing the    *)
(* response headers failed, or the ledger's own transaction did.           *)
OnlyAbandonedStayActive ==
    \A c \in WithStatus("reserved") :
        token[callToken[c]] = "gone" => call[c] = "abandoned"

(* Whatever failed, and wherever the process died, a call the provider     *)
(* bills is held, charged or forfeited in the ledger, a settled one for    *)
(* exactly what the provider bills.                                        *)
BillIsCovered ==
    \A c \in Calls :
        /\ billed[c] > 0 => rows[c].status \in {"reserved", "settled", "overrun", "forfeited"}
        /\ rows[c].status \in {"settled", "overrun"} => rows[c].charged = billed[c]

(* A campaign that reconciles as valid was charged, call by call, what the *)
(* provider billed: the failures that make the ledger inexact make it      *)
(* invalid as well.                                                        *)
ValidMeansExact ==
    ReconcileValid => \A c \in Calls : rows[c].charged = billed[c]

(* Once revoke() has returned, no call of the token touches the ledger.    *)
LedgerQuietAfterRevoke ==
    [][\A c \in Calls : call[c] # "idle" /\ token[callToken[c]] = "gone"
           => rows'[c] = rows[c]]_vars

(* As long as no client keeps its handler waiting for ever, a revocation    *)
(* returns, and close() gets through all tokens, whatever raises in the     *)
(* handlers, unless the process dies first.                                 *)
WaitersReturn ==
    (\A c \in Calls : []<>(call[c] \notin ClientWaits))
        => /\ \A t \in Tokens : revoked[t] ~> ~ Registered(t)
           /\ closer = "next" ~> closer \in {"closed", "idle"}

(* docs/MODULE_CONTRACTS.md, Budget gateway: "Token revocation is a         *)
(* quiescence barrier: it rejects new authentication and waits for already  *)
(* authenticated calls to settle, release or forfeit before returning."     *)
RevocationIsQuiescent ==
    \A c \in WithStatus("reserved") : token[callToken[c]] # "gone"
=============================================================================
