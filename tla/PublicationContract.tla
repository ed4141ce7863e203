------------------------ MODULE PublicationContract ------------------------
(***************************************************************************)
(* What ArtifactService promises its actors: a scoped idempotency key      *)
(* names at most one entry of the board and keeps its content, and a       *)
(* publication becomes readable once, after the entry that carries it, and *)
(* stays readable.                                                         *)
(***************************************************************************)
CONSTANTS Requests, Pids,
          KeyOf,     \* [Requests -> keys]
          Carried    \* [Requests -> SUBSET Pids]

VARIABLES board,     \* the requests with an entry
          readable   \* the publications that resolve

vars == <<board, readable>>

Init == board = {} /\ readable = {}

Post(r) ==
    /\ \A q \in board : KeyOf[q] # KeyOf[r]
    /\ board' = board \cup {r}
    /\ UNCHANGED readable

Publish(p) ==
    /\ \E r \in board : p \in Carried[r]
    /\ readable' = readable \cup {p}
    /\ UNCHANGED board

Next ==
    \/ \E r \in Requests : Post(r)
    \/ \E p \in Pids : Publish(p)

Spec == Init /\ [][Next]_vars
=============================================================================
