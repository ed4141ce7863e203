--------------------------- MODULE MCPublication ---------------------------
EXTENDS ArtifactPublication

(* Actor "a" writes an artifact, retries the write and writes another one   *)
(* its allowance has no room for; its two requests share a key; "b" replies. *)
MCOwner    == <<"a", "a", "a">>
MCWriteKey == <<"w", "w", "none">>
MCContent  == <<"x", "x", "y">>
MCSize     == <<1, 1, 2>>

CallSymmetry == Permutations(ToolCalls)

Request(key, actor, body, arts, audience, reply) ==
    [key |-> key, actor |-> actor, body |-> body, arts |-> arts,
     audience |-> audience, reply |-> reply]

MCRequests == {
    Request("k1", "a", "x", <<1>>, "shared", "none"),
    Request("k1", "a", "y", <<1>>, "private", "none"),
    Request("k2", "b", "x", <<>>, "private", "k1")}
=============================================================================
