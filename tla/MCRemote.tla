------------------------------ MODULE MCRemote ------------------------------
EXTENDS RemoteEvidence, TLC
MCCases == 1 .. 2
Fine == [failed |-> {}, garbled |-> {}, canary |-> TRUE, host |-> "pinned", good |-> TRUE]

\* Where commands race, a call is fine or was measured on another GPU.
Few == {Fine, [Fine EXCEPT !.host = "other"], NoTrial}

CommandSymmetry == Permutations(Commands)
=============================================================================
