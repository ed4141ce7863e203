----------------------------- MODULE MCMeasured -----------------------------
(***************************************************************************)
(* Candidates and what is measured of them, side by side: the registry of  *)
(* submissions, and the evidence of one remote measurement series.  They   *)
(* share no state; a behaviour belongs to one of them and leaves the other *)
(* where it begins.                                                        *)
(*                                                                         *)
(* The series is run twice: commands that race over two repetitions, whose *)
(* calls meet few trials; and commands that come one after the other, in   *)
(* every lane, for one call that may meet any trial there is.              *)
(***************************************************************************)
EXTENDS MCCandidateLifecycle, MCRemote

VARIABLE world

worldVars == <<vars, remoteVars, world>>

WorldInit ==
    /\ world \in {"candidates", "races", "trials"}
    /\ Init /\ RemoteInit
    /\ world # "candidates" => measured = [f \in Artifacts |-> 0]
    /\ world # "trials" => lane = "performance"
    /\ measured[Reference] < 2

Races == \A c \in Calls : calls'[c].trial \in Few

AnyTrial ==
    /\ \A c \in Calls : c > 1 => calls'[c].at = "unused"
    /\ \A p, q \in Commands : command'[p] # Quit /\ command'[q] # Quit => p = q

WorldNext ==
    \/ world = "candidates" /\ Next /\ UNCHANGED <<remoteVars, world>>
    \/ world = "races"  /\ RemoteNext /\ Races    /\ UNCHANGED <<vars, world>>
    \/ world = "trials" /\ RemoteNext /\ AnyTrial /\ UNCHANGED <<vars, world>>

WorldSpec == WorldInit /\ [][WorldNext]_worldVars

=============================================================================
