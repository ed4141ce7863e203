----------------------------- MODULE MCAccounts -----------------------------
(***************************************************************************)
(* The durable accounts of an experiment, side by side: the ledger of one  *)
(* campaign's model calls, the journal that pays for the runs, and the     *)
(* ledger that admits the children of a native fleet.  They share no       *)
(* state; a behaviour belongs to one of them and leaves the others where   *)
(* they begin.                                                             *)
(***************************************************************************)
EXTENDS MCModelBudget, MCPilotSpend, NativeAdmission

VARIABLE world

AccountSymmetry ==
    HostSymmetry \cup Permutations(Dispatches)

worldVars == <<ledgerVars, spendVars, fleetVars, world>>

WorldInit ==
    /\ world \in {"ledger", "journal", "fleet"}
    /\ LedgerInit /\ SpendInit /\ FleetInit

WorldNext ==
    \/ world = "ledger"  /\ LedgerNext /\ UNCHANGED <<spendVars, fleetVars, world>>
    \/ world = "journal" /\ SpendNext  /\ UNCHANGED <<ledgerVars, fleetVars, world>>
    \/ world = "fleet"   /\ FleetNext  /\ UNCHANGED <<ledgerVars, spendVars, world>>

WorldSpec == WorldInit /\ [][WorldNext]_worldVars
=============================================================================
