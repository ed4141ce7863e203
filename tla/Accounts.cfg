CONSTANTS
    NumActors = 2
    NumCalls = 3
    Limit <- MCLimit
    Maxima = {1, 2}
    Costs = {0, 1, 3}
    Hosts = {h1, h2}
    Qualifications = {"modal-access", "provider-route"}
    Newest = 13
    Bills <- MCBills
    Charges <- MCCharges
    Batches <- MCBatches
    Crowded = {0, 7}
    Followed = {6}
    PinsFrom = 13
    MaxHostCrashes = 1
    Dispatches = {d1, d2, d3}
    ChildIds = {x1, x2, x3}
    Unnamed = Unnamed
    MaxIdentities = 3
    MaxFleetFaults = 1
SYMMETRY AccountSymmetry
SPECIFICATION WorldSpec
INVARIANTS
    IsolatedAbsentOverrun
    ReservesCoverExposure
    WorkIsFunded
    BegunIsAffordable
    FleetIsBounded
CHECK_DEADLOCK FALSE
