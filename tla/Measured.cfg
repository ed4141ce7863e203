CONSTANTS
    a1 = a1
    a2 = a2
    j1 = j1
    j2 = j2
    Jobs = {j1}
    Actors = {a1, a2}
    NumCandidates = 3
    JobOf <- MCOneJob
    Owner <- MCOwners
    CandidateLimit = 2
    VisibleSlots <- MCSlots
    HiddenSlots = 1
    Results = {0, 1, 2}
    MaxFaults = 1
    MaxCrashes = 1
    Cases <- MCCases
    Likely <- Trials
    LanesRun = {"performance", "quality", "correctness"}
    Modes = {"run", "collect"}
    Commands = {p1, p2}
    MaxRepetitions = 2
    MaxAttempts = 2
    MaxCalls = 2
    MaxRemoteFaults = 1
SYMMETRY CommandSymmetry
SPECIFICATION WorldSpec
INVARIANTS
    VerdictsAreBacked
    SelectionIsBest
    EvidenceIsOneCalls
    OneValidAttempt
    EligibleWasMeasured
PROPERTIES
CHECK_DEADLOCK FALSE
