CONSTANTS
    a1 = a1
    a2 = a2
    j1 = j1
    j2 = j2
    Jobs = {j1, j2}
    Actors = {a1}
    NumCandidates = 2
    JobOf <- MCTwoJobs
    Owner <- MCOneOwner
    CandidateLimit = 1
    VisibleSlots <- MCAmple
    HiddenSlots = 2
    Results = {1}
    MaxFaults = 0
    MaxCrashes = 0
SPECIFICATION Spec
INVARIANTS
    SettledJobsClose
CHECK_DEADLOCK FALSE
