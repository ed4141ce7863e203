CONSTANTS
    Jobs = {j1, j2}
    Sessions = {s1, s2}
    NoJob = NoJob
    MaxFaults = 2
    MaxCrashes = 1
SPECIFICATION FairSpec
INVARIANTS
    MemoryFollowsOutbox
PROPERTIES
    ImplementsContract
    DeliverReturns
CHECK_DEADLOCK FALSE
