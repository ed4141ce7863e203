CONSTANTS
    Jobs = {j1, j2}
    Sessions = {s1, s2}
    NoJob = NoJob
    MaxFaults = 1
    MaxCrashes = 0
SPECIFICATION Spec
INVARIANTS
    CompleteSetReconciles
CHECK_DEADLOCK FALSE
