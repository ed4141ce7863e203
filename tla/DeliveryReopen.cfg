CONSTANTS
    Jobs = {j1, j2}
    Sessions = {s1, s2}
    NoJob = NoJob
    MaxFaults = 0
    MaxCrashes = 1
SPECIFICATION Spec
INVARIANTS
    ClosedIsNotResumed
CHECK_DEADLOCK FALSE
