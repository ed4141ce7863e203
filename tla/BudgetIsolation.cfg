CONSTANTS
    NumActors = 2
    NumCalls = 3
    Limit <- MCLimit
    Maxima = {1, 2}
    Costs = {0, 1, 3}
SPECIFICATION LedgerSpec
INVARIANTS
    OthersNeverReject
CHECK_DEADLOCK FALSE
