CONSTANTS
    t1 = t1
    t2 = t2
    NumActors = 2
    NumCalls = 2
    Limit <- MCLimit
    Maxima = {1}
    Costs = {1, 2}
    Tokens = {t1, t2}
    TokenActor <- MCTokenActor
    LedgerMayFail = TRUE
    MaxCrashes = 1
SPECIFICATION FairSpec
INVARIANTS
    OnlyAbandonedStayActive
    BillIsCovered
    ValidMeansExact
    OverspendIsExcess
PROPERTIES
    LedgerQuietAfterRevoke
    WaitersReturn
CHECK_DEADLOCK FALSE
