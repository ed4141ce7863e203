CONSTANTS
    NoRequest = NoRequest
    Requests = {r1, r2}
    Callers = {c1, c2}
    Ppm = 100
    CasesOf <- MCCasesOf
    Rounds = 2
    Draws <- MCDraws
    TailIndex = 1
    AggregateMargin = 12
    FamilyMargin = 25
    RatesOf <- MCRatesOf
    Attainment = 50
    Guard = 1
    Headroom = 110
    Grain = 2
    ScoreInputs <- MCScoreInputs
    EvalCallers = {e1, e2}
    Entries = {x, y}
    Sealed = x
    Stock = stock
    RoleOrders <- MCRoleOrders
    PerformanceRuns = 2
    Measurements <- MCMeasurements
    StockScalars <- MCStockScalars
    MaxEvalFaults = 2
SPECIFICATION WorldSpec
INVARIANTS
    SpendBacksCalls
    VerdictsAreTrue
    ClosedIsComplete
    PlanRepaysNothing
    ScoresAreSound
    PlanIsFollowed
    UsedIsMeasured
    ReceiptsStand
PROPERTIES
    CallsReturn
    BetterScoresNoLess
    ImplementsEvaluation
CHECK_DEADLOCK FALSE
