CONSTANTS
    WriteAttempts = 3
    Writer <- MCOwner
    WriteKey <- MCWriteKey
    Content <- MCContent
    Size <- MCSize
    Roster = {"a", "b"}
    NoKey = "none"
    MaxArtifact = 2
    MaxActor = 2
    MaxCampaign = 4
    ToolCalls = {c1, c2}
    Requests <- MCRequests
    NoRequest = NoRequest
    Visibility = "shared"
    Readers = {"b"}
    MaxStoreFaults = 1
    Posters = {"a", "b"}
    Words = {"x", "y"}
    BoardSize = 3
    PageSize = 1
    Solo = "a"
    Crew = {"a", "b"}
    HiddenPhases <- MCHiddenPhases
    MaxPilotFaults = 4
    CrewSize = 2
    Callers = {h1, h2}
    MaxSessionFaults = 3
    Blocks = 1
    ConditionOrder <- MCConditionOrder
    OrganisationSize = 2
    StudyJobs = 1
    SourceVersions = {"v1", "v2"}
    FileVersions = {"m1", "m2"}
    PinnedVersion = "m1"
    Unwritten = Unwritten
    MaxCommands = 3
    MaxEdits = 2
SYMMETRY CallSymmetry
SPECIFICATION WorldSpec
INVARIANTS
    StoreIsSound
    BoundIsAttached
    PagesAreExact
    NothingLeaks
    NoCallOutlives
    PhasesAreEarned
    CompleteIsClosed
    AbortIsTold
    AuditStands
PROPERTIES
    ImplementsPublication
CHECK_DEADLOCK FALSE
