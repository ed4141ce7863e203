CONSTANTS
    WriteAttempts = 3
    Writer <- MCOwner
    WriteKey <- MCWriteKey
    Content <- MCContent
    Size <- MCSize
    Roster = {"a", "b"}
    NoKey = "none"
    MaxArtifact = 2
    MaxActor = 2
    MaxCampaign = 4
    ToolCalls = {c1, c2}
    Requests <- MCRequests
    NoRequest = NoRequest
    Visibility = "shared"
    Readers = {"b"}
    MaxStoreFaults = 1
SYMMETRY CallSymmetry
SPECIFICATION PublicationSpec
INVARIANT AbortedIsUnwritten
CHECK_DEADLOCK FALSE
