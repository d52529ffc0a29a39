SPECIFICATION AnswersSpec
CONSTANTS
    None = None
    v1 = v1
    v2 = v2
    v3 = v3
    drift = drift
    Names <- TheNames
    Codes = {1, 2, 4}
    OwnName <- TheOwnName
    NameParts <- TheNameParts
    Worlds <- TheWorlds
    Requests <- TheRequests
    MaxSteps = 6
    Sites <- TheSites
    HealthySites <- TheHealthySites
    Asked <- TheAsked
    Snapshots <- TheSnapshots
    DaySeconds = 86400
    RecentLimit = 2
    ActiveLimit = 2
CHECK_DEADLOCK FALSE
INVARIANTS
    RightBuild
    
    HealthyServes
    SnapshotAgrees
    PercentilesOrdered
    ListingTrue
    NothingUnlisted
PROPERTIES
    CompletionSettled
