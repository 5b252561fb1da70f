SPECIFICATION ReadSpec
CONSTANTS
    p1 = p1
    p2 = p2
    garbled = garbled
    NoSnapshot = NoSnapshot
    NoElements = NoElements
    Process <- MCOneProcess
    Object <- MCTwoObjects
    Featured <- MCFeaturedFirst
    Orbit <- MCOrbits
    Garbled <- MCGarbled
    EpochStep <- MCNewer
    kGpBatchSize = 2
    kGpMaxHotSlots = 1
    MaxElementSets = 2
    MaxHits = 0
    MaxFaults = 2
    c1 = c1
    Client <- MCClient
    NotAsking = NotAsking
INVARIANTS
    TypeOK
    ReportLossBounded
    DedupSufficient
    NotFoundWasTrue
PROPERTIES
    ImplementsEventHistory
