SPECIFICATION FairSpec
CONSTANTS
    p1 = p1
    p2 = p2
    garbled = garbled
    NoSnapshot = NoSnapshot
    NoElements = NoElements
    Process <- MCTwoProcesses
    Object <- MCThreeObjects
    Featured <- MCFeaturedFirst
    Orbit <- MCQuietOrbit
    Garbled <- MCNone
    EpochStep <- MCNewer
    kGpBatchSize = 2
    kGpMaxHotSlots = 1
    MaxElementSets = 0
    MaxHits = 1
    MaxFaults = 1
INVARIANTS
    RequestBounded
    NoSlotWasted
PROPERTIES
    HotSliceAsPromised
    CursorSkipsNobody
    SweepComesCloser
    EveryObjectPolled
