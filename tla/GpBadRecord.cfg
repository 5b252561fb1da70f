SPECIFICATION FairSpec
CONSTANTS
    p1 = p1
    p2 = p2
    garbled = garbled
    NoSnapshot = NoSnapshot
    NoElements = NoElements
    Process <- MCOneProcess
    Object <- MCFourObjects
    Featured <- MCFeaturedFirst
    Orbit <- MCQuietOrbit
    Garbled <- MCGarbled
    EpochStep <- MCNewer
    kGpBatchSize = 2
    kGpMaxHotSlots = 0
    MaxElementSets = 1
    MaxHits = 0
    MaxFaults = 0
PROPERTIES
    BatchNotStuck
