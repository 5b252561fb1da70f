SPECIFICATION Spec
CONSTANTS
    p1 = p1
    p2 = p2
    garbled = garbled
    NoSnapshot = NoSnapshot
    NoElements = NoElements
    Process <- MCTwoProcesses
    Object <- MCOneObject
    Featured <- MCNone
    Orbit <- MCOrbits
    Garbled <- MCGarbled
    EpochStep <- MCNewer
    kGpBatchSize = 1
    kGpMaxHotSlots = 0
    MaxElementSets = 2
    MaxHits = 0
    MaxFaults = 0
INVARIANTS
    EventsOfSuccessiveRows
