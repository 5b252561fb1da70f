SPECIFICATION Spec
CONSTANTS
    p1 = p1
    p2 = p2
    garbled = garbled
    NoSnapshot = NoSnapshot
    NoElements = NoElements
    Process <- MCTwoProcesses
    Object <- MCOneObject
    Featured <- MCNone
    Orbit <- MCOrbits
    Garbled <- MCGarbled
    EpochStep <- MCNewerOrEqual
    kGpBatchSize = 1
    kGpMaxHotSlots = 0
    MaxElementSets = 3
    MaxHits = 0
    MaxFaults = 1
SYMMETRY MCSymmetry
INVARIANTS
    EventsJustified
    NoDuplicateEvents
    AnsweredIsStored
PROPERTIES
    ReadsNeverGoBack
    RunComesToItsEnd
