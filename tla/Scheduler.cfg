SPECIFICATION FairSpec
CONSTANTS
    p1 = p1
    p2 = p2
    Never = Never
    Process <- MCProcess
    Hour = 4
    SatcatInterval = 8
    Tolerance = 1
    StampDelay = 2
    MaxRun = 6
    MaxTime = 14
    MaxFatal = 1
INVARIANTS
    TypeOK
    SkipsOnlyAfterLateStamp
    PollersOnTime
    SatcatRunsAlone
PROPERTIES
    StampsApart
    StampedGpKeepsItsTurn
    StampedGpRuns
