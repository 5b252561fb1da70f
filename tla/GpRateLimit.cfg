SPECIFICATION Spec
CONSTANTS
    p1 = p1
    p2 = p2
    Never = Never
    Process <- MCProcess
    Hour = 4
    SatcatInterval = 8
    Tolerance = 1
    StampDelay = 1
    MaxRun = 6
    MaxTime = 18
    MaxFatal = 0
PROPERTIES
    GpRequestsAnHourApart
