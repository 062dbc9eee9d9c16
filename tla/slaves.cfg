SPECIFICATION FairSpec
CONSTANTS
    a1 = a1
    a2 = a2
    a3 = a3
    NoServer = NoServer
    Server = {a1, a2}
    InitEdges <- NoEdges
    InitModes <- A1New
    Delays <- NoDelay
    CleanRestart = TRUE
    Leavers = {}
    DeleteTries = 1
    MaxSid = 2
    MaxErrs = 0
    MaxCrashes = 0
    MaxExpiries = 0
    MaxAdmin = 3
INVARIANTS
    AliveMeansActive
PROPERTIES
    SlaveFollowed
CHECK_DEADLOCK FALSE
