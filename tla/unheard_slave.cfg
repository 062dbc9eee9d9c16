SPECIFICATION FairSpec
CONSTANTS
    a1 = a1
    a2 = a2
    a3 = a3
    NoServer = NoServer
    Server = {a1, a2}
    InitEdges <- NoEdges
    InitModes <- AllNew
    Delays <- NoDelay
    CleanRestart = TRUE
    Leavers = {}
    DeleteTries = 1
    MaxSid = 2
    MaxErrs = 0
    MaxCrashes = 0
    MaxExpiries = 0
    MaxAdmin = 1
PROPERTIES
    SlaveHeard
CHECK_DEADLOCK FALSE
