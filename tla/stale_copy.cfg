SPECIFICATION Spec
CONSTANTS
    a1 = a1
    a2 = a2
    a3 = a3
    NoServer = NoServer
    Server = {a1, a2}
    InitEdges <- SlaveOfA1
    InitModes <- A1Async
    Delays <- NoDelay
    CleanRestart = TRUE
    Leavers = {a1}
    DeleteTries = 1
    MaxSid = 3
    MaxErrs = 0
    MaxCrashes = 0
    MaxExpiries = 0
    MaxAdmin = 0
INVARIANTS
    DeregisteredIsNotMaster
CHECK_DEADLOCK FALSE
