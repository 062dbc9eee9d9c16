SPECIFICATION Spec
CONSTANTS
    a1 = a1
    a2 = a2
    a3 = a3
    NoServer = NoServer
    Server = {a1, a2}
    InitEdges <- SlaveOfA1
    InitModes <- A1Either
    Delays <- NoDelay
    CleanRestart = TRUE
    Leavers = {a1}
    DeleteTries = 2
    MaxSid = 4
    MaxErrs = 0
    MaxCrashes = 1
    MaxExpiries = 0
    MaxAdmin = 0
INVARIANTS
    AtMostOneRegisteredMaster
    WatchNeverLost
    DeregisteredStaysOut
    OneZnodePerSession
PROPERTIES
    OwnsAlone
CHECK_DEADLOCK FALSE
