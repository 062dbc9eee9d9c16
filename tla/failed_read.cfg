SPECIFICATION SettledSpec
CONSTANTS
    a1 = a1
    a2 = a2
    a3 = a3
    NoServer = NoServer
    Server = {a1, a2, a3}
    InitEdges <- SlaveOfA1
    InitModes <- AllSync
    Delays <- NoDelay
    CleanRestart = TRUE
    Leavers = {a3}
    DeleteTries = 1
    MaxSid = 3
    MaxErrs = 1
    MaxCrashes = 0
    MaxExpiries = 0
    MaxAdmin = 0
PROPERTIES
    PromotedAfterLoss
CHECK_DEADLOCK FALSE
