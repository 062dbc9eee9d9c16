SPECIFICATION SettledFairSpec
CONSTANTS
    a1 = a1
    a2 = a2
    a3 = a3
    NoServer = NoServer
    Server = {a1, a2, a3}
    InitEdges <- Chain
    InitModes <- AllSync
    Delays <- NoDelay
    CleanRestart = TRUE
    Leavers = {a1, a2}
    DeleteTries = 1
    MaxSid = 3
    MaxErrs = 0
    MaxCrashes = 1
    MaxExpiries = 1
    MaxAdmin = 0
INVARIANTS
    MasterCameFirst
PROPERTIES
    FailoverCompletes
    ExpiredStandsBy
    PromotedAfterLoss
CHECK_DEADLOCK FALSE
