SPECIFICATION Spec
CONSTANTS
    a1 = a1
    a2 = a2
    a3 = a3
    Server = {a1, a2, a3}
    NoServer = NoServer
    Endpoint <- Endpoints
    Cipher <- Ciphers
    StrLen <- LikeLengths
    Interfaces <- OneEach
    Recorded = {a1, a2, a3}
    BufferLen = 100
    FileWidth = 6
    Log <- Places
    Calls <- A1Served
    MaxCalls <- Twice
    MaxErrs = 0
INVARIANT ReadsAll
CHECK_DEADLOCK FALSE
