SPECIFICATION Spec
CONSTANTS
    a1 = a1
    a2 = a2
    a3 = a3
    Server = {a1, a2, a3}
    NoServer = NoServer
    Endpoint <- Endpoints
    Cipher <- Ciphers
    StrLen <- Lengths
    Interfaces <- EitherWay
    Recorded = {a1, a2}
    BufferLen = 100
    FileWidth = 6
    Log <- Places
    Calls <- A1Master
    MaxCalls <- Few
    MaxErrs = 1
INVARIANTS TypeOK RecordsSurvive PointsReflectOrder FoundIfRead AnswerCovers
PROPERTY ModeKept
CHECK_DEADLOCK FALSE
