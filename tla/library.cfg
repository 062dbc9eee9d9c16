SPECIFICATION Spec
CONSTANTS
    a1 = a1
    a2 = a2
    Server = {a1, a2}
    Thread <- Threads
    Callback <- Callbacks
    MaxErrs = 1
    Plans <- RaceOrCall
INVARIANTS TypeOK HandleMeansTree RefusedAtMostThrice SomeoneConnects CalledIsSet DisconnectedStandsBy
PROPERTY CallbackReturns
CHECK_DEADLOCK FALSE
