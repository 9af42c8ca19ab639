SPECIFICATION FairSpec
CONSTANTS
    Window = window
    Updater = updater
    Preparer = preparer
    Nobody = nobody
    Capacity = 12
    Faults = {"prepare", "address", "refuse", "close", "start", "stop", "exit", "profile"}
    MaxRequests = 2
    MaxConnects = 2
INVARIANTS
    TypeOK
    LastRequestHeeded
    NoPhantomRun
    ButtonsFit
    PreparedWhenAsked
PROPERTIES
    StatusCatchesUp
    RequestsHandled
