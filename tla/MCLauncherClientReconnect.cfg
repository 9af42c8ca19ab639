SPECIFICATION Spec
CONSTANTS
    f1 = f1
    f2 = f2
    d1 = d1
    d2 = d2
    Main = main
    Procs = {p1}
    Paths = {f1, f2}
    Data = {d1, d2}
    Hole = hole
    NoPath = NoPath
    Disks <- Longers
    ServerDirs <- Twice
    Faults = {"close", "address", "server"}
    MaxAttempts = 2
    MaxConnects = 2
CHECK_DEADLOCK FALSE
INVARIANTS
    RequestInOnePlace
    LayoutRequestServed
    SynchronizedTruly
