SPECIFICATION Spec
CONSTANTS
    f1 = f1
    f2 = f2
    d1 = d1
    d2 = d2
    Main = main
    Procs = {p1, p2}
    Paths = {f1, f2}
    Data = {d1, d2}
    Hole = hole
    NoPath = NoPath
    Disks <- NoneThere
    ServerDirs <- Once
    Faults = {}
    MaxAttempts = 1
    MaxConnects = 1
INVARIANTS
    NothingFails
