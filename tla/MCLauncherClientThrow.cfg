SPECIFICATION Spec
CONSTANTS
    f1 = f1
    f2 = f2
    d1 = d1
    d2 = d2
    Main = main
    Procs = {p1}
    Paths = {f1, f2}
    Data = {d1, d2}
    Hole = hole
    NoPath = NoPath
    Disks <- Sames
    ServerDirs <- Once
    Faults = {"close"}
    MaxAttempts = 1
    MaxConnects = 1
CHECK_DEADLOCK FALSE
INVARIANTS
    UpdateNeverThrows
