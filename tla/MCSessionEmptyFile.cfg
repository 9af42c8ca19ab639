SPECIFICATION SessionSpec
CONSTANTS
    f1 = f1
    f2 = f2
    f3 = f3
    d1 = d1
    d2 = d2
    Main = main
    Procs = {p1}
    LauncherMain = lmain
    LauncherProcs = {l1}
    Paths = {f2, f3}
    Data = {d1}
    Hole = hole
    NoPath = NoPath
    LauncherFaults <- DiskFaults
    ServerDir <- EmptyFile
    ClientDirs <- OneToDelete
    Faults <- NoFaults
    MaxInProgressFiles = 1
    MaxInProgressBlocks = 2
    MaxSyncs = 2
    NoLayout = NoLayout
INVARIANTS
    SynchronizedEndToEnd
CHECK_DEADLOCK FALSE
