SPECIFICATION FairSessionSpec
CONSTANTS
    f1 = f1
    f2 = f2
    f3 = f3
    d1 = d1
    d2 = d2
    Main = main
    Procs = {p1}
    LauncherMain = lmain
    LauncherProcs = {l1}
    Paths = {f1, f2, f3}
    Data = {d1, d2}
    Hole = hole
    NoPath = NoPath
    LauncherFaults <- NoFaults
    ServerDir <- MCServerDir
    ClientDirs <- AllDirs
    Faults <- NoFaults
    MaxInProgressFiles = 1
    MaxInProgressBlocks = 2
    MaxSyncs = 2
    NoLayout = NoLayout
INVARIANTS
    LayoutTrue
PROPERTIES
    LauncherKeepsPromises
    ServerKeepsPromises
    SessionFinishes
CHECK_DEADLOCK FALSE
