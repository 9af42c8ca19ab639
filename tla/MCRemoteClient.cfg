SPECIFICATION Spec
CONSTANTS
    f1 = f1
    f2 = f2
    f3 = f3
    a = a
    b = b
    c = c
    Main = main
    Procs = {p1}
    Paths = {f1, f2, f3}
    Data = {a, b, c}
    Hole = hole
    ServerDir <- MCServerDir
    ClientDirs <- AllDirs
    Faults <- AllFaults
    MaxInProgressFiles = 1
    MaxInProgressBlocks = 2
    MaxSyncs = 1
    NoLayout = NoLayout
INVARIANTS
    TypeOK
    CountersExact
    StatusMatchesTask
    ReadyMeansEqual
    BlocksStartInOrder
    StagesInOrder
    SomebodyMovesOn
CHECK_DEADLOCK FALSE
