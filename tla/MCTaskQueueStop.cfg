SPECIFICATION FairSpec
CONSTANTS
    Procs = {p1}
    Owner = owner
    Tasks = {t1}
    NoTask = NoTask
    MaxStarts = 1
PROPERTIES
    StopReturns
CHECK_DEADLOCK FALSE
