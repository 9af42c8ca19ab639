SPECIFICATION FairSpec
CONSTANTS
    Procs = {p1, p2}
    Owner = owner
    Tasks = {t1, t2, t3}
    NoTask = NoTask
    MaxStarts = 2
INVARIANTS
    TypeOK
    EachTaskOnce
    NoLostWakeup
PROPERTIES
    NothingLost
    TaskTaken
CHECK_DEADLOCK FALSE
