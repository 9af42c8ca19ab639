SPECIFICATION FairSpec
CONSTANTS
    Conns = {c1, c2}
    NoConn = NoConn
    Happens = {"remote", "stop", "between", "late", "thread"}
    MaxMessages = 2
INVARIANTS
    TypeOK
    ThreadsGone
    CallbacksInOrder
    ToldUnlessLate
PROPERTIES
    ClosedIsRemoved
    WaitReturns
