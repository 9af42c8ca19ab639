SPECIFICATION Spec
CONSTANTS
    Conns = {c1, c2}
    NoConn = NoConn
    Happens = {"remote"}
    MaxMessages = 1
INVARIANTS
    SyncDecided
