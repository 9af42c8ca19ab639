SPECIFICATION Spec
CONSTANTS
    Conns = {c1, c2}
    NoConn = NoConn
    Happens = {"late"}
    MaxMessages = 1
INVARIANTS
    ClosedIsTold
