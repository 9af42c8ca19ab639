SPECIFICATION Spec
CONSTANTS
    Conns = {c1, c2}
    NoConn = NoConn
    Happens = {"stop"}
    MaxMessages = 1
INVARIANTS
    WaitLeavesNobody
