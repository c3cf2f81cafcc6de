SPECIFICATION Spec
CONSTANTS
    Rpc = {c1, a1, a2}
    Connects = {c1}
    Remote = {x, y}
    Any = Any
    NoOne = NoOne
    c1 = c1
    a1 = a1
    a2 = a2
    x = x
    y = y
INVARIANTS
    TypeOK
    WaitingIsReachable
    ServedIsReachable
    ConnectCleansUp
CHECK_DEADLOCK FALSE
