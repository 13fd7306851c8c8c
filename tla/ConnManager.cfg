CONSTANTS
    Conns = {c1, c2, c3, c4}
    InitialBackoff = 1
    MaxBackoff = 30
    None = None
SPECIFICATION FairSpec
INVARIANTS
    NoLeakedConn
PROPERTIES
    CloseReturns
    ReconnectEnds
CHECK_DEADLOCK FALSE
