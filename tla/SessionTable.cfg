CONSTANTS
    Sessions = {s1, s2}
    Tokens = {t1, t2}
    Preferred <- MCPreferred
    Size = 8
    ServerIP = 1
    None = None
SPECIFICATION FairSpec
INVARIANTS
    PoolMatchesTable
    IndexesAgree
    HeldByRunning
    AssignResponseFirst
PROPERTIES
    StickyAddress
    ImplementsLease
    HalfOpenReaped
    SupersededEnds
    DispatcherProgress
CHECK_DEADLOCK FALSE
