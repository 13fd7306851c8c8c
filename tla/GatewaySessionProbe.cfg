CONSTANTS
    QueueCap = 1
    DeadMisses = 4
    MuxTimeout = 10
    ReadTimeout = 20
SPECIFICATION Spec
INVARIANTS
    Detected
