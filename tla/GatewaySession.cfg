CONSTANTS
    QueueCap = 1
    DeadMisses = 4
    MuxTimeout = 6
    ReadTimeout = 12
SPECIFICATION FairSpec
INVARIANTS
    MissesAreReal
    DetectedIfWritable
PROPERTIES
    SessionEnds
