CONSTANTS
    Kinds = {"tunnel", "badpsk", "probe"}
    Units = {"v2", "w"}
    Chunks <- MCChunks
    HeaderLen = 2
    MaxUnits = 3
    MaxFlight = 2
SPECIFICATION FairSpec
INVARIANTS
    Agreement
    StreamIntact
    WalInOrder
PROPERTIES
    HandshakeEnds
    Delivered
CHECK_DEADLOCK FALSE
