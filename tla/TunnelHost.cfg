CONSTANTS
    Systems = {"linux", "darwin"}
    Addresses = {a1, a2}
    NoAddress = NoAddress
    StateCap = 8
    MaxLate = 1
    MaxUnread = 1
SPECIFICATION FairSpec
INVARIANTS
    TypeOK
    NoLoop
    NoDoubleClose
PROPERTIES
    QuitCleans
    QuitEnds
