CONSTANTS
    Procs = {p1, p2}
    Names = {a, b}
    Size = 5
    Gateway = 1
    MaxKeys = 3
SPECIFICATION Spec
INVARIANTS
    FileUnique
    PeersServed
