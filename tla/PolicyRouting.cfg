CONSTANTS
    Dests = {d1, d2}
    N = 2
    Modes = {"ecmp", "transit", "sticky"}
    Flows = {f1}
    FlowDst <- MCFlowDst
    MaxCrashes = 2
SPECIFICATION Spec
INVARIANTS
    TypeOK
    TeardownUndoes
    Protected
    DirectHonoured
PROPERTIES
    FlowPinned
