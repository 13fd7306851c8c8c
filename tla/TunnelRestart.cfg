CONSTANTS
    Systems = {"linux"}
    Addresses = {a1, a2}
    NoAddress = NoAddress
    StateCap = 8
    MaxLate = 1
    MaxUnread = 1
SPECIFICATION Spec
INVARIANTS
    StaleRoutesCleaned
