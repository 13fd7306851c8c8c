CONSTANTS
    N = 1
    Modes = {"ecmp"}
    EventsCap = 1
    None = None
SPECIFICATION FairSpec
PROPERTIES
    Rejoins
