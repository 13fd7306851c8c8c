CONSTANTS
    N = 2
    Modes = {"sticky", "standby"}
    EventsCap = 1
    None = None
SPECIFICATION FairSpec
INVARIANTS
    NoLostChange
    HealthyIsServed
    RoutedIsUsable
PROPERTIES
    RouteSettles
    PrimaryKept
    RejoinsUnlessAbandoned
