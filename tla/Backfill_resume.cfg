SPECIFICATION FairSpec
CONSTANTS
    N = 5
    Group <- FullPages
    PageSize = 2
    Connectors = {"record", "offset", "page"}
    BatchSize = 2
    MaxStops = 3
INVARIANTS
    WorkAtRisk
PROPERTIES
    TokenAdvances
    ImplementsCopy
    EventuallyCompleted
