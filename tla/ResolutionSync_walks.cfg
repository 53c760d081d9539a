SPECIFICATION FairSpec
CONSTANTS
    PageSize = 2
    MaxPages = 2
    MaxBurst = 1
    MaxResolved = 5
    MaxFaults = 1
INVARIANTS
    HoleMeansCut
PROPERTIES
    ImplementsWalk
    JobEnds
    EventuallyStored
