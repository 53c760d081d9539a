SPECIFICATION FairSpec
CONSTANTS
    t1 = t1
    t2 = t2
    Threads <- ThreadSet
    Capacity = 2
    Refill = 1
    Costs <- CostSet
    Patience <- PatienceSet
    MaxRetries = 1
    BaseTicks = 1
    MaxTicks = 2
    MaxRequests = 2
INVARIANTS
    SendsBounded
    PaidAfterDrain
PROPERTIES
    ImplementsBudget
    RequestEnds
