SPECIFICATION PoolFairSpec
CONSTANTS
    t1 = t1
    t2 = t2
    t3 = t3
    c1 = c1
    c2 = c2
    Threads <- ThreadSet
    Conns <- ConnSet
    MaxNest = 2
CHECK_DEADLOCK FALSE
PROPERTIES
    ImplementsPermits
    AcquireEnds
