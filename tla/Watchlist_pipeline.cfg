SPECIFICATION FairSpec
CONSTANTS
    mapped = mapped
    auto = auto
    ticker = ticker
    None = None
    Polymarket <- MappedAndAuto
    Kalshi <- NoTicker
    OperatorMapped <- MappedOnly
    MaxTs = 2
    MaxComparisons = 1
    MaxAnalyses = 1
    MaxFaults = 1
INVARIANTS
    ExpiredMeansResolved
PROPERTIES
    WatermarkCovers
    ImplementsLifecycle
    EventuallyLinked
    EventuallyExpired
