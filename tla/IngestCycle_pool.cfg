SPECIFICATION CycleFairSpec
CONSTANTS
    acled = acled
    who_don = who_don
    Sources <- SourceSet
    Gated <- GatedSources
    Filter <- AsCoded
    Lag <- Delays
    Cadence = 1
    MaxWorkers = 2
    Conns = 2
    MaxTime = 2
    MaxFaults = 1
INVARIANTS
    WatermarkSound
    FailureIsNews
PROPERTIES
    CycleEnds
    EventuallyIngested
