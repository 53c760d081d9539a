SPECIFICATION FairSpec
CONSTANTS
    year = year
    quarter = quarter
    storm = storm
    quake = quake
    weather = weather
    seismic = seismic
    Runs <- BothRuns
    Resolutions <- BothResolutions
    Window <- Windows
    Classes <- BothClasses
    ClassOf <- Mapped
    MaxFaults = 3
INVARIANTS
    CompleteIsWhole
PROPERTIES
    ImplementsLedger
    EventuallyComplete
