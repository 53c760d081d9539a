SPECIFICATION FairSpec
CONSTANTS
    conflict = conflict
    meta = meta
    Classes <- BothClasses
    Definitions <- AllVersions
    Precursors <- OldAndNew
    WithAnalogues <- JustConflict
    MaxWorkers = 1
    MaxFaults = 1
INVARIANTS
    MissingOnlyIfNotAsked
PROPERTIES
    StampMeansWhole
    SilentMeansWhole
    EventuallyWhole
