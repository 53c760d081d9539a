SPECIFICATION FairSpec
CONSTANTS
    Keys = {"a", "b", "c"}
    Revised = {"a", "b"}
    Payloads = {"x", "y"}
    Workers = {"w1", "w2"}
    Owner <- TwoOwners
    Repeats = {}
    MaxRevisions = 1
    MaxAborts = 1
INVARIANTS
    OneActivePerKey
PROPERTIES
    ImplementsMirror
    RepeatWritesNothing
    Converges
