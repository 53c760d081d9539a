SPECIFICATION FairSpec
CONSTANTS
    s = s
    e1 = e1
    e2 = e2
    m = m
    p = p
    q = q
    Root = Root
    Nothing = Nothing
    Series <- OneSeries
    Events <- TwoEvents
    Markets <- OneMarket
    Parent <- Tree
    Payloads <- TwoPayloads
    First = p
    MaxMoves = 2
    MaxFaults = 2
PROPERTIES
    OnwardIsKept
    SweepIsWhole
    EventuallySettled
    EventuallyInStep
