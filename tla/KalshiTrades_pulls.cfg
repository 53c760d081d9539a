SPECIFICATION TradesFairSpec
CONSTANTS
    MaxTrades = 5
    PageSize = 2
    MaxFaults = 2
PROPERTIES
    CleanPullHasNoGap
    EventuallyStoredOrPassed
