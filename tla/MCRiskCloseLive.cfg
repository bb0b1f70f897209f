SPECIFICATION FairSpec
CONSTANTS
    Rules = {1, 2, 3}
    InitialRules = {}
    SignalRules = {1}
    DefaultBatches <- MCBatches
    Condition <- MCCondition
    Target <- MCTarget
    HalfRules = {}
    Venues = {"binance"}
    NumPositions = 1
    PosQty = 1
    MaxOrders = 1
    Outcomes = {"filled"}
    MaxRequests = 1
    MaxFaults = 1
INVARIANT
    InUseHasOrder
PROPERTIES
    FilledIsClosed
    OrphansAreClosed
CHECK_DEADLOCK FALSE
