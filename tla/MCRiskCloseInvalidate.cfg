SPECIFICATION Spec
CONSTANTS
    Rules = {1, 2}
    InitialRules = {1}
    SignalRules = {2}
    DefaultBatches = {}
    Condition <- MCConditionSame
    Target <- MCTargetTwo
    HalfRules = {}
    Venues = {"binance"}
    NumPositions = 1
    PosQty = 1
    MaxOrders = 1
    Outcomes = {}
    MaxRequests = 2
    MaxFaults = 0
PROPERTY
    InvalidateSparesInUse
CHECK_DEADLOCK FALSE
