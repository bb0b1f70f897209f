SPECIFICATION Spec
CONSTANTS
    Rules = {1}
    InitialRules = {1}
    SignalRules = {}
    DefaultBatches = {}
    Condition <- MCConditionOne
    Target <- MCTargetOne
    HalfRules = {}
    Venues = {"binance"}
    NumPositions = 2
    PosQty = 1
    MaxOrders = 2
    Outcomes = {}
    MaxRequests = 0
    MaxFaults = 1
INVARIANT
    NoDuplicateTrigger
CHECK_DEADLOCK FALSE
