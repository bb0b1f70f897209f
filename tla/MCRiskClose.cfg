SPECIFICATION Spec
CONSTANTS
    Rules = {1, 2}
    InitialRules = {1, 2}
    SignalRules = {}
    DefaultBatches = {}
    Condition <- MCConditionTwo
    Target <- MCTargetTwo
    HalfRules = {1}
    Venues = {"deribit"}
    NumPositions = 1
    PosQty = 2
    MaxOrders = 2
    Outcomes = {"filled", "short"}
    MaxRequests = 0
    MaxFaults = 0
INVARIANTS
    TypeOK
    BooksCoverExchange
CHECK_DEADLOCK FALSE
