SPECIFICATION FairSpec
CONSTANTS
    Orders = {o1}
    Venues = {"deribit", "hyperliquid"}
    CreateAttempts = 2
    WsNotifyAttempts = 2
    OrderQty = 2
    FaultKinds = {"create", "event", "replay", "rest"}
    MaxFaults = 1
    MaxCloses = 1
INVARIANT
    FilledHasPosition
PROPERTIES
    FillIsRecorded
    CancelIsReported
CHECK_DEADLOCK FALSE
