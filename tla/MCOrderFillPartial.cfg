SPECIFICATION FairSpec
CONSTANTS
    Orders = {o1}
    Venues = {"binance"}
    CreateAttempts = 2
    WsNotifyAttempts = 2
    OrderQty = 2
    FaultKinds = {"event"}
    MaxFaults = 1
    MaxCloses = 0
PROPERTY
    FillIsRecorded
CHECK_DEADLOCK FALSE
