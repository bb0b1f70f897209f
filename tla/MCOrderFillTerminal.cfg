SPECIFICATION Spec
CONSTANTS
    Orders = {o1}
    Venues = {"hyperliquid"}
    CreateAttempts = 2
    WsNotifyAttempts = 2
    OrderQty = 2
    FaultKinds = {}
    MaxFaults = 0
    MaxCloses = 0
PROPERTY
    TerminalIsFinal
CHECK_DEADLOCK FALSE
