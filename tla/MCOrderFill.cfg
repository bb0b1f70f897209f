SPECIFICATION Spec
CONSTANTS
    Orders = {o1}
    Venues = {"binance", "deribit", "hyperliquid"}
    CreateAttempts = 2
    WsNotifyAttempts = 2
    OrderQty = 2
    FaultKinds = {"place", "create", "event", "replay", "rest", "metadata", "notify", "restart"}
    MaxFaults = 2
    MaxCloses = 1
INVARIANTS
    TypeOK
    PositionsAreBacked
    OneActivePosition
    OutcomeIsTrue
    Evidence
PROPERTY
    OutcomeIsFinal
CHECK_DEADLOCK FALSE
