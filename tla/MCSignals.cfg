SPECIFICATION Spec
CONSTANTS
    Handlers = {"h1", "h2"}
    Actions = {"sell_close", "reverse_short"}
    AgentSides = {0}
    PosTypes = {"futures", "options"}
    Parts = 1
    PollLimit = 2
    MaxSignals = 3
    MaxOrders = 2
    MaxFaults = 1
INVARIANTS
    TypeOK
    PartsRespected
    
PROPERTIES
    ReverseClosesFirst
    CloseTakesEffect
CHECK_DEADLOCK FALSE
