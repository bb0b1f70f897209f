SPECIFICATION Spec
CONSTANTS
    Kinds = {"user_orders", "uprunning_orders", "user_strategies"}
    NumIds = 1
    MaxWrites = 3
    MaxSeconds = 1
    MaxStops = 2
    MaxFaults = 1
INVARIANTS
    TypeOK
    
PROPERTIES
    ReloadKeepsNewer
    IdsAreFresh
    
    
CHECK_DEADLOCK FALSE
