SPECIFICATION Spec
CONSTANTS
    Options = {"btc"}
    InitialRows <- MCInitialRows
    MaxQty = 2
    MaxTrades = 1
    MaxFaults = 1
INVARIANTS
    TypeOK
    QuietSyncMatches
PROPERTIES
    NeverUncovered
    OneRowPerName
    
CHECK_DEADLOCK FALSE
