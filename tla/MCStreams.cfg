SPECIFICATION MCSpec
CONSTANTS
    DeribitUsers = {"d"}
    BinanceUsers = {"b"}
    Options = {"o1", "o2"}
    MaxTries = 2
    MaxRuntimes = 3
    MaxReloads = 1
    MaxBreaks = 1
    MaxFaults = 2
INVARIANTS
    TypeOK
    OneAttendant
    
    RunningIsManaged
    
PROPERTIES
    ServedAgain
    
CHECK_DEADLOCK FALSE
