SPECIFICATION Spec
CONSTANTS
    Log <- MCLog
    Configs <- MCConfigs
    Tries = 2
    Renewals = 2
CHECK_DEADLOCK FALSE
INVARIANTS
    TypeOK
    
    NoneTwice
PROPERTIES
    AlertsHeard
