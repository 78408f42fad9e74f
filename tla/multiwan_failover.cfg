SPECIFICATION Spec
CONSTANTS
    wan0 = wan0
    wan1 = wan1
    lan0 = lan0
    NoWan = NoWan
    Wans <- Links
    Groups <- OneGroup
    PbrRules <- OneRule
    Spares <- NoSpare
    IpMayFail = FALSE
    Faults = 1
PROPERTIES
    FailsOver
