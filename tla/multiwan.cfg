SPECIFICATION Spec
CONSTANTS
    wan0 = wan0
    wan1 = wan1
    lan0 = lan0
    NoWan = NoWan
    Wans <- Links
    Groups <- TwoGroups
    PbrRules <- Rules
    Spares <- AnySpare
    IpMayFail = TRUE
    Faults = 3
PROPERTIES
    MovesOnlyWhileOnline
    PbrSettles
