SPECIFICATION Spec
CONSTANTS
    Rates = {1, 5}
    Bursts = {1, 3}
    Costs = {1, 2}
    Second = 2
    Window = 4
    Word = 8
    LongWord = 16
    MaxTime = 6
CHECK_DEADLOCK FALSE
INVARIANTS
    TypeOK
    TokensFit
    RateHolds
