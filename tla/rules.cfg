SPECIFICATION Spec
CONSTANTS
    Modes <- MCModes
    RulesOf <- MCRulesOf
    KeyOf <- MCKeyOf
    MaxId = 2
    CustomIds = {1}
    Task = {t1, t2}
    r1 = r1
    r2 = r2
    r3 = r3
    Seed <- OneRule
    Slots = 1
SYMMETRY Interchangeable
INVARIANTS
    TypeOK
    IdsUnique
    RowsAgree
    CalmAgree
    CalmUnique
