SPECIFICATION FSpec
CONSTANTS
    Bits = 2
    MaxRange = 3
    MaxTuples = 14
    Headers <- MCHeaders
    Companions <- MCCompanions
    Flows <- MCFlows
INVARIANTS
    FilterIsExact
