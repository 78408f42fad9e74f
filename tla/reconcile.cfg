SPECIFICATION RFairSpec
CONSTANTS
    A = A
    B = B
    a1 = a1
    a2 = a2
    b1 = b1
    Ip <- Addresses
    Endpoint <- Endpoints
    IpOf <- AddressOf
    Flows <- OneTcp
    MaxConns <- LimitA1
    MaxHalfOpen = 1
    CtMaxEntries = 3
    CountMaxEntries = 1
    NeverExpires = {}
    WanEgress <- OutsideA
    DNAT_RULES <- NoDnat
    AlgKeys <- NoAlg
    TcpFlags <- Segments
CHECK_DEADLOCK FALSE
INVARIANTS
    RTypeOK
PROPERTIES
    ExpiredIsCollected
    QuietPassRecounts
    LeakedUnitsReturn
    CountersDrain
