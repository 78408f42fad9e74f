SPECIFICATION LSpec
VIEW WithoutQuiet
CONSTANTS
    A = A
    B = B
    a1 = a1
    a2 = a2
    b1 = b1
    Ip <- Addresses
    Endpoint <- Endpoints
    IpOf <- AddressOf
    Flows <- TwoTcp
    MaxConns <- LimitA1
    MaxHalfOpen = 1
    CtMaxEntries = 2
    CountMaxEntries = 1
    NeverExpires <- Answered
    WanEgress <- OutsideA
    DNAT_RULES <- PortFwd
    AlgKeys <- AlgFtp
    TcpFlags <- Handshake
CHECK_DEADLOCK FALSE
INVARIANTS
    TypeOK
    FlagsFitState
    CountersCoverFlows
    LimitsHold
PROPERTIES
    SettledStaysSettled
    ConnsAreAdmitted
    HalfOpenAreAdmitted
