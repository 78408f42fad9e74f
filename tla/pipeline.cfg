SPECIFICATION Spec
CONSTANTS
    Packet <- MCPackets
    Addr <- MCAddr
    Iface = {"lan0", "wan0"}
    LocalIps = {"own"}
    LanIfaces = {"lan0"}
    DnatRules <- MCDnat
    ZoneLists <- MCZones
    ZoneMax = 2
    Rule = {"web"}
    Matches <- MCMatches
    Configs <- MCConfigs
    Sources <- MCSources
    Flows <- MCFlows
    EgressOf <- MCEgressOf
    OwnFlows = {}
VIEW WithoutLast
CHECK_DEADLOCK FALSE
INVARIANTS
    TypeOK
    TrackedWasAllowed
PROPERTIES
    UntornFollowsPolicy
    BlockedStaysOut
    TrackedPasses
