SPECIFICATION FairSpec
CONSTANTS
    Ip = {i, j}
    Caller = {api, suri}
    Client = {api}
    Seconds = {1}
    MaxTime = 2
    BlockedMax = 1
    DbMayFail = TRUE
CHECK_DEADLOCK FALSE
INVARIANTS
    TypeOK
    PlacesAgree
PROPERTIES
    BlocksSurviveRestart
    ExpiredBlockEnds
