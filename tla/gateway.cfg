SPECIFICATION FairSpec
CHECK_DEADLOCK FALSE
CONSTANTS
    r1 = r1
    r2 = r2
    r3 = r3
    d1 = d1
    d2 = d2
    cl1 = cl1
    Requests <- ThreeRequests
    Clients <- OneClient
    Docs <- TwoDocs
    Limit = 1
    Window = 2
    MaxTime = 2
    SharedLimiter = TRUE
INVARIANTS GatewayInv UnderTwiceTheLimit OnlyFullWindowsReject LastAnswerStands
PROPERTY AnswersInTime
