SPECIFICATION FairSpec
CONSTANTS
    e1 = e1
    e2 = e2
    Workers = {w1}
    mainThread = main
    retryThread = retry
    AcceptEvents = {e1}
    IoIds = {0}
    HomePool <- OnePool
    InitialAccepts = 1
    MAX_RETRY = 2
PROPERTIES
    CloseReturns
CHECK_DEADLOCK FALSE
