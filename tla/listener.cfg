SPECIFICATION FairSpec
CONSTANTS
    e1 = e1
    e2 = e2
    Workers = {w1, w2}
    mainThread = main
    retryThread = retry
    AcceptEvents = {e1, e2}
    IoIds = {0, 1}
    HomePool <- TwoPools
    InitialAccepts = 1
    MAX_RETRY = 2
INVARIANTS
    OneOwner
PROPERTIES
    WaitTrueIsFinal
    EventsComeBack
CHECK_DEADLOCK FALSE
