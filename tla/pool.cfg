SPECIFICATION FairSpec
CONSTANTS
    IoThreads = {i1, i2}
    m_i32LogicThreadCount = 2
    PoolSessions = {s1}
    Listener = listener
    MaxPosts = 2
INVARIANTS
    SessionOnOneWorker
    EachOnce
PROPERTIES
    EachIsDispatched
    StopReturns
CHECK_DEADLOCK FALSE
