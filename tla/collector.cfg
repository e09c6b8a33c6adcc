SPECIFICATION Spec
CONSTANTS
    w1 = w1
    w2 = w2
    Threads = {w1, w2}
    Sessions = {1, 2}
    Emitters <- SomeBound
    Capacity = 1
    MaxEvents = 4
    MaxTime = 1
    MaxDetach = 1
    MaxRemovals = 1
INVARIANTS
    PerSessionOrder
    AcceptedByApi
    OneSummaryPerSession
CHECK_DEADLOCK FALSE
