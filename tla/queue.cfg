SPECIFICATION FairSpec
CONSTANTS
    Threads = {t1, t2, t3}
    Items = {a, b}
    m_capacity = 2
    MaxPushes = 3
INVARIANTS
    DeliveredInOrder
    Conservation
    NoLostWakeup
PROPERTIES
    CloseReleasesWaiters
    ImplementsChannel
