SPECIFICATION RingSpec
CONSTANTS
    m_ullCapacity = 5
    MaxBytes = 11
INVARIANTS
    BytesInOrder
CHECK_DEADLOCK FALSE
