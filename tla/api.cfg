SPECIFICATION ApiSpec
CONSTANTS
    QueueCapacity = 1
    MaxAttempts = 2
    Requests = {1, 2}
    Payloads <- MCPayloads
    Scores = {6, 7}
INVARIANTS
    CompleteIsOnDisk
    SlotsAreThreads
    NeverDummyInstead
PROPERTIES
    WriterEndsWithEmptyQueue
CHECK_DEADLOCK FALSE
