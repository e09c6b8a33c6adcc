SPECIFICATION FairSpec
CONSTANTS
    w1 = w1
    w2 = w2
    main = main
    Producers = {w1, w2}
    Sessions = {1, 2}
    Emitters <- BoundEmitters
    Capacity = 2
    MessageOnly = TRUE
    MaxEvents = 4
INVARIANTS
    ReportAccountsForAll
    AllJudgedCoversLatest
PROPERTIES
    QuitEnds
CHECK_DEADLOCK FALSE
