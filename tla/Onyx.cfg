SPECIFICATION OnyxSpec
CONSTANTS
    a = a
    b = b
    c1 = c1
    c2 = c2
    u1 = u1
    u2 = u2
    Chats <- MCChats
    MaxSends = 1
    Grace = 1
    Cancelled = FALSE
    NONE = NONE
    MaxPackets = 4
    Calls <- MCCalls
    Urls <- MCUrls
    Workers <- MCWorkers
    Pool = 1
    Slots = 1
    Budget = 2
    Attempt = 1
    Headroom = 1
    Crawls = {1, 2}
    MaxVersion = 2
    MaxFaults = 1
INVARIANTS
    PageSafe
    GenerationIsContinued
    ReadsSound
    FreshnessSound
PROPERTIES
    NothingAfterwards
    ReloadsInOrder
    RecoveryEnds
    AnswersSettle
    EditIsIndexed
CHECK_DEADLOCK FALSE
