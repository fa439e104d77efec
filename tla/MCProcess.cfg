\* Three processes, a list that can be full, fairness.
SPECIFICATION FairSpec
CONSTANTS
    PLIST_SIZE = 2
    MaxTid = 5
    Status = {0, 7}
    WaitPolicy = "once"
    InitStays = TRUE
INVARIANT ArgumentsInUse
INVARIANT ExecuteTellsTruth
INVARIANT EntriesKept
INVARIANT StatusDelivered
PROPERTY ImplementsLife
PROPERTY ProcessCallsReturn
