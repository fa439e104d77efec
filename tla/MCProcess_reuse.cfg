\* Four processes over three entries: entries change hands.
SPECIFICATION Spec
CONSTANTS
    PLIST_SIZE = 3
    MaxTid = 6
    Status = {7}
    WaitPolicy = "once"
    InitStays = TRUE
INVARIANT PointersCurrent
