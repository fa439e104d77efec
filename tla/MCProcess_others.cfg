\* Programs wait for any number.
SPECIFICATION Spec
CONSTANTS
    PLIST_SIZE = 2
    MaxTid = 5
    Status = {7}
    WaitPolicy = "any"
    InitStays = TRUE
INVARIANT OtherWaitReturns
