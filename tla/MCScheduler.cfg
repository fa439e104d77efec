CONSTANTS
    w1 = w1
    w2 = w2
    Main = main
    Idle = idle
    Thread = {main, idle, w1, w2}
    Nobody = Nobody
    Calls <- MCCalls
    TimeSlice = 2
    SleepTime = 1
    MaxItems = 2
    ForceOff = FALSE
SPECIFICATION Spec
INVARIANTS
    OneQueue
    AssertionsHold
    AddressSpace
    NoItemStranded
    DiskServesCaller
    PowerOffWaits
PROPERTIES
    RoundRobin
CHECK_DEADLOCK FALSE
