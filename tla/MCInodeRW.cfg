\* Three threads, memory may run out.
SPECIFICATION FairSpec
CONSTANTS
    t1 = t1
    t2 = t2
    t3 = t3
    NoThread = NoThread
    Thread <- MCThread
    SectorSize = 2
    Length = 3
    Byte = {1}
    Span <- MCSpan
    MallocFails = TRUE
INVARIANT Exclusive
INVARIANT LockOnlyWhenEmpty
PROPERTY ImplementsAtomicFile
PROPERTY OperationsReturn
