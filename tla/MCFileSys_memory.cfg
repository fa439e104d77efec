\* Memory may run out, a name may be invalid; removing alone; fairness.
SPECIFICATION FairSpec
CONSTANTS
    Thread = {t1, t2}
    NoThread = NoThread
    Name = {kalle, long}
    BadName = {long}
    Size = {0, 1}
    DiskSize = 6
    DirSize = 2
    MaxInodes = 4
    MaxFiles = 2
    MallocFails = TRUE
    RemoveAlone = TRUE
INVARIANT LocksReturned
PROPERTY CallsReturn
CHECK_DEADLOCK FALSE
