\* Removing while others are in the file system.
SPECIFICATION Spec
CONSTANTS
    Thread = {t1, t2}
    NoThread = NoThread
    Name = {kalle, nisse}
    BadName = {}
    Size = {1}
    DiskSize = 6
    DirSize = 2
    MaxInodes = 4
    MaxFiles = 2
    MallocFails = FALSE
    RemoveAlone = FALSE
SYMMETRY Symmetry
INVARIANT NoDeadlock
