\* Three threads; removing alone; a disk that can be full, a directory that can be.
SPECIFICATION Spec
CONSTANTS
    Thread = {t1, t2, t3}
    NoThread = NoThread
    Name = {kalle, nisse}
    BadName = {}
    Size = {1, 3}
    DiskSize = 6
    DirSize = 2
    MaxInodes = 4
    MaxFiles = 2
    MallocFails = FALSE
    RemoveAlone = TRUE
SYMMETRY Symmetry
INVARIANT OpenInodesCounted
INVARIANT SectorsOwnedOnce
INVARIANT RemovedIffUnlisted
INVARIANT OpensNamedFile
PROPERTY EntriesStay
