CONSTANTS
    t1 = t1
    t2 = t2
    Thread = {t1, t2}
    Nobody = Nobody
    KernelPages = 3
    UserPages = 1
    PGSIZE = 10
    ArenaSize = 1
    MinBlock = 2
    SizeMod = 32
    Requests <- MCRequests
    MaxHeld <- MCMaxHeld
SPECIFICATION Spec
INVARIANTS
    ContentsKept
    CallerServed
    BooksRight
    NoPageLost
