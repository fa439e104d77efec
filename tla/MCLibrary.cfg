CONSTANTS
    List = {A, B}
    Elem = {x1, x2, x3}
    Keys = {1, 2, 3}
    HashElem = {1, 2, 3, 4, 5, 6, 7}
    KeyOf <- MCKeyOf
    HashOf <- MCHashOf
    MIN_BUCKETS = 1
    BEST_ELEMS_PER_BUCKET = 1
    Process = {p1, p2}
    File = {x1, x2, x3}
    NULL = NULL
    MAP_SIZE = 4
    START_POSITION = 2
    Fds <- MCFds
    Length = 1
    Sizes = {2}
    Offsets <- MCOffsets
    Bits = 4
    ELEM_BITS = 3
    StackPage = 40
    COL_CNT = 9
    ROW_CNT = 2
    BufSize = 12
    TickBits = 3
    WordBits = 8
    Kilo = 10
    MaxPolls = 3
    Byte = 4
    TableSize = 4
    DISK_SECTOR_SIZE = 2
    Inputs <- MCInputs
SPECIFICATION MCSpec
SYMMETRY MCSymmetry
INVARIANTS
    ListsAreSequences
    TableIsSet
    LibraryComputes
PROPERTIES
    FilesTracked
CHECK_DEADLOCK FALSE
