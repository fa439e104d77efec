CONSTANTS
    Word = 32
    PGSIZE = 4
    PHYS_BASE = 24
    TableSpan = 2
    Files <- MCFiles
    Nul <- MCNul
    UserFrames = 5
    KernelFrames = 4
SPECIFICATION Spec
INVARIANTS
    ImageRight
    AddressesChecked
PROPERTIES
    NoFrameLost
CHECK_DEADLOCK FALSE
