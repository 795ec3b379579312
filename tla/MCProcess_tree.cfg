SPECIFICATION Spec
CONSTANTS
    nent = 5
    nnod = 3
    dirs <- MCDirs
    inodes <- MCInodes
    blocks <- MCBlocks
    BLKSIZE = 2
    NameLen = 2
    Modulus <- MCModulus
    MAX_PROCESSES = 3
    MAX_FILES = 4
    KSTACK = 4
    ArgOffset = 1
    UserRoom = 4
    check_exe <- MCExe
    UserBase = 8
    UserTop = 16
    Commands <- MCCommands
    Args <- MCArgs
    OpenNames <- MCOpenText
    Statuses = {0}
    Sizes <- None
    ArgSizes = {0, 1, 2, 4}
    FdInputs <- MCTreeFds
    FarFds <- MCFarFds
    Addrs <- None
    TermCounts = {1}
INVARIANTS
    TypeOK
    ActiveIsStack
    RunsInOwnContext
    ParentResumable
PROPERTIES
    SuspendedUntouched
    ImplementsStack
