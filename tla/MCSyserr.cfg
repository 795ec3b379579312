SPECIFICATION SyserrSpec
CONSTANTS
    nent = 6
    nnod = 4
    dirs <- MCDirs
    inodes <- MCInodes
    blocks <- MCBlocks
    BLKSIZE = 2
    NameLen = 2
    Modulus <- MCModulus
    MAX_PROCESSES = 2
    MAX_FILES = 3
    KSTACK = 4
    ArgOffset = 1
    UserRoom = 64
    check_exe <- MCExe
    UserBase = 8
    UserTop = 16
    Commands <- MCCommands
    Args <- NoArgs
    OpenNames <- MCOpenAny
    Statuses = {0, 200}
    Sizes <- MCSizes
    ArgSizes = {}
    FdInputs <- MCFds
    FarFds <- MCFarFds
    Addrs <- MCAddrs
    TermCounts = {1}
    SyserrFile = 3
    NEG_FD <- MCNeg
    BIG_FD = 15
    BadNames <- MCBadNames
    KernelAddr = 4
INVARIANTS
    OpenHasOps
    SyserrPassesFresh
PROPERTIES
    FailureHasNoEffect
    SyserrReturns
