SPECIFICATION ProgramsSpec
CONSTANTS
    nent <- MCnent
    nnod <- MCnnod
    dirs <- MCDirs
    inodes <- MCInodes
    blocks <- MCBlocks
    BLKSIZE = 2
    NameLen = 2
    Modulus <- MCModulus
    Chunks = {1, 2, 3, 5, 9}
    UserRoom = 16
    BUFSIZE = 3
    Searches <- MCSearches
    NUM_COLS = 2
    Offset = 1
    Cell = 2
    WAIT = 3
    PHASE = 2
    SLOTS = 4
    CELLS = 4
    USHORT = 16
    LiveScreen <- MCLiveScreen
    Blinks = {}
    Locations = {}
    Frames <- MCFrames
    MaxText = 4
    MaxLong = 5
    MaxFrame = 3
    MaxRows = 8
CHECK_DEADLOCK FALSE
INVARIANTS
    CatPrintsPrefix
    CatPrintsWholeFile
    LsPrintsAll
    GrepPrintsMatches
    FishShowsFrames
PROPERTY
    ProgramsReturn
