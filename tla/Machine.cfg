SPECIFICATION MachineSpec
CONSTANTS
    MaxDepth = 3
    MAX_PROCESSES = 6
    VideoPages = {184, 185}
    OtherPages = {1}
INVARIANTS
    GatesFirst
    ServiceMatchesHandlers
    OnlyRtcIsNested
    OwnFrameOnly
    ProgramReach
    KernelStaysMapped
PROPERTY
    RequestsServed
