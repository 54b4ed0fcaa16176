SPECIFICATION FairSpec
CONSTANTS
    N = 1
    Configs <- TcpBidir
    Timeouts = FALSE
    Faults = {}
    None = None
PROPERTIES
    BothComplete
CHECK_DEADLOCK FALSE
