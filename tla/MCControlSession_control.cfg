SPECIFICATION FairSpec
CONSTANTS
    N = 2
    Configs <- WorkingAndDisturbed
    Timeouts = TRUE
    Faults = {"killed", "silent", "connect", "lossy"}
    None = None
INVARIANTS
    TypeOK
    ResultsComplete
    FramesInSync
    BacklogDrained
PROPERTIES
    KeepsContract
    BothComplete
    TimedSessionEnds
CHECK_DEADLOCK FALSE
