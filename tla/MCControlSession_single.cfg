SPECIFICATION FairSpec
CONSTANTS
    N = 1
    Configs <- SingleTcp
    Timeouts = TRUE
    Faults = {"killed", "silent"}
    None = None
PROPERTIES
    ServerEnds
CHECK_DEADLOCK FALSE
