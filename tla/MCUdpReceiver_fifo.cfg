SPECIFICATION FairSpec
CONSTANTS
    Stream = {a, b}
    MaxPackets = 2
    CookieSeq = 5
    InitDatagram <- Short
    Bidir = TRUE
    Reorder = FALSE
    MaxLoss = 2
    MaxDup = 0
    Faults = {"control", "noise", "socket"}
INVARIANTS
    SentinelMeansComplete
    LossExplained
PROPERTIES
    JoinReturns
CHECK_DEADLOCK FALSE
