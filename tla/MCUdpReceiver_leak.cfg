SPECIFICATION FairSpec

CONSTANTS
    Stream = {a}
    MaxPackets = 1
    CookieSeq = 5
    InitDatagram = 5
    Bidir = FALSE
    Reorder = FALSE
    MaxLoss = 0
    MaxDup = 0
    Faults = {"control"}

PROPERTIES
    NoReceiverLeftBehind

CHECK_DEADLOCK FALSE
