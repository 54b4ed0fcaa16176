SPECIFICATION Spec

CONSTANTS
    Stream = {a, b}
    MaxPackets = 2
    CookieSeq = 5
    InitDatagram = 5
    Bidir = FALSE
    Reorder = TRUE
    MaxLoss = 1
    MaxDup = 1
    Faults = {"dupinit"}

SYMMETRY StreamSymmetry

INVARIANTS
    AccountingExact
    LossBounds
    StreamsRegisteredOnce

CHECK_DEADLOCK FALSE
