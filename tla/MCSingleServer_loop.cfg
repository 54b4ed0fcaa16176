CONSTANTS
    Client = {c1, c2, c3}
    Parallel = 2
    OneOff = FALSE
    Faults = {"killed", "silent", "connect", "panic"}
    None = None
SPECIFICATION Spec
INVARIANTS
    StreamsAccounted
    OnlyFailedLeaveStreams
PROPERTIES
    LoopsUnlessBlocked
    Answered
CHECK_DEADLOCK FALSE
