CONSTANTS
    None = None
    Err = Err
    c1 = c1
    c2 = c2
    U8Max = 2
    U32Max = 8
    U64Max = 30
    Kilo = 3
    Kibi = 4
    TcpLen = 3
    UdpLen = 2
    UdpBandwidth = 3
    MaxParallel = 2
    MaxLen = 4
    MaxTime = 4
    MaxOmit = 2
    Client = {c1, c2}
    Clis <- MCClis
    Frames <- MCFrames
    Copies <- MCCopies
    Servers <- MCServers
    Lower <- MCLower
    BadName = {""}
    Skew = 1
    MaxClock = 2
SPECIFICATION Spec
INVARIANTS
    AgreeOnTest
    NumbersSafe
    GateHolds
PROPERTIES
    NotTwiceWithinTtl
    Decided
CHECK_DEADLOCK FALSE
