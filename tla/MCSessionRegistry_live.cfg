SPECIFICATION FairSpec

CONSTANTS
    c1 = c1
    c2 = c2
    i1 = i1
    None = None
    IP = {i1}
    Cookie = {c1, c2}
    IpOf <- SharedAddress
    Session = {s1, s2}
    MaxConcurrent = 2
    PerIpCap = 2
    Parallel = 1
    Faults = {"panic"}

INVARIANTS
    PerIpExact
    StreamsReachSession
PROPERTIES
    SlotReleased
    ServerDrains

CHECK_DEADLOCK FALSE
