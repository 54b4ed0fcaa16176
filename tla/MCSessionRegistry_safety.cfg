SPECIFICATION Spec
CONSTANTS
    c1 = c1
    c2 = c2
    i1 = i1
    None = None
    IP = {c1, c2, c3}
    Cookie = {c1, c2, c3}
    IpOf <- OwnAddress
    Session = {s1, s2, s3}
    MaxConcurrent = 2
    PerIpCap = 1
    Parallel = 1
    Faults = {"panic", "accept", "slow"}
SYMMETRY MCSymmetry
INVARIANTS
    SimultaneousTestsBounded
    SessionOwnsEntry
    EntryHasSession
PROPERTIES
    EntryRemovedByOwner
CHECK_DEADLOCK FALSE
