SPECIFICATION DialSpec
CONSTANTS
    W = 2
    Node = {1, 2}
    Addr = {"a1", "a2", "a3", "b2"}
    Contacts <- TwoWays
    CacheMax = 4
    MaxId = 5
    MaxSeq = 0
INVARIANTS
    OneInFlight
CHECK_DEADLOCK FALSE
