SPECIFICATION DialSpec
CONSTANTS
    W = 2
    Node = {1, 2, 3}
    Addr = {"a1", "a2", "a3", "b2"}
    Contacts <- Spokes
    CacheMax = 1
    MaxId = 7
    MaxSeq = 0
INVARIANTS
    OneAnswer
CHECK_DEADLOCK FALSE
