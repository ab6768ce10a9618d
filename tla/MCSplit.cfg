SPECIFICATION DialSpec
CONSTANTS
    W = 2
    Node = {1, 2}
    Addr = {"a1", "a2", "a3", "b2"}
    Contacts <- BothDial
    CacheMax = 4
    MaxId = 7
    MaxSeq = 0
INVARIANTS
    SettleOnOneKey
CHECK_DEADLOCK FALSE
