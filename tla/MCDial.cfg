SPECIFICATION DialSpec
CONSTANTS
    W = 2
    Node = {1, 2, 3}
    Addr = {"a1", "a2", "a3", "b2"}
    Contacts <- Chain
    CacheMax = 2
    MaxId = 8
    MaxSeq = 0
INVARIANTS
    OnlyRacesSplit
    AnewOnlyAfterMany
    OneInFlightPerWay
