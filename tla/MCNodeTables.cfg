SPECIFICATION Spec
CONSTANTS
    Peer = {1, 2}
    NoPeer = 0
    Net = {1, 2}
    NetsOf <- OneNetEach
    Addr = {"here", "there", "home"}
    NoAddr = "none"
    Reaches <- RelayedByLighthouse
    Slot = {"lighthouse"}
    Named <- NamedFirst
    Resolves <- MovesAway
    MaxSid = 5
INVARIANTS
    SlotsMatch
    SessionsIndexed
    AddedWhole
