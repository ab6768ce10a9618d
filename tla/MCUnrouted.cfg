SPECIFICATION Spec
CONSTANTS
    Peer = {1, 2}
    NoPeer = 0
    Net = {1, 2}
    NetsOf <- OneNetEach
    Addr = {"here", "there", "home"}
    NoAddr = "none"
    Reaches <- RelayedByLighthouse
    Slot = {"lighthouse"}
    Named <- NamedFirst
    Resolves <- MovesAway
    MaxSid = 4
INVARIANTS
    EstablishedIsRouted
CHECK_DEADLOCK FALSE
