SPECIFICATION FairSpec
CONSTANTS
    Peer = {p1, p2}
    Slots = 2
    MaxSid = 3
INVARIANTS
    NobodySleepsOn
    AtMostOneUntold
PROPERTIES
    ImplementsGracefulStop
    AllThreadsEnd
