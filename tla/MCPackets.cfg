SPECIFICATION Spec
CONSTANTS
    W = 2
    Node = {1, 2}
    Addr = {"a1", "a2", "a3", "b2"}
    Contacts <- OneDials
    CacheMax = 4
    MaxId = 4
    MaxSeq = 2
INVARIANTS
    SeqNeverReused
    KeysMeet
PROPERTY
    ImplementsSecureChannel
