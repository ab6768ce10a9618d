SPECIFICATION FairSpec
CONSTANTS
    Client = {1, 2}
    Traffic <- OneWay
    Retry = 2
    HandshakeTimeout = 4
    MaxFaults = 3
INVARIANTS
    TypeOK
    AskedInTime
PROPERTIES
    MeshHeals
