SPECIFICATION FairSpec
CONSTANTS
    Client = {1, 2}
    Traffic <- OneWay
    Retry = 2
    HandshakeTimeout = 4
    MaxFaults = 0
PROPERTIES
    HealsForGood
