SPECIFICATION FairSpec
CONSTANTS
    Relay = {"relay1", "relay2"}
INVARIANTS
    TypeOK
    DeliversUnlessOneWay
PROPERTIES
    LeavesRelayOnlyForOpenPath
    NotPulledBack
    MovesOffRelay
CHECK_DEADLOCK FALSE
