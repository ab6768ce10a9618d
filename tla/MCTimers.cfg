SPECIFICATION Spec
CONSTANTS
    HandshakeTimeout = 120
    Fallback = 20
    Interval = 4
    Timeout = 8
    RetryMax = 8
    Expiry = 10
    ProbeBase = 4
    ProbeMax = 6
    TickGap = 2
    AgeCap = 18
INVARIANTS
    TypeOK
    KeepsTrying
    RelayIsTried
    DeadPathIsDropped
    OneLossIsSurvived
    ProbesGoOn
    SilentPeerExpires
