SPECIFICATION Spec
CONSTANTS
    HandshakeTimeout = 8
    Fallback = 4
    Interval = 4
    Timeout = 8
    RetryMax = 8
    Expiry = 8
    ProbeBase = 4
    ProbeMax = 6
    TickGap = 2
    AgeCap = 18
INVARIANTS
    ExpiryIsUpperBound
