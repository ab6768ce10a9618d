SPECIFICATION Spec
CONSTANTS
    Src = {s1, s2}
    Message <- Colliding
    ChunkSize = 2
    MaxPending = 3
    MaxPendingPerSource = 2
    MaxBuffered = 7
    MaxBufferedPerSource = 5
    MaxMessage = 5
    CleanupAge = 1
    CleanupGap = 1
INVARIANTS
    TypeOK
    TotalsExact
    WithinLimits
    HeldBriefly
PROPERTIES
    ChunksAreKept
VIEW Assembler
