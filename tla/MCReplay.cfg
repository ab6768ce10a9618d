SPECIFICATION ReceiverSpec
CONSTANTS
    W = 3
    SeqNo <- MCSeqNo
INVARIANTS
    WindowExact
PROPERTY
    ImplementsAntiReplay
