SPECIFICATION FairSpec
CONSTANTS
    Payloads <- Lookalikes
    BufferSize = 14
    CounterSize = 7
    MaxChunk = 7
    MaxSent = 3
    MaxLosses = 1
INVARIANTS
    FramesAreTheSent
    NothingIsHeldBack
    BufferHasRoom
PROPERTY
    EveryFrameArrives
CHECK_DEADLOCK FALSE
