SPECIFICATION ResamplerSpec
CONSTANTS
    InRate = 5
    OutRate = 2
    Taps = 3
    MaxChunk = 6
    MaxHeard = 40
INVARIANTS
    ResamplerTypeOK
PROPERTY
    ImplementsResampling
CHECK_DEADLOCK FALSE
