SPECIFICATION FairSpec
CONSTANTS
    Depth = 2
    HighWater = 2
    EchoDepth = 1
    MaxFrames = 4
INVARIANTS
    NothingSkipped
    NoDelayBuildsUp
PROPERTIES
    ImplementsRelays
    SkeletonsCatchUp
    ZonesCatchUp
CHECK_DEADLOCK FALSE
