SPECIFICATION FairSpec
CONSTANT
    MaxDials = 3
INVARIANTS
    AudioAfterOptions
    OnlyCurrentIsOpen
    ShutdownReachesReceiver
    AtMostOneLateFrame
    AudioAfterReady
    AudioFlows
PROPERTY
    ThreadsEnd
CHECK_DEADLOCK FALSE
