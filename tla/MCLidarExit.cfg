SPECIFICATION FairSpec
CONSTANT
    MaxSignals = 2
INVARIANTS
    CallbacksUseALiveScanner
    NobodyLeavesFirst
PROPERTIES
    SignalEndsNode
    IdleNodeEnds
CHECK_DEADLOCK FALSE
