SPECIFICATION FairSpec
CONSTANTS
    MaxConnections = 3
    MaxScans = 2
    MaxCalls = 1
    Room = 2
INVARIANTS
    OneAtATime
    AnswersMatch
    NoScanLost
PROPERTIES
    ImplementsRelay
    LinkIsRestored
    ServiceReturns
CHECK_DEADLOCK FALSE
