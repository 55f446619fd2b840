SPECIFICATION FairSpec
CONSTANTS
    MaxConnections = 3
    MaxScans = 2
    MaxCalls = 1
    Room = 2
PROPERTY
    SilentLinkIsRestored
CHECK_DEADLOCK FALSE
