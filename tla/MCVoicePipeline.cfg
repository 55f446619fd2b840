SPECIFICATION FairSpec
CONSTANTS
    Window = 2
    MaxRemembered = 2
    Outcomes = {"Stop", "Unknown"}
    Unknown = "Unknown"
    MaxDials = 2
    MaxSegments = 3
    MaxInFlight = 1
INVARIANTS
    MemoryCoversWindow
    NothingLost
    TopicsAgree
PROPERTY
    ImplementsTranscript
    EveryTranscriptionAnswered
CHECK_DEADLOCK FALSE
