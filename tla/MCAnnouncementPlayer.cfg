SPECIFICATION FairSpec
CONSTANTS
    accepted = accepted
    rejected = rejected
    silent = silent
    unknown = unknown
    NoCode = NoCode
    Conns = {c1, c2}
    MaxPlays = 2
    VALID_CODES <- MCCodes
    SoundFiles <- MCFiles
    Received <- MCReceived
INVARIANTS
    SpeaksLatestDecision
    InterruptedNeverReports
    EndReportedOnce
PROPERTIES
    ImplementsSpeaker
    EndIsNoticed
CHECK_DEADLOCK FALSE
