SPECIFICATION Spec
CONSTANTS
    accepted = accepted
    rejected = rejected
    silent = silent
    unknown = unknown
    NoCode = NoCode
    Conns = {c1}
    MaxPlays = 2
    VALID_CODES <- MCCodes
    SoundFiles <- MCFiles
    Received <- MCReceived
INVARIANT
    TopicTellsSpeech
CHECK_DEADLOCK FALSE
