CONSTANTS
    NumResponses = 1
    Segments = 5
    PreferredWindow = 2
    PeerWindows = {0, 1, 3}
    MaxRetries = 1
SPECIFICATION FairSpec
INVARIANTS
    NumbersMatchPayload
    CompletedInLastWindow
    NeverStranded
PROPERTIES
    FullAckAdvances
    ResponsesEnd
CHECK_DEADLOCK FALSE
