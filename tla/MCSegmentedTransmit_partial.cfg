CONSTANTS
    NumResponses = 1
    Segments = 4
    PreferredWindow = 2
    PeerWindows = {2}
    MaxRetries = 1
SPECIFICATION Spec
INVARIANTS
    CompletedMeansReceived
CHECK_DEADLOCK FALSE
