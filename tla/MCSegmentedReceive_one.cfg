CONSTANTS
    NumRequests = 2
    Segments = 4
    SeqSpace = 8
    PreferredWindow = 3
    MaxDuplicates = 2
SPECIFICATION FairSpec
INVARIANTS
    PositionsInOrder
    AckSound
PROPERTIES
    EntriesGoAway
CHECK_DEADLOCK FALSE
