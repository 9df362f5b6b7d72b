CONSTANTS
    NumRequests = 1
    Segments = 5
    SeqSpace = 4
    PreferredWindow = 1
    MaxDuplicates = 1
SPECIFICATION Spec
INVARIANTS
    Reassembled
CHECK_DEADLOCK FALSE
