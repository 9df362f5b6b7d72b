CONSTANTS
    NumRequests = 2
    Segments = 3
    SeqSpace = 4
    PreferredWindow = 1
    MaxDuplicates = 1
SPECIFICATION Spec
INVARIANTS
    Reassembled
CHECK_DEADLOCK FALSE
