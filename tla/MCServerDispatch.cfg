CONSTANTS
    Threads = {t1, t2}
    Keys = {"k1", "k2"}
    Services = {"s1"}
    Requests <- MCRequests
    Lengths <- MCLengths
    LocalLimit = 60
    LocalTransmit = TRUE
SPECIFICATION FairSpec
INVARIANTS
    OneAtATime
    MarksExact
    Answered
    SegmentsAsCounted
PROPERTIES
    KeysFreed
CHECK_DEADLOCK FALSE
