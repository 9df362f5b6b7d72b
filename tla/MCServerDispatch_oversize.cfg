CONSTANTS
    Threads = {t1}
    Keys = {"k1", "k2"}
    Services = {"s1"}
    Requests <- MCRequests
    Lengths = {47, 48}
    LocalLimit = 60
    LocalTransmit = TRUE
SPECIFICATION Spec
INVARIANTS
    FitsRequester
CHECK_DEADLOCK FALSE
