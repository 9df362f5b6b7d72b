\* A device with a read deadline and the shortest time to live, and one without
\* a deadline whose time to live saturates.
SPECIFICATION Spec
CONSTANTS
    d1 = d1
    d2 = d2
    Devices = {d1, d2}
    WithDeadline = {d1}
    Addr <- MCAddr
    Seen <- MCSeen
    Ttl <- MCTtl
    Bbmd <- MCBbmd
    Noise <- MCNoise
    Tables <- MCTables
    WriteRequests <- MCWriteRequests
    Jumps = {1, 61}
    MaxTicks = 2
    MaxCalls <- MCMaxCalls
    MaxNoise = 1
INVARIANTS
    TableReads
    TableMatchesLeases
    NilMeansRegistered
PROPERTIES
    RegisterReturns
CHECK_DEADLOCK FALSE
