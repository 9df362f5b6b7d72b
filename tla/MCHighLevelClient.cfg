\* Discover and Resolve on up to two subnets, with three devices, two of which
\* share an instance; and accesses to a device that others change once.
SPECIFICATION ClientSpec
CONSTANTS
    Scenarios <- MCScenarios
    Capacity = 1
    Requests <- MCRequests
    Store <- MCStore
    Lists <- MCLists
    Values = {"v"}
    Texts = {"n"}
    Kinds = {"full", "none", "strict", "short"}
    Instance = 7
    MaxChanges = 1
    MaxAttempts = 2
INVARIANTS
    HeardIsReported
    ResultRight
    AccessReflectsDevice
    ObjectListRight
PROPERTIES
    ClientReturns
CHECK_DEADLOCK FALSE
