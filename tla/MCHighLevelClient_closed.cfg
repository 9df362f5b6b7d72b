\* One indication in dispatch while a Discover of the same client returns.
SPECIFICATION ClientSpec
CONSTANTS
    Scenarios <- ClosedScenarios
    Capacity = 16
    Requests <- NoRequests
    Store <- MCStore
    Lists <- MCLists
    Values = {"v"}
    Texts = {"n"}
    Kinds = {"full", "none", "strict", "short"}
    Instance = 7
    MaxChanges = 1
    MaxAttempts = 2
INVARIANTS
    NoSendOnClosed
CHECK_DEADLOCK FALSE
