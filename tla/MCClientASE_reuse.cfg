CONSTANTS
    c1 = c1
    c2 = c2
    p1 = p1
    s1 = s1
    s2 = s2
    NoCall = NoCall
    NoPDU = NoPDU
    Calls = {c1, c2}
    Peer <- PeerSame
    Service <- ServiceOther
    NumIDs = 1
    MaxInvokes = 1
    MaxRetries = 1
    PDUTypes = {"ACK", "SegmentedACK", "Error", "Abort", "SegmentACK"}
SPECIFICATION Spec
INVARIANTS
    NoLeak
    ClosedTableEmpty
    ReceiverNotBlocked
    AnswerMatches
CHECK_DEADLOCK FALSE
