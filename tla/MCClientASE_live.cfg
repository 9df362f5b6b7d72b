CONSTANTS
    c1 = c1
    c2 = c2
    p1 = p1
    s1 = s1
    s2 = s2
    NoCall = NoCall
    NoPDU = NoPDU
    Calls = {c1, c2}
    Peer <- PeerSame
    Service <- ServiceSame
    NumIDs = 2
    MaxInvokes = 1
    MaxRetries = 1
    PDUTypes = {"ACK"}
SPECIFICATION FairSpec
INVARIANTS
    NeverOrphaned
PROPERTIES
    CallsReturn
    ImplementsConfirmedService
CHECK_DEADLOCK FALSE
