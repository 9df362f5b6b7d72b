CONSTANTS
    c1 = c1
    c2 = c2
    p1 = p1
    s1 = s1
    s2 = s2
    NoCall = NoCall
    NoPDU = NoPDU
    Calls = {c1}
    Peer <- PeerSame
    Service <- ServiceSame
    NumIDs = 1
    MaxInvokes = 1
    MaxRetries = 0
    PDUTypes = {"ACK"}
SPECIFICATION FairSpec
PROPERTIES
    CloseReturns
CHECK_DEADLOCK FALSE
