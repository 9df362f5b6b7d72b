------------------------------ MODULE MCBIPStack ------------------------------
EXTENDS BIPStack

Peer == [ip |-> <<10, 0, 0, 2>>, port |-> 47808]
Behind == [ip |-> <<10, 0, 1, 9>>, port |-> 47809]
Peer6 == [ip |-> [i \in 1 .. 16 |-> i], port |-> 47808]

\* A station on another network, with an address of one octet.
Station == {[snet |-> 5, sadr |-> <<7>>]}
LongStation == {[snet |-> 65534, sadr |-> <<1, 2, 3, 4, 186, 192>>]}

\* One APDU per shape of the codec, in the form decodeAPDU gives it.
Requests ==
    {[ZeroAPDU EXCEPT !.maxSegments = 7, !.maxLength = 1476, !.invoke = 255, !.accepted = TRUE,
                      !.service = 12, !.payload = <<12>>],
     [ZeroAPDU EXCEPT !.maxLength = 50, !.service = 14]}
Acks ==
    {[ZeroAPDU EXCEPT !.type = SimpleACK, !.invoke = 3, !.service = 15],
     [ZeroAPDU EXCEPT !.type = ComplexACK, !.invoke = 3, !.service = 12, !.payload = <<1, 2>>],
     [ZeroAPDU EXCEPT !.type = ComplexACK, !.segmented = TRUE, !.more = TRUE, !.invoke = 3,
                      !.window = 4, !.service = 12, !.payload = <<1>>],
     [ZeroAPDU EXCEPT !.type = ComplexACK, !.segmented = TRUE, !.invoke = 3, !.seq = 255,
                      !.window = 1, !.payload = <<2>>],
     [ZeroAPDU EXCEPT !.type = SegmentACK, !.negative = TRUE, !.server = TRUE, !.invoke = 3,
                      !.seq = 9, !.window = 127]}
Failures ==
    {[ZeroAPDU EXCEPT !.type = ErrorPDU, !.invoke = 3, !.service = 12, !.payload = <<145, 1>>],
     [ZeroAPDU EXCEPT !.type = Reject, !.invoke = 3, !.payload = <<9>>],
     [ZeroAPDU EXCEPT !.type = Abort, !.server = TRUE, !.invoke = 3, !.payload = <<4>>]}
IAm == [ZeroAPDU EXCEPT !.type = UnconfirmedRequest, !.payload = <<196, 2, 0, 0, 1>>]

Letter(from, via, origin, station, apdu, priority) ==
    [kind |-> "apdu", from |-> from, via |-> via, origin |-> origin, station |-> station,
     apdu |-> apdu, priority |-> priority]

Direct == {"stack", "unicast", "broadcast", "distribute"}

\* Answers in a datagram of n octets: the longest the client announces, which
\* comes in 1482, and the longest that its receive buffer takes.
LongAnswer(n) ==
    Letter(Peer, "stack", Peer, {},
           [ZeroAPDU EXCEPT !.type = ComplexACK, !.invoke = 3, !.service = 12,
                            !.payload = [i \in 1 .. n - 9 |-> 0]], 0)
FullLetters == {LongAnswer(1482)}
FittingLetters == {LongAnswer(1476)}

MCLetters ==
    FullLetters \cup FittingLetters
    \cup {Letter(Peer, "stack", Peer, {}, a, p) : a \in Requests \cup Acks \cup Failures, p \in {0, 3}}
    \cup {Letter(Peer, via, Peer, s, IAm, 0) : via \in Direct, s \in {{}, Station, LongStation}}
    \cup {Letter(Peer, "forward", Behind, s, IAm, 1) : s \in {{}, Station}}
    \cup {Letter(Peer6, "stack", Peer6, {}, IAm, 0)}

MCJunk == {m \in MCLetters : m.apdu = IAm /\ m.priority = 0 /\ m.station = Station}
          \cup {m \in MCLetters : m.via = "forward" /\ m.station = {}}

Entry(n) == [dnet |-> n, id |-> n, info |-> [i \in 1 .. n - 1 |-> 200]]
Models ==
    {WhoIsRouterMessage({}), WhoIsRouterMessage({5}), ICouldBeRouterMessage(5, 255),
     RejectMessageMessage(5, 4), EstablishMessage(5, 60), DisconnectMessage(5),
     WhatIsNumberMessage, NumberIsMessage(5, TRUE), NumberIsMessage(65534, FALSE),
     ProprietaryMessage(255, 260, <<1>>), ProprietaryMessage(128, 0, <<>>)}
    \cup {NetworkListMessage(t, ns) : t \in {IAmRouter, RouterBusy, RouterAvailable},
                                      ns \in {<<5>>, <<258, 1, 65534>>}}
    \cup {RoutingTableMessage(t, ps) : t \in {InitTable, InitTableAck},
                                       ps \in {<<Entry(1)>>, <<Entry(2), Entry(1), Entry(3)>>}}

MCMessages ==
    {[kind |-> "message", from |-> Peer, via |-> via, origin |-> Peer, model |-> m] :
        m \in Models, via \in {"stack", "broadcast"}}
    \cup {[kind |-> "message", from |-> Peer, via |-> "forward", origin |-> Behind, model |-> m] :
            m \in {n \in Models : n.header.type \in {WhoIsRouter, NumberIs}}}

MCControls == {Peer}
MCReplies == {CHOOSE a \in Acks : a.type = SegmentACK, CHOOSE a \in Requests : a.payload = <<12>>}

\* One letter for malformed datagrams: cut off, with another function, and so on.
OneLetter == {Letter(Peer, "stack", Peer, {}, IAm, 0)}
===============================================================================
