---------------------------- MODULE NetworkMessages ---------------------------
(***************************************************************************)
(* The network-layer messages of package npdu: the typed models and their  *)
(* decoder (nlm_models.go), the normalisation the NPDU codec applies       *)
(* (nlm_validation.go) and the bare wire form (nlm_wire.go).               *)
(*                                                                         *)
(* An optional network number or vendor is a set of at most one.           *)
(***************************************************************************)
EXTENDS Octets

GlobalBroadcastNetwork == 65535
LocalNetwork == 0

\* A number that denotes one remote network.
Specific(n) == n # LocalNetwork /\ n # GlobalBroadcastNetwork

WhoIsRouter == 0
IAmRouter == 1
ICouldBeRouter == 2
RejectMessage == 3
RouterBusy == 4
RouterAvailable == 5
InitTable == 6
InitTableAck == 7
Establish == 8
Disconnect == 9
WhatIsNumber == 18
NumberIs == 19

IsProprietary(t) == t >= 128
IsReserved(t) == t \in 20 .. 127 \/ t \in 10 .. 17
ValidStandard(t) == t \in WhoIsRouter .. Disconnect \/ t \in {WhatIsNumber, NumberIs}

\* NetworkLayerMessageHeader: a vendor exactly for the proprietary types.
structureValid(h) == IsProprietary(h.type) <=> h.vendor # {}

RejectReasonValid(r) == r <= 4

Standard(t) == [type |-> t, vendor |-> {}]

(***************************************************************************)
(* The models.  Each answers the three methods of the interface (Header,   *)
(* Valid, PayloadBytes) and keeps its own fields; each has a constructor   *)
(* that refuses some of the fields.                                        *)
(***************************************************************************)
WhoIsRouterMessage(dnet) ==
    [header |-> Standard(WhoIsRouter), dnets |-> dnet,
     valid |-> \A n \in dnet : Specific(n),
     payload |-> IF dnet = {} THEN <<>> ELSE PutUint16(The(dnet))]
NewWhoIsRouter(dnet) == When(\A n \in dnet : Specific(n), WhoIsRouterMessage(dnet))

\* validateNetworkList and encodeNetworkList.
NetworkListValid(ns) == ns # <<>> /\ \A i \in DOMAIN ns : Specific(ns[i])
encodeNetworkList(ns) ==
    IF NetworkListValid(ns)
    THEN [i \in 1 .. 2 * Len(ns) |-> PutUint16(ns[(i + 1) \div 2])[2 - (i % 2)]]
    ELSE <<>>

\* I-Am-Router-, Router-Busy- and Router-Available-To-Network.
NetworkListMessage(t, networks) ==
    [header |-> Standard(t), networks |-> networks,
     valid |-> NetworkListValid(networks), payload |-> encodeNetworkList(networks)]
NewNetworkList(t, networks) ==
    When(NetworkListValid(networks), NetworkListMessage(t, networks))

ICouldBeRouterMessage(dnet, index) ==
    [header |-> Standard(ICouldBeRouter), dnet |-> dnet, index |-> index,
     valid |-> Specific(dnet), payload |-> PutUint16(dnet) \o <<index>>]
NewICouldBeRouter(dnet, index) == When(Specific(dnet), ICouldBeRouterMessage(dnet, index))

\* Valid refuses only the local network, the constructor the global one too.
RejectMessageMessage(dnet, reason) ==
    [header |-> Standard(RejectMessage), dnet |-> dnet, reason |-> reason,
     valid |-> dnet # LocalNetwork /\ RejectReasonValid(reason),
     payload |-> PutUint16(dnet) \o <<reason>>]
NewRejectMessage(dnet, reason) ==
    When(Specific(dnet) /\ RejectReasonValid(reason), RejectMessageMessage(dnet, reason))

\* RoutingTablePortEntry.valid, NewRoutingTablePortEntry, encodePortEntryList.
PortEntryValid(e) == Specific(e.dnet) /\ Len(e.info) <= 255
NewPortEntry(dnet, id, info) ==
    LET e == [dnet |-> dnet, id |-> id, info |-> info] IN When(PortEntryValid(e), e)
encodePortEntryList(ports) ==
    LET body[i \in 0 .. Len(ports)] ==
            IF i = 0 THEN <<Len(ports) % 256>>
            ELSE LET p == ports[i] IN
                 body[i - 1] \o PutUint16(p.dnet) \o <<p.id, Len(p.info) % 256>> \o p.info
    IN  body[Len(ports)]

\* Initialize-Routing-Table and its acknowledgement.  The constructor takes
\* any number of ports, Valid only 1 to 255.
RoutingTableMessage(t, ports) ==
    [header |-> Standard(t), ports |-> ports,
     valid |-> Len(ports) \in 1 .. 255 /\ \A i \in DOMAIN ports : PortEntryValid(ports[i]),
     payload |-> encodePortEntryList(ports)]
NewRoutingTable(t, ports) ==
    When(\A i \in DOMAIN ports : PortEntryValid(ports[i]), RoutingTableMessage(t, ports))

EstablishMessage(dnet, time) ==
    [header |-> Standard(Establish), dnet |-> dnet, time |-> time,
     valid |-> Specific(dnet), payload |-> PutUint16(dnet) \o <<time>>]
NewEstablish(dnet, time) == When(Specific(dnet), EstablishMessage(dnet, time))

DisconnectMessage(dnet) ==
    [header |-> Standard(Disconnect), dnet |-> dnet,
     valid |-> Specific(dnet), payload |-> PutUint16(dnet)]
NewDisconnect(dnet) == When(Specific(dnet), DisconnectMessage(dnet))

WhatIsNumberMessage == [header |-> Standard(WhatIsNumber), valid |-> TRUE, payload |-> <<>>]

\* Mutant of NumberIsMessage: the flag octet is never set.
NumberIsUnflagged(number, configured) ==
    [header |-> Standard(NumberIs), number |-> number, configured |-> configured,
     valid |-> number # LocalNetwork, payload |-> PutUint16(number) \o <<0>>]

NumberIsMessage(number, configured) ==
    [header |-> Standard(NumberIs), number |-> number, configured |-> configured,
     valid |-> number # LocalNetwork,
     payload |-> PutUint16(number) \o <<Flag(configured, 1)>>]
NewNumberIs(number, configured) ==
    When(Specific(number), NumberIsMessage(number, configured))

ProprietaryMessage(t, vendor, payload) ==
    [header |-> [type |-> t, vendor |-> {vendor}], valid |-> IsProprietary(t),
     payload |-> payload]
NewProprietary(t, vendor, payload) ==
    When(IsProprietary(t), ProprietaryMessage(t, vendor, payload))

(***************************************************************************)
(* DecodeNetworkLayerMessageModel.                                         *)
(***************************************************************************)
decodeNetworkList(p) ==
    LET ns == [i \in 1 .. Len(p) \div 2 |-> Uint16(p, 2 * i - 1)]
    IN  When(p # <<>> /\ Len(p) % 2 = 0 /\ NetworkListValid(ns), ns)

\* start[i] is the offset of entry i + 1, or -1 when an entry before it is
\* cut off or names no specific network.
decodeRoutingTableEntries(p) ==
    LET count == p[1]
        start[i \in 0 .. count] ==
            IF i = 0 THEN 1
            ELSE LET c == start[i - 1] IN
                 IF /\ c # -1 /\ c + 4 <= Len(p)
                    /\ Specific(Uint16(p, c + 1)) /\ c + 4 + p[c + 4] <= Len(p)
                 THEN c + 4 + p[c + 4] ELSE -1
        entry(i) == LET c == start[i - 1] IN
            [dnet |-> Uint16(p, c + 1), id |-> p[c + 3],
             info |-> SubSeq(p, c + 5, c + 4 + p[c + 4])]
    IN  IF p = <<>> THEN {}
        ELSE When(start[count] = Len(p) /\ count # 0, [i \in 1 .. count |-> entry(i)])

DecodeMessageModel(h, p) ==
    IF ~structureValid(h) THEN {}
    ELSE IF IsProprietary(h.type) THEN NewProprietary(h.type, The(h.vendor), p)
    ELSE CASE IsReserved(h.type) \/ ~ValidStandard(h.type) -> {}
      [] h.type = WhoIsRouter ->
            IF p = <<>> THEN NewWhoIsRouter({})
            ELSE IF Len(p) = 2 THEN NewWhoIsRouter({Uint16(p, 1)}) ELSE {}
      [] h.type \in {IAmRouter, RouterBusy, RouterAvailable} ->
            UNION {NewNetworkList(h.type, ns) : ns \in decodeNetworkList(p)}
      [] h.type \in {InitTable, InitTableAck} ->
            UNION {NewRoutingTable(h.type, ports) : ports \in decodeRoutingTableEntries(p)}
      [] h.type = ICouldBeRouter ->
            IF Len(p) = 3 THEN NewICouldBeRouter(Uint16(p, 1), p[3]) ELSE {}
      [] h.type = RejectMessage ->
            IF Len(p) = 3 THEN NewRejectMessage(Uint16(p, 1), p[3]) ELSE {}
      [] h.type = Establish ->
            IF Len(p) = 3 THEN NewEstablish(Uint16(p, 1), p[3]) ELSE {}
      [] h.type = Disconnect -> IF Len(p) = 2 THEN NewDisconnect(Uint16(p, 1)) ELSE {}
      [] h.type = WhatIsNumber -> When(p = <<>>, WhatIsNumberMessage)
      [] h.type = NumberIs ->
            IF Len(p) = 3 /\ p[3] \in {0, 1} THEN NewNumberIs(Uint16(p, 1), p[3] = 1) ELSE {}

\* decodeAndNormalizeNetworkLayerMessagePayload: decoded and encoded again.
NormalizedPayload(h, p) == {m.payload : m \in DecodeMessageModel(h, p)}

(***************************************************************************)
(* A message outside an NPDU: type, vendor of a proprietary type, payload. *)
(***************************************************************************)
EncodeMessageWire(m) ==
    LET h == m.header
        vendor == IF h.vendor = {} THEN <<>> ELSE PutUint16(The(h.vendor))
    IN  When(m.valid /\ structureValid(h), <<h.type>> \o vendor \o m.payload)

DecodeMessageWire(raw) ==
    IF raw = <<>> \/ (IsProprietary(raw[1]) /\ Len(raw) < 3) THEN {}
    ELSE IF IsProprietary(raw[1])
    THEN DecodeMessageModel([type |-> raw[1], vendor |-> {Uint16(raw, 2)}], From(raw, 3))
    ELSE DecodeMessageModel([type |-> raw[1], vendor |-> {}], From(raw, 1))
===============================================================================
