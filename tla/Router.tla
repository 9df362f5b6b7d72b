------------------------------- MODULE Router -------------------------------
(***************************************************************************)
(* The BACnet router: its routing table (npdu/router/table.go) and the     *)
(* forwarding decision Evaluate (npdu/router/router.go).                   *)
(*                                                                         *)
(* The router is called by one goroutine.  A call reads the clock as if it *)
(* took no time, and what it returns is kept in reply until the caller has *)
(* taken it.  Expired routes are removed lazily, by the calls that look.   *)
(***************************************************************************)
EXTENDS Naturals, Sequences, FiniteSets

CONSTANTS
    Ports,           \* PortID, a uint8
    Networks,        \* network numbers that can have routes
    TTLs,            \* times to live given to AddLearnedRoute
    LearnTTL,        \* that of a route learned from a packet (time.Minute)
    Packets,         \* NPDUs that may arrive
    ForwardGlobalBroadcast, \* Policy.ForwardGlobalBroadcast
    MaxTime          \* bound of the clock

Local == 0           \* LocalNetwork; as a DNET or SNET: no such specifier
Global == 65535      \* GlobalBroadcastNetwork

\* An NPDU that is Valid: destination, hop count, source, and whether it
\* carries a network-layer message.
PacketType == [dnet : Networks \cup {Local, Global}, hop : 0 .. 255,
               snet : Networks \cup {Local}, nlm : BOOLEAN]

ASSUME PortsAssumption == Ports \subseteq 0 .. 255
ASSUME NetworksAssumption == Networks \subseteq Nat \ {Local, Global}
ASSUME TTLsAssumption == TTLs \subseteq Nat
ASSUME LearnTTLAssumption == LearnTTL \in Nat \ {0}
ASSUME PacketsAssumption == Packets \subseteq PacketType
ASSUME PolicyAssumption == ForwardGlobalBroadcast \in BOOLEAN
ASSUME MaxTimeAssumption == MaxTime \in Nat

VARIABLES
    routes,          \* routerImpl.routes: network, port, record
    now,             \* the clock
    reply            \* what the last call returned, until it is taken

vars == <<routes, now, reply>>

\* routeRecord.  lastSeen and expiresAt are read for learned routes only.
NoRoute == [kind |-> "none", lastSeen |-> 0, expiresAt |-> 0]
ConnectedRoute == [kind |-> "connected", lastSeen |-> 0, expiresAt |-> 0]
LearnedRoute(ttl) == [kind |-> "learned", lastSeen |-> now, expiresAt |-> now + ttl]

Idle == [op |-> "idle"]

Init ==
    /\ routes = [n \in Networks |-> [p \in Ports |-> NoRoute]]
    /\ now = 0
    /\ reply = Idle

-----------------------------------------------------------------------------
(* The table *)

\* Mutant of Expired: a route is kept in the instant it expires.
Expired_late(rec) == rec.kind = "learned" /\ rec.expiresAt < now

Expired(rec) == rec.kind = "learned" /\ rec.expiresAt <= now

\* pruneExpiredLocked
Pruned ==
    [n \in Networks |-> [p \in Ports |->
        IF Expired(routes[n][p]) THEN NoRoute ELSE routes[n][p]]]

\* The ports under which the table has a route to a network.
PortsTo(table, n) == {p \in Ports : table[n][p] # NoRoute}

\* Mutant of Keeps: a route that is known is not refreshed.
Keeps_known(existing, rec) == existing # NoRoute /\ rec.kind = "learned"

\* A learned advertisement does not displace a connected route.
Keeps(existing, rec) == existing.kind = "connected" /\ rec.kind = "learned"

\* upsertRouteLocked
Upsert(table, n, p, rec) ==
    IF Keeps(table[n][p], rec) THEN table ELSE [table EXCEPT ![n][p] = rec]

\* Mutant of Replaces: the tie between two fresh routes is not broken.
Replaces_noTie(c, p, b, q) ==
    \/ c.kind = "connected" /\ b.kind # "connected"
    \/ c.kind = "learned" /\ b.kind = "learned" /\ c.lastSeen > b.lastSeen
    \/ c.kind = "connected" /\ b.kind = "connected" /\ p < q

\* bestRouteLocked: candidate c on port p replaces the best b so far on port q.
Replaces(c, p, b, q) ==
    \/ c.kind = "connected" /\ b.kind # "connected"
    \/ c.kind = "learned" /\ b.kind = "learned" /\ c.lastSeen > b.lastSeen
    \/ c.kind = "learned" /\ b.kind = "learned" /\ c.lastSeen = b.lastSeen /\ p < q
    \/ c.kind = "connected" /\ b.kind = "connected" /\ p < q

\* The loop of bestRouteLocked over the ports in the order of the map.
Scan(table, n, order) ==
    LET best[i \in 1 .. Len(order)] ==
            IF i = 1 THEN order[1]
            ELSE IF Replaces(table[n][order[i]], order[i],
                             table[n][best[i - 1]], best[i - 1])
                   THEN order[i] ELSE best[i - 1]
    IN  best[Len(order)]

\* Its result: the port that replaces every other one; none without a route.
Best(table, n) ==
    {p \in PortsTo(table, n) : \A q \in PortsTo(table, n) \ {p} :
        Replaces(table[n][p], p, table[n][q], q)}

\* LookupAll: the order of its list.
Precedes(c, p, b, q) ==
    IF c.kind # b.kind THEN c.kind = "connected"
    ELSE IF c.kind = "learned" /\ c.lastSeen # b.lastSeen
           THEN c.lastSeen > b.lastSeen
           ELSE p < q

First(table, n) ==
    {p \in PortsTo(table, n) : \A q \in PortsTo(table, n) \ {p} :
        Precedes(table[n][p], p, table[n][q], q)}

\* validateRoute, and the callers give up on its error.
Routable(n) == n \notin {Local, Global}

AddConnectedRoute(n, p) ==
    /\ reply = Idle
    /\ Routable(n)
    /\ routes' = Upsert(routes, n, p, ConnectedRoute)
    /\ UNCHANGED <<now, reply>>

AddLearnedRoute(n, p, ttl) ==
    /\ reply = Idle
    /\ Routable(n) /\ ttl > 0
    /\ routes' = Upsert(routes, n, p, LearnedRoute(ttl))
    /\ UNCHANGED <<now, reply>>

RemoveRoute(n) ==
    /\ reply = Idle
    /\ routes' = [routes EXCEPT ![n] = [p \in Ports |-> NoRoute]]
    /\ UNCHANGED <<now, reply>>

RemoveRouteOnPort(n, p) ==
    /\ reply = Idle
    /\ routes' = [routes EXCEPT ![n][p] = NoRoute]
    /\ UNCHANGED <<now, reply>>

Entries(op, n, entries) == [op |-> op, network |-> n, entries |-> entries]

Lookup(n) ==
    /\ reply = Idle
    /\ routes' = Pruned
    /\ reply' = Entries("Lookup", n, {n} \X Best(routes', n))
    /\ UNCHANGED now

LookupAll(n) ==
    /\ reply = Idle
    /\ routes' = Pruned
    /\ reply' = Entries("LookupAll", n, {n} \X PortsTo(routes', n))
    /\ UNCHANGED now

\* Snapshot, and RoutingTableEntries, which converts its result.
Snapshot ==
    /\ reply = Idle
    /\ routes' = Pruned
    /\ reply' = Entries("Snapshot", Local,
                        {e \in Networks \X Ports : e[2] \in PortsTo(routes', e[1])})
    /\ UNCHANGED now

-----------------------------------------------------------------------------
(* Evaluate *)

Decision(in, pdu, deliver, forwards, drop, reject) ==
    [op |-> "Evaluate", inPort |-> in, pdu |-> pdu, DeliverLocally |-> deliver,
     Forwards |-> forwards, DropReason |-> drop, RejectResponse |-> reject]

Deliver(in, pdu, forwards) == Decision(in, pdu, TRUE, forwards, "none", "none")

Drop(in, pdu, reason, reject) == Decision(in, pdu, pdu.nlm, {}, reason, reject)

\* buildLocalDeliveryForward: the destination specifier is stripped.
LocalDelivery(p) == [OutPort |-> p, Kind |-> "local-delivery", hop |-> 0]

\* buildForward
Transit(p, pdu) == [OutPort |-> p, Kind |-> "transit", hop |-> pdu.hop - 1]

\* Mutant of HopsExhausted: the last hop is used up by the next router.
HopsExhausted_zero(pdu) == pdu.hop = 0

HopsExhausted(pdu) == pdu.hop <= 1

\* evaluateGlobalBroadcast
Fanout(table, in, sources, pdu) ==
    LET out == {p \in Ports \ ({in} \cup sources) :
                    \E n \in Networks : table[n][p] # NoRoute}
        connected == {p \in out : \E n \in Networks : table[n][p].kind = "connected"}
    IN  {LocalDelivery(p) : p \in connected}
          \cup {Transit(p, pdu) : p \in {q \in out \ connected : ~HopsExhausted(pdu)}}

Broadcast(table, in, sources, pdu, busy) ==
    IF ~ForwardGlobalBroadcast THEN Deliver(in, pdu, {})
    ELSE IF busy THEN Decision(in, pdu, TRUE, {}, "router-busy", "none")
    ELSE Deliver(in, pdu, Fanout(table, in, sources, pdu))

\* The rest of Evaluate, once a route over port p is found.
Relay(table, in, sources, pdu, busy, p) ==
    IF p = in THEN Drop(in, pdu, "same-port", "none")
    ELSE IF p \in sources THEN Drop(in, pdu, "loop-suppressed", "none")
    ELSE IF busy THEN Drop(in, pdu, "router-busy", "router-busy")
    ELSE IF table[pdu.dnet][p].kind = "connected"
           THEN Deliver(in, pdu, {LocalDelivery(p)})
    ELSE IF HopsExhausted(pdu) THEN Drop(in, pdu, "hop-count-expired", "too-many-hops")
    ELSE Decision(in, pdu, pdu.nlm, {Transit(p, pdu)}, "none", "none")

Unicast(table, in, sources, pdu, busy) ==
    IF Best(table, pdu.dnet) = {}
      THEN Drop(in, pdu, "unknown-destination", "other")
      ELSE Relay(table, in, sources, pdu, busy, CHOOSE p \in Best(table, pdu.dnet) : TRUE)

\* The route a packet teaches: its source network is behind the ingress port.
Learned(in, pdu) ==
    IF pdu.snet = Local THEN Pruned
    ELSE Upsert(Pruned, pdu.snet, in, LearnedRoute(LearnTTL))

\* Mutant of SourcePorts: only the best route to the source network counts.
SourcePorts_best(in, pdu) ==
    IF pdu.snet = Local THEN {} ELSE Best(Pruned, pdu.snet)

\* sourcePortsForSNETLocked, before the packet is learned from.
SourcePorts(in, pdu) ==
    IF pdu.snet = Local THEN {} ELSE PortsTo(Pruned, pdu.snet)

EvaluateLocal(in, pdu) ==
    /\ reply = Idle
    /\ pdu.dnet = Local
    /\ reply' = Deliver(in, pdu, {})
    /\ UNCHANGED <<routes, now>>

EvaluateBroadcast(in, pdu, busy) ==
    /\ reply = Idle
    /\ pdu.dnet = Global
    /\ routes' = Learned(in, pdu)
    /\ reply' = Broadcast(routes', in, SourcePorts(in, pdu), pdu, busy)
    /\ UNCHANGED now

EvaluateUnicast(in, pdu, busy) ==
    /\ reply = Idle
    /\ pdu.dnet \in Networks
    /\ routes' = Learned(in, pdu)
    /\ reply' = Unicast(routes', in, SourcePorts(in, pdu), pdu, busy)
    /\ UNCHANGED now

-----------------------------------------------------------------------------

\* The caller takes what it was given.
Return ==
    /\ reply # Idle
    /\ reply' = Idle
    /\ UNCHANGED <<routes, now>>

Tick ==
    /\ reply = Idle
    /\ now < MaxTime
    /\ now' = now + 1
    /\ UNCHANGED <<routes, reply>>

Remove ==
    \E n \in Networks : RemoveRoute(n) \/ \E p \in Ports : RemoveRouteOnPort(n, p)

Evaluate(in, pdu, busy) ==
    EvaluateLocal(in, pdu) \/ EvaluateBroadcast(in, pdu, busy) \/ EvaluateUnicast(in, pdu, busy)

Next ==
    \/ \E n \in Networks \cup {Local, Global}, p \in Ports :
          AddConnectedRoute(n, p) \/ \E ttl \in TTLs : AddLearnedRoute(n, p, ttl)
    \/ Remove
    \/ \E n \in Networks : Lookup(n) \/ LookupAll(n)
    \/ Snapshot
    \/ \E in \in Ports, pdu \in Packets, busy \in BOOLEAN : Evaluate(in, pdu, busy)
    \/ Return \/ Tick

Spec == Init /\ [][Next]_vars

-----------------------------------------------------------------------------
(* Properties *)

RouteType ==
    {NoRoute, ConnectedRoute}
      \cup [kind : {"learned"}, lastSeen : Nat, expiresAt : Nat]

ForwardType == [OutPort : Ports, Kind : {"local-delivery", "transit"}, hop : 0 .. 254]

ReplyType ==
    {Idle}
      \cup [op : {"Lookup", "LookupAll", "Snapshot"}, network : Networks \cup {Local},
            entries : SUBSET (Networks \X Ports)]
      \cup [op : {"Evaluate"}, inPort : Ports, pdu : PacketType, DeliverLocally : BOOLEAN,
            Forwards : SUBSET ForwardType,
            DropReason : {"none", "unknown-destination", "same-port", "loop-suppressed",
                          "router-busy", "hop-count-expired"},
            RejectResponse : {"none", "other", "router-busy", "too-many-hops"}]

\* Routes, the clock and replies stay in their types; a hop count never wraps.
TypeOK ==
    /\ routes \in [Networks -> [Ports -> RouteType]]
    /\ now \in 0 .. MaxTime
    /\ reply \in ReplyType

\* A route that may be used: connected, or learned and not yet expired.
Live(n, p) ==
    \/ routes[n][p].kind = "connected"
    \/ routes[n][p].kind = "learned" /\ now < routes[n][p].expiresAt

\* No packet is sent by a route that has expired, although expired routes stay
\* in the table until a call prunes it (pruneExpiredLocked): a port that is
\* sent to has a live route to the destination.
ForwardsLive ==
    reply.op = "Evaluate" =>
        \A f \in reply.Forwards :
            \E n \in Networks : reply.pdu.dnet \in {n, Global} /\ Live(n, f.OutPort)

\* Lookup, LookupAll and Snapshot report no route that has expired by the time
\* of the call, and the latter two leave out none that has not.
ReadsExact ==
    [][/\ reply'.op = "Snapshot" /\ reply = Idle =>
            reply'.entries = {e \in Networks \X Ports : Live(e[1], e[2])}
       /\ reply'.op = "LookupAll" /\ reply = Idle =>
            reply'.entries = {e \in {reply'.network} \X Ports : Live(e[1], e[2])}
       /\ reply'.op = "Lookup" /\ reply = Idle =>
            reply'.entries \subseteq {e \in {reply'.network} \X Ports : Live(e[1], e[2])}]_vars

\* A connected route ends only when it is removed on request: no packet, no
\* advertisement and no expiry displaces it (upsertRouteLocked).
ConnectedStays ==
    [][\A n \in Networks, p \in Ports :
          routes[n][p].kind = "connected" => routes'[n][p].kind = "connected" \/ Remove]_vars

\* Loop suppression (Evaluate): nothing is sent back to the port a packet came
\* from, nor to a port that led to its source network before it came.
NoEcho ==
    [][reply'.op = "Evaluate" /\ reply = Idle =>
          \A f \in reply'.Forwards :
              /\ f.OutPort # reply'.inPort
              /\ reply'.pdu.snet # Local => ~Live(reply'.pdu.snet, f.OutPort)]_vars

Orders(S) ==
    {o \in [1 .. Cardinality(S) -> S] : \A i, j \in DOMAIN o : o[i] = o[j] => i = j}

\* Lookup does not depend on the order in which the map is walked
\* (bestRouteLocked: "picks a deterministic best route"), finds a route
\* whenever there is one, and agrees with the head of LookupAll's list.
BestDeterministic ==
    reply = Idle => \A n \in Networks :
        PortsTo(routes, n) # {} =>
            /\ \A order \in Orders(PortsTo(routes, n)) :
                   Best(routes, n) = {Scan(routes, n, order)}
            /\ First(routes, n) = Best(routes, n)

\* After a routed packet has come through, an answer finds its way back: there
\* is a best route to its source network, and it is a connected one or one
\* learned just now.
ReplyPath ==
    reply.op = "Evaluate" /\ reply.pdu.dnet # Local /\ reply.pdu.snet # Local =>
        \E p \in Best(routes, reply.pdu.snet) :
            LET rec == routes[reply.pdu.snet][p]
            IN  rec.kind = "connected" \/ rec.lastSeen = now

\* The rules in the comment of Evaluate, together: a unicast packet is sent out
\* once or dropped with a reason; only unicast packets that are dropped are
\* rejected; network-layer messages are always delivered locally; whatever
\* goes on to another router has a hop left, and one less than it had.
Accounted ==
    reply.op = "Evaluate" =>
        /\ reply.pdu.dnet \in Networks =>
              /\ reply.Forwards = {} <=> reply.DropReason # "none"
              /\ \A f, g \in reply.Forwards : f = g
        /\ reply.RejectResponse # "none" =>
              reply.pdu.dnet \in Networks /\ reply.Forwards = {}
        /\ reply.pdu.nlm => reply.DeliverLocally
        /\ \A f \in reply.Forwards :
              f.Kind = "transit" => f.hop >= 1 /\ f.hop + 1 = reply.pdu.hop
=============================================================================
