---------------------------- MODULE RouterProof ----------------------------
(* Theorems about Router, for any ports, networks, packets and times. *)
EXTENDS Router, FiniteSetTheorems, FunctionTheorems, TLAPS

TableType == [Networks -> [Ports -> RouteType]]

\* The two special network numbers have no routes.
LEMMA SpecialNetworks == Local \notin Networks /\ Global \notin Networks
    BY NetworksAssumption

\* Ports are numbered, and there are finitely many.
LEMMA PortNumbers == Ports \subseteq Nat /\ IsFiniteSet(Ports)
<1>1. Ports \subseteq Nat /\ \A p \in Ports : p <= 255
    BY PortsAssumption
<1> QED
    BY <1>1, FS_BoundedSetOfNaturals

\* A set of numbers that is not empty has a least one.
LEMMA LeastNumber ==
    ASSUME NEW T \in SUBSET Nat, T # {}
    PROVE  \E x \in T : \A y \in T : x <= y
<1> DEFINE R == OpToRel(<, Nat)
<1>1. IsWellFoundedOn(R, Nat)
    BY NatLessThanWellFounded
<1>2. \A a, b \in Nat : a < b => <<a, b>> \in R
    BY DEF OpToRel
<1> HIDE DEF R
<1>3. PICK x \in T : \A y \in T : ~(<<y, x>> \in R)
    BY <1>1, WFMin
<1>4. \A y \in T : ~(y < x)
    BY <1>2, <1>3
<1> QED
    BY <1>4

-----------------------------------------------------------------------------
(* The preference between routes *)

\* Two routes to one network are always comparable, and never both ways: what
\* bestRouteLocked finds is unique.
THEOREM BestUnique ==
    ASSUME NEW table \in TableType, NEW n \in Networks,
           NEW p \in Best(table, n), NEW q \in Best(table, n)
    PROVE  p = q
<1> SUFFICES ASSUME p # q PROVE FALSE
    OBVIOUS
<1>1. p \in Ports /\ q \in Ports /\ p \in Nat /\ q \in Nat
    BY PortNumbers DEF Best, PortsTo
<1>2. /\ Replaces(table[n][p], p, table[n][q], q)
      /\ Replaces(table[n][q], q, table[n][p], p)
    BY DEF Best
<1>3. table[n][p] \in RouteType /\ table[n][q] \in RouteType
    BY <1>1 DEF TableType
<1> QED
    BY <1>1, <1>2, <1>3 DEF Replaces, RouteType, NoRoute, ConnectedRoute

\* The comparison in the loop of bestRouteLocked and the one that sorts the list
\* of LookupAll are the same relation, so the best route is the first listed.
THEOREM BestIsFirst ==
    ASSUME NEW table \in TableType, NEW n \in Networks
    PROVE  First(table, n) = Best(table, n)
<1>1. ASSUME NEW p \in PortsTo(table, n), NEW q \in PortsTo(table, n), p # q
      PROVE  Precedes(table[n][p], p, table[n][q], q)
                <=> Replaces(table[n][p], p, table[n][q], q)
  <2>1. p \in Nat /\ q \in Nat
    BY PortNumbers DEF PortsTo
  <2>2. /\ table[n][p] \in RouteType \ {NoRoute}
        /\ table[n][q] \in RouteType \ {NoRoute}
    BY DEF TableType, PortsTo
  <2>3. /\ table[n][p].kind \in {"connected", "learned"}
        /\ table[n][q].kind \in {"connected", "learned"}
        /\ table[n][p].lastSeen \in Nat /\ table[n][q].lastSeen \in Nat
    BY <2>2 DEF RouteType, ConnectedRoute
  <2> QED
    BY <2>1, <2>3 DEF Precedes, Replaces
<1> QED
    BY <1>1 DEF First, Best

-----------------------------------------------------------------------------
(* The table *)

\* Inserting a record keeps the table a table, and changes one entry at most.
LEMMA UpsertTable ==
    ASSUME NEW table \in TableType, NEW n \in Networks, NEW p \in Ports,
           NEW rec \in RouteType
    PROVE  /\ Upsert(table, n, p, rec) \in TableType
           /\ \A m \in Networks, q \in Ports :
                 \/ Upsert(table, n, p, rec)[m][q] = table[m][q]
                 \/ /\ m = n /\ q = p /\ Upsert(table, n, p, rec)[m][q] = rec
                    /\ ~Keeps(table[m][q], rec)
<1>1. CASE Keeps(table[n][p], rec)
    BY <1>1 DEF Upsert
<1>2. CASE ~Keeps(table[n][p], rec)
  <2>1. Upsert(table, n, p, rec) = [table EXCEPT ![n][p] = rec]
    BY <1>2 DEF Upsert
  <2> QED
    BY <1>2, <2>1 DEF TableType
<1> QED
    BY <1>1, <1>2

\* A learned record is a record and lives beyond the present.
LEMMA LearnedRecord ==
    ASSUME now \in Nat, NEW ttl \in Nat \ {0}
    PROVE  /\ LearnedRoute(ttl) \in RouteType
           /\ LearnedRoute(ttl).kind = "learned"
           /\ now < LearnedRoute(ttl).expiresAt
    BY DEF LearnedRoute, RouteType

\* Pruning keeps what is live, unchanged, and nothing else.
LEMMA PrunedTable ==
    ASSUME TypeOK
    PROVE  /\ Pruned \in TableType
           /\ \A n \in Networks, p \in Ports :
                 /\ Live(n, p) => Pruned[n][p] = routes[n][p] /\ Pruned[n][p] # NoRoute
                 /\ ~Live(n, p) => Pruned[n][p] = NoRoute
<1>1. ASSUME NEW n \in Networks, NEW p \in Ports
      PROVE  /\ Pruned[n][p] \in RouteType
             /\ Live(n, p) => Pruned[n][p] = routes[n][p] /\ Pruned[n][p] # NoRoute
             /\ ~Live(n, p) => Pruned[n][p] = NoRoute
  <2>1. routes[n][p] \in RouteType /\ now \in Nat
    BY MaxTimeAssumption DEF TypeOK
  <2>2. Pruned[n][p] = IF Expired(routes[n][p]) THEN NoRoute ELSE routes[n][p]
    BY DEF Pruned
  <2>3. CASE routes[n][p] = NoRoute
    BY <2>2, <2>3 DEF Live, Expired, NoRoute, RouteType
  <2>4. CASE routes[n][p] = ConnectedRoute
    BY <2>2, <2>4 DEF Live, Expired, NoRoute, ConnectedRoute, RouteType
  <2>5. CASE routes[n][p] \in [kind : {"learned"}, lastSeen : Nat, expiresAt : Nat]
    BY <2>1, <2>2, <2>5 DEF Live, Expired, NoRoute, RouteType
  <2> QED
    BY <2>1, <2>3, <2>4, <2>5 DEF RouteType
<1> QED
    BY <1>1 DEF Pruned, TableType

\* The table that Evaluate decides by: every route in it is live, connected
\* routes are still there, and only the ingress port is new.
LEMMA LearnedTable ==
    ASSUME TypeOK, NEW in \in Ports, NEW pdu \in PacketType,
           routes' = Learned(in, pdu), now' = now
    PROVE  /\ routes' \in TableType
           /\ \A n \in Networks, p \in Ports :
                 /\ routes'[n][p] # NoRoute => Live(n, p)'
                 /\ routes[n][p].kind = "connected" => routes'[n][p].kind = "connected"
<1>1. now \in Nat
    BY MaxTimeAssumption DEF TypeOK
<1>2. CASE pdu.snet = Local
  <2>1. routes' = Pruned
    BY <1>2 DEF Learned
  <2> QED
    BY <2>1, PrunedTable DEF Live
<1>3. CASE pdu.snet # Local
  <2> DEFINE rec == LearnedRoute(LearnTTL)
  <2>1. pdu.snet \in Networks
    BY <1>3 DEF PacketType
  <2>2. rec \in RouteType /\ rec.kind = "learned" /\ now < rec.expiresAt
    BY <1>1, LearnedRecord, LearnTTLAssumption
  <2>3. routes' = Upsert(Pruned, pdu.snet, in, rec)
    BY <1>3 DEF Learned
  <2> HIDE DEF rec
  <2>4. /\ routes' \in TableType
        /\ \A n \in Networks, p \in Ports :
              \/ routes'[n][p] = Pruned[n][p]
              \/ routes'[n][p] = rec /\ ~Keeps(Pruned[n][p], rec)
    BY <2>1, <2>2, <2>3, PrunedTable, UpsertTable
  <2>5. ASSUME NEW n \in Networks, NEW p \in Ports
        PROVE  /\ routes'[n][p] # NoRoute => Live(n, p)'
               /\ routes[n][p].kind = "connected" => routes'[n][p].kind = "connected"
    <3>1. CASE routes'[n][p] = Pruned[n][p]
      BY <3>1, PrunedTable DEF Live
    <3>2. CASE routes'[n][p] = rec /\ ~Keeps(Pruned[n][p], rec)
      BY <2>2, <3>2, PrunedTable DEF Live, Keeps
    <3> QED
      BY <2>4, <3>1, <3>2
  <2> QED
    BY <2>4, <2>5
<1> QED
    BY <1>2, <1>3

-----------------------------------------------------------------------------
(* The decision *)

\* What holds of every forward of a decision.
ForwardOK(f, table, in, sources, pdu) ==
    /\ f \in ForwardType
    /\ f.OutPort # in /\ f.OutPort \notin sources
    /\ \E n \in Networks : pdu.dnet \in {n, Global} /\ table[n][f.OutPort] # NoRoute
    /\ f.Kind = "transit" => f.hop >= 1 /\ f.hop + 1 = pdu.hop

\* What holds of every decision.
DecisionOK(d, table, in, sources, pdu) ==
    /\ d \in ReplyType
    /\ d.op = "Evaluate" /\ d.inPort = in /\ d.pdu = pdu
    /\ \A f \in d.Forwards : ForwardOK(f, table, in, sources, pdu)
    /\ pdu.dnet \in Networks =>
          /\ d.Forwards = {} <=> d.DropReason # "none"
          /\ \A f, g \in d.Forwards : f = g
    /\ d.RejectResponse # "none" => pdu.dnet \in Networks /\ d.Forwards = {}
    /\ pdu.nlm => d.DeliverLocally

DropReasons == {"unknown-destination", "same-port", "loop-suppressed", "router-busy",
                "hop-count-expired"}

Rejects == {"none", "other", "router-busy", "too-many-hops"}

\* Forwards of the two kinds, built for an admissible port.
LEMMA BuiltForward ==
    ASSUME NEW pdu \in PacketType, NEW p \in Ports, NEW in, NEW sources, NEW table,
           p # in, p \notin sources,
           \E n \in Networks : pdu.dnet \in {n, Global} /\ table[n][p] # NoRoute
    PROVE  /\ ForwardOK(LocalDelivery(p), table, in, sources, pdu)
           /\ ~HopsExhausted(pdu) => ForwardOK(Transit(p, pdu), table, in, sources, pdu)
<1>1. pdu.hop \in 0 .. 255
    BY DEF PacketType
<1>2. ForwardOK(LocalDelivery(p), table, in, sources, pdu)
    BY DEF ForwardOK, LocalDelivery, ForwardType
<1>3. ASSUME ~HopsExhausted(pdu)
      PROVE  ForwardOK(Transit(p, pdu), table, in, sources, pdu)
  <2>1. pdu.hop - 1 \in 0 .. 254 /\ pdu.hop - 1 >= 1 /\ (pdu.hop - 1) + 1 = pdu.hop
    BY <1>1, <1>3 DEF HopsExhausted
  <2> QED
    BY <2>1 DEF ForwardOK, Transit, ForwardType
<1> QED
    BY <1>2, <1>3

\* A drop is a decision without forwards.
LEMMA DropDecision ==
    ASSUME NEW pdu \in PacketType, pdu.dnet \in Networks, NEW in \in Ports, NEW table,
           NEW sources, NEW reason \in DropReasons, NEW reject \in Rejects
    PROVE  DecisionOK(Drop(in, pdu, reason, reject), table, in, sources, pdu)
    BY DEF DecisionOK, Drop, Decision, DropReasons, Rejects, ReplyType, PacketType

\* A decision with one forward, delivered locally or not.
LEMMA ForwardDecision ==
    ASSUME NEW pdu \in PacketType, pdu.dnet \in Networks, NEW in \in Ports, NEW table,
           NEW sources, NEW f, ForwardOK(f, table, in, sources, pdu),
           NEW deliver \in BOOLEAN, pdu.nlm => deliver
    PROVE  DecisionOK(Decision(in, pdu, deliver, {f}, "none", "none"), table, in, sources, pdu)
    BY DEF DecisionOK, Decision, ForwardOK, ReplyType

LEMMA UnicastDecision ==
    ASSUME NEW table \in TableType, NEW in \in Ports, NEW sources, NEW busy \in BOOLEAN,
           NEW pdu \in PacketType, pdu.dnet \in Networks
    PROVE  DecisionOK(Unicast(table, in, sources, pdu, busy), table, in, sources, pdu)
<1>1. CASE Best(table, pdu.dnet) = {}
  <2>1. Unicast(table, in, sources, pdu, busy) = Drop(in, pdu, "unknown-destination", "other")
    BY <1>1 DEF Unicast
  <2> QED
    BY <2>1, DropDecision DEF DropReasons, Rejects
<1>2. CASE Best(table, pdu.dnet) # {}
  <2> DEFINE p == CHOOSE q \in Best(table, pdu.dnet) : TRUE
  <2>1. p \in Best(table, pdu.dnet)
    BY <1>2
  <2>2. Unicast(table, in, sources, pdu, busy) = Relay(table, in, sources, pdu, busy, p)
    BY <1>2 DEF Unicast
  <2> HIDE DEF p
  <2>3. p \in Ports /\ table[pdu.dnet][p] # NoRoute
    BY <2>1 DEF Best, PortsTo
  <2>4. pdu.nlm \in BOOLEAN
    BY DEF PacketType
  <2>5. CASE p = in
    BY <2>2, <2>5, DropDecision DEF Relay, DropReasons, Rejects
  <2>6. CASE p # in /\ p \in sources
    BY <2>2, <2>6, DropDecision DEF Relay, DropReasons, Rejects
  <2>7. CASE p # in /\ p \notin sources
    <3>1. /\ ForwardOK(LocalDelivery(p), table, in, sources, pdu)
          /\ ~HopsExhausted(pdu) => ForwardOK(Transit(p, pdu), table, in, sources, pdu)
      BY <2>3, <2>7, BuiltForward
    <3>2. CASE busy
      BY <2>2, <2>7, <3>2, DropDecision DEF Relay, DropReasons, Rejects
    <3>3. CASE ~busy /\ table[pdu.dnet][p].kind = "connected"
      BY <2>2, <2>7, <3>1, <3>3, ForwardDecision DEF Relay, Deliver
    <3>4. CASE ~busy /\ table[pdu.dnet][p].kind # "connected" /\ HopsExhausted(pdu)
      BY <2>2, <2>7, <3>4, DropDecision DEF Relay, DropReasons, Rejects
    <3>5. CASE ~busy /\ table[pdu.dnet][p].kind # "connected" /\ ~HopsExhausted(pdu)
      BY <2>2, <2>4, <2>7, <3>1, <3>5, ForwardDecision DEF Relay
    <3> QED
      BY <3>2, <3>3, <3>4, <3>5
  <2> QED
    BY <2>5, <2>6, <2>7
<1> QED
    BY <1>1, <1>2

LEMMA BroadcastDecision ==
    ASSUME NEW table \in TableType, NEW in \in Ports, NEW sources, NEW busy \in BOOLEAN,
           NEW pdu \in PacketType, pdu.dnet = Global
    PROVE  DecisionOK(Broadcast(table, in, sources, pdu, busy), table, in, sources, pdu)
<1>1. Global \notin Networks
    BY SpecialNetworks
<1>a. pdu.nlm \in BOOLEAN
    BY DEF PacketType
<1>2. ASSUME NEW forwards, \A f \in forwards : ForwardOK(f, table, in, sources, pdu),
             NEW drop \in {"none", "router-busy"}
      PROVE  DecisionOK(Decision(in, pdu, TRUE, forwards, drop, "none"), table, in, sources, pdu)
    BY <1>1, <1>a, <1>2 DEF DecisionOK, Decision, ForwardOK, ReplyType
<1>3. \A f \in Fanout(table, in, sources, pdu) : ForwardOK(f, table, in, sources, pdu)
    BY BuiltForward DEF Fanout
<1> QED
    BY <1>2, <1>3 DEF Broadcast, Deliver

-----------------------------------------------------------------------------
(* The steps *)

IInv == TypeOK /\ ForwardsLive /\ Accounted

\* One step of Evaluate: the decision, by the table as it is then, is sound, and
\* the ports of the source network were live before.
LEMMA EvaluateStep ==
    ASSUME IInv, NEW in \in Ports, NEW pdu \in Packets, NEW busy \in BOOLEAN,
           Evaluate(in, pdu, busy)
    PROVE  /\ IInv'
           /\ reply'.op = "Evaluate" /\ reply'.inPort = in /\ reply'.pdu = pdu
           /\ \A f \in reply'.Forwards : f.OutPort # in /\ f.OutPort \notin SourcePorts(in, pdu)
           /\ \A n \in Networks, p \in Ports :
                 routes[n][p].kind = "connected" => routes'[n][p].kind = "connected"
<1>1. pdu \in PacketType /\ pdu.nlm \in BOOLEAN
    BY PacketsAssumption DEF PacketType
<1>2. CASE EvaluateLocal(in, pdu)
  <2>1. reply' = Decision(in, pdu, TRUE, {}, "none", "none") /\ routes' = routes /\ now' = now
    BY <1>2 DEF EvaluateLocal, Deliver
  <2>2. reply' \in ReplyType
    BY <1>1, <2>1 DEF Decision, ReplyType
  <2> QED
    BY <1>2, <2>1, <2>2, SpecialNetworks
    DEF IInv, TypeOK, ForwardsLive, Accounted, Decision, EvaluateLocal
<1>3. ASSUME routes' = Learned(in, pdu), now' = now,
             DecisionOK(reply', routes', in, SourcePorts(in, pdu), pdu)
      PROVE  /\ IInv'
             /\ reply'.op = "Evaluate" /\ reply'.inPort = in /\ reply'.pdu = pdu
             /\ \A f \in reply'.Forwards : f.OutPort # in /\ f.OutPort \notin SourcePorts(in, pdu)
             /\ \A n \in Networks, p \in Ports :
                   routes[n][p].kind = "connected" => routes'[n][p].kind = "connected"
  <2>1. /\ routes' \in TableType
        /\ \A n \in Networks, p \in Ports :
              /\ routes'[n][p] # NoRoute => Live(n, p)'
              /\ routes[n][p].kind = "connected" => routes'[n][p].kind = "connected"
    BY <1>1, <1>3, LearnedTable DEF IInv
  <2>2. TypeOK'
    BY <1>3, <2>1 DEF IInv, TypeOK, TableType, DecisionOK
  <2>3. ForwardsLive'
    <3> SUFFICES ASSUME NEW f \in reply'.Forwards
                 PROVE  \E n \in Networks : reply'.pdu.dnet \in {n, Global} /\ Live(n, f.OutPort)'
      BY DEF ForwardsLive
    <3>1. f.OutPort \in Ports
      BY <1>3 DEF DecisionOK, ForwardOK, ForwardType
    <3>2. PICK n \in Networks : pdu.dnet \in {n, Global} /\ routes'[n][f.OutPort] # NoRoute
      BY <1>3 DEF DecisionOK, ForwardOK
    <3> QED
      BY <1>3, <2>1, <3>1, <3>2 DEF DecisionOK
  <2>4. Accounted'
    BY <1>3 DEF DecisionOK, ForwardOK, Accounted
  <2> QED
    BY <1>3, <2>1, <2>2, <2>3, <2>4 DEF IInv, DecisionOK, ForwardOK
<1>4. CASE EvaluateBroadcast(in, pdu, busy)
  <2>1. routes' = Learned(in, pdu) /\ now' = now /\ pdu.dnet = Global
    BY <1>4 DEF EvaluateBroadcast
  <2>2. routes' \in TableType
    BY <1>1, <2>1, LearnedTable DEF IInv
  <2>3. DecisionOK(reply', routes', in, SourcePorts(in, pdu), pdu)
    BY <1>1, <1>4, <2>1, <2>2, BroadcastDecision DEF EvaluateBroadcast
  <2> QED
    BY <1>3, <2>1, <2>3
<1>5. CASE EvaluateUnicast(in, pdu, busy)
  <2>1. routes' = Learned(in, pdu) /\ now' = now /\ pdu.dnet \in Networks
    BY <1>5 DEF EvaluateUnicast
  <2>2. routes' \in TableType
    BY <1>1, <2>1, LearnedTable DEF IInv
  <2>3. DecisionOK(reply', routes', in, SourcePorts(in, pdu), pdu)
    BY <1>1, <1>5, <2>1, <2>2, UnicastDecision DEF EvaluateUnicast
  <2> QED
    BY <1>3, <2>1, <2>3
<1> QED
    BY <1>2, <1>4, <1>5 DEF Evaluate

\* The calls that read: exactly the live routes are reported.
LEMMA ReadStep ==
    ASSUME IInv, Snapshot \/ \E n \in Networks : Lookup(n) \/ LookupAll(n)
    PROVE  /\ IInv' /\ routes' = Pruned
           /\ reply'.op \in {"Lookup", "LookupAll", "Snapshot"}
           /\ reply'.op = "Snapshot" =>
                 reply'.entries = {e \in Networks \X Ports : Live(e[1], e[2])}
           /\ reply'.op = "LookupAll" =>
                 reply'.entries = {e \in {reply'.network} \X Ports : Live(e[1], e[2])}
           /\ reply'.op = "Lookup" =>
                 reply'.entries \subseteq {e \in {reply'.network} \X Ports : Live(e[1], e[2])}
<1>1. /\ Pruned \in TableType
      /\ \A n \in Networks, p \in Ports : Pruned[n][p] # NoRoute <=> Live(n, p)
    BY PrunedTable DEF IInv
<1>2. \A n \in Networks : PortsTo(Pruned, n) = {p \in Ports : Live(n, p)}
    BY <1>1 DEF PortsTo
<1>3. ASSUME reply' \in ReplyType, routes' = Pruned, now' = now, reply'.op # "Evaluate"
      PROVE  IInv'
    BY <1>1, <1>3 DEF IInv, TypeOK, TableType, ForwardsLive, Accounted
<1>4. CASE Snapshot
  <2> DEFINE S == {e \in Networks \X Ports : e[2] \in PortsTo(Pruned, e[1])}
  <2>1. reply' = [op |-> "Snapshot", network |-> Local, entries |-> S]
        /\ routes' = Pruned /\ now' = now
    BY <1>4 DEF Snapshot, Entries
  <2>2. S = {e \in Networks \X Ports : Live(e[1], e[2])}
    BY <1>2
  <2> HIDE DEF S
  <2>3. S \in SUBSET (Networks \X Ports)
    BY <2>2
  <2>4. reply' \in ReplyType
    BY <2>1, <2>3 DEF ReplyType
  <2> QED
    BY <1>3, <2>1, <2>2, <2>4
<1>5. ASSUME NEW n \in Networks, LookupAll(n)
      PROVE  /\ IInv' /\ routes' = Pruned /\ reply'.op = "LookupAll"
             /\ reply'.entries = {e \in {reply'.network} \X Ports : Live(e[1], e[2])}
  <2> DEFINE S == {n} \X PortsTo(Pruned, n)
  <2>1. reply' = [op |-> "LookupAll", network |-> n, entries |-> S]
        /\ routes' = Pruned /\ now' = now
    BY <1>5 DEF LookupAll, Entries
  <2>2. S = {e \in {n} \X Ports : Live(e[1], e[2])} /\ S \in SUBSET (Networks \X Ports)
    BY <1>2
  <2> HIDE DEF S
  <2>4. reply' \in ReplyType
    BY <2>1, <2>2 DEF ReplyType
  <2> QED
    BY <1>3, <2>1, <2>2, <2>4
<1>6. ASSUME NEW n \in Networks, Lookup(n)
      PROVE  /\ IInv' /\ routes' = Pruned /\ reply'.op = "Lookup"
             /\ reply'.entries \subseteq {e \in {reply'.network} \X Ports : Live(e[1], e[2])}
  <2> DEFINE S == {n} \X Best(Pruned, n)
  <2>1. reply' = [op |-> "Lookup", network |-> n, entries |-> S]
        /\ routes' = Pruned /\ now' = now
    BY <1>6 DEF Lookup, Entries
  <2>2. S \subseteq {e \in {n} \X Ports : Live(e[1], e[2])} /\ S \in SUBSET (Networks \X Ports)
    BY <1>2 DEF Best
  <2> HIDE DEF S
  <2>4. reply' \in ReplyType
    BY <2>1, <2>2 DEF ReplyType
  <2> QED
    BY <1>3, <2>1, <2>2, <2>4
<1> QED
    BY <1>4, <1>5, <1>6

\* The calls that change the table on request leave no reply.
LEMMA TableStep ==
    ASSUME IInv, NEW n \in Networks, NEW p \in Ports, NEW ttl \in Nat,
           \/ AddConnectedRoute(n, p) \/ AddLearnedRoute(n, p, ttl)
           \/ RemoveRoute(n) \/ RemoveRouteOnPort(n, p)
    PROVE  IInv' /\ reply' = Idle
<1>1. now \in Nat /\ routes \in TableType /\ reply = Idle /\ reply' = Idle /\ now' = now
    BY MaxTimeAssumption DEF IInv, TypeOK, TableType, AddConnectedRoute, AddLearnedRoute,
       RemoveRoute, RemoveRouteOnPort
<1>2. ASSUME routes' \in TableType PROVE IInv'
    BY <1>1, <1>2 DEF IInv, TypeOK, TableType, ForwardsLive, Accounted, Idle
<1>3. CASE AddConnectedRoute(n, p)
  <2>1. ConnectedRoute \in RouteType
    BY DEF RouteType
  <2> QED
    BY <1>1, <1>2, <1>3, <2>1, UpsertTable DEF AddConnectedRoute
<1>4. CASE AddLearnedRoute(n, p, ttl)
  <2>1. ttl \in Nat \ {0}
    BY <1>4 DEF AddLearnedRoute
  <2> QED
    BY <1>1, <1>2, <1>4, <2>1, LearnedRecord, UpsertTable DEF AddLearnedRoute
<1>5. CASE RemoveRoute(n)
    BY <1>1, <1>2, <1>5 DEF RemoveRoute, TableType, RouteType
<1>6. CASE RemoveRouteOnPort(n, p)
    BY <1>1, <1>2, <1>6 DEF RemoveRouteOnPort, TableType, RouteType
<1> QED
    BY <1>3, <1>4, <1>5, <1>6

\* An advertisement leaves connected routes alone.
LEMMA AddKeepsConnected ==
    ASSUME IInv, NEW n \in Networks, NEW p \in Ports, NEW ttl \in Nat,
           AddConnectedRoute(n, p) \/ AddLearnedRoute(n, p, ttl),
           NEW m \in Networks, NEW q \in Ports, routes[m][q].kind = "connected"
    PROVE  routes'[m][q].kind = "connected"
<1>1. now \in Nat /\ routes \in TableType
    BY MaxTimeAssumption DEF IInv, TypeOK, TableType
<1>2. CASE AddConnectedRoute(n, p)
  <2>1. ConnectedRoute \in RouteType /\ ConnectedRoute.kind = "connected"
    BY DEF RouteType, ConnectedRoute
  <2>2. routes' = Upsert(routes, n, p, ConnectedRoute)
    BY <1>2 DEF AddConnectedRoute
  <2>3. routes'[m][q] = routes[m][q] \/ routes'[m][q] = ConnectedRoute
    BY <1>1, <2>1, <2>2, UpsertTable
  <2> QED
    BY <2>1, <2>3
<1>3. CASE AddLearnedRoute(n, p, ttl)
  <2> DEFINE rec == LearnedRoute(ttl)
  <2>1. rec \in RouteType /\ rec.kind = "learned"
    BY <1>1, <1>3, LearnedRecord DEF AddLearnedRoute
  <2>2. routes' = Upsert(routes, n, p, rec)
    BY <1>3 DEF AddLearnedRoute
  <2> HIDE DEF rec
  <2>3. routes'[m][q] = routes[m][q] \/ ~Keeps(routes[m][q], rec)
    BY <1>1, <2>1, <2>2, UpsertTable
  <2> QED
    BY <2>1, <2>3 DEF Keeps
<1> QED
    BY <1>2, <1>3

-----------------------------------------------------------------------------
(* The theorems *)

\* Next, with the inputs that validateRoute refuses left out.
LEMMA NextCases ==
    ASSUME Next
    PROVE  \/ \E n \in Networks, p \in Ports, ttl \in Nat :
                 AddConnectedRoute(n, p) \/ AddLearnedRoute(n, p, ttl)
           \/ Remove
           \/ Snapshot \/ \E n \in Networks : Lookup(n) \/ LookupAll(n)
           \/ \E in \in Ports, pdu \in Packets, busy \in BOOLEAN : Evaluate(in, pdu, busy)
           \/ Return \/ Tick
<1>1. ASSUME NEW n \in Networks \cup {Local, Global}, NEW p \in Ports, AddConnectedRoute(n, p)
      PROVE  \E m \in Networks, q \in Ports, ttl \in Nat : AddConnectedRoute(m, q)
  <2>1. n \in Networks /\ 0 \in Nat
    BY <1>1 DEF AddConnectedRoute, Routable
  <2> QED
    BY <1>1, <2>1
<1>2. ASSUME NEW n \in Networks \cup {Local, Global}, NEW p \in Ports, NEW ttl \in TTLs,
             AddLearnedRoute(n, p, ttl)
      PROVE  \E m \in Networks, q \in Ports, t \in Nat : AddLearnedRoute(m, q, t)
  <2>1. n \in Networks /\ ttl \in Nat
    BY <1>2, TTLsAssumption DEF AddLearnedRoute, Routable
  <2> QED
    BY <1>2, <2>1
<1> QED
    BY <1>1, <1>2 DEF Next

LEMMA InitInv == Init => IInv
    BY MaxTimeAssumption
    DEF Init, IInv, TypeOK, RouteType, ReplyType, ForwardsLive, Accounted, Idle

LEMMA NextInv == ASSUME IInv, [Next]_vars PROVE IInv'
<1>1. CASE \E n \in Networks, p \in Ports, ttl \in Nat :
              AddConnectedRoute(n, p) \/ AddLearnedRoute(n, p, ttl)
    BY <1>1, TableStep
<1>2. CASE Remove
  <2>1. PICK n \in Networks : RemoveRoute(n) \/ \E p \in Ports : RemoveRouteOnPort(n, p)
    BY <1>2 DEF Remove
  <2>2. CASE RemoveRoute(n)
    <3>1. reply' = reply /\ now' = now /\ reply = Idle
          /\ routes' \in [Networks -> [Ports -> RouteType]]
      BY <2>2 DEF RemoveRoute, IInv, TypeOK, RouteType
    <3> QED
      BY <3>1 DEF IInv, TypeOK, ForwardsLive, Accounted, Idle
  <2>3. CASE \E p \in Ports : RemoveRouteOnPort(n, p)
    <3>1. 0 \in Nat
      OBVIOUS
    <3> QED
      BY <2>3, <3>1, TableStep
  <2> QED
    BY <2>1, <2>2, <2>3
<1>3. CASE Snapshot \/ \E n \in Networks : Lookup(n) \/ LookupAll(n)
    BY <1>3, ReadStep
<1>4. CASE \E in \in Ports, pdu \in Packets, busy \in BOOLEAN : Evaluate(in, pdu, busy)
    BY <1>4, EvaluateStep
<1>5. CASE Return
    BY <1>5 DEF Return, IInv, TypeOK, ReplyType, ForwardsLive, Accounted, Idle
<1>6. CASE Tick
    BY <1>6, MaxTimeAssumption DEF Tick, IInv, TypeOK, ForwardsLive, Accounted, Idle
<1>7. CASE UNCHANGED vars
    BY <1>7 DEF vars, IInv, TypeOK, ForwardsLive, Accounted, Live
<1> QED
    BY <1>1, <1>2, <1>3, <1>4, <1>5, <1>6, <1>7, NextCases

THEOREM Invariance == Spec => []IInv
<1>1. IInv /\ [Next]_vars => IInv'
    BY NextInv
<1> QED
    BY InitInv, <1>1, PTL DEF Spec

\* The table and all decisions stay in their types: in particular no hop count
\* is taken below zero (buildForward).
THEOREM TypeCorrect == Spec => []TypeOK
<1>1. IInv => TypeOK
    BY DEF IInv
<1> QED
    BY Invariance, <1>1, PTL

\* No packet leaves by an expired route (pruneExpiredLocked, Evaluate), for any
\* table, packets, times to live and clock.
THEOREM ForwardsByLiveRoutes == Spec => []ForwardsLive
<1>1. IInv => ForwardsLive
    BY DEF IInv
<1> QED
    BY Invariance, <1>1, PTL

\* The rules in the comment of Evaluate hold of every decision.
THEOREM PacketsAccounted == Spec => []Accounted
<1>1. IInv => Accounted
    BY DEF IInv
<1> QED
    BY Invariance, <1>1, PTL

\* Connected routes end only by RemoveRoute and RemoveRouteOnPort.
THEOREM ConnectedRoutesStay == Spec => ConnectedStays
<1>1. IInv /\ [Next]_vars =>
        [\A n \in Networks, p \in Ports :
            routes[n][p].kind = "connected" => routes'[n][p].kind = "connected" \/ Remove]_vars
  <2> SUFFICES ASSUME IInv, Next, NEW n \in Networks, NEW p \in Ports,
                      routes[n][p].kind = "connected", ~Remove
               PROVE  routes'[n][p].kind = "connected"
    OBVIOUS
  <2>1. CASE \E m \in Networks, q \in Ports, ttl \in Nat :
                AddConnectedRoute(m, q) \/ AddLearnedRoute(m, q, ttl)
    BY <2>1, AddKeepsConnected
  <2>2. CASE Snapshot \/ \E m \in Networks : Lookup(m) \/ LookupAll(m)
    <3>1. routes' = Pruned
      BY <2>2, ReadStep
    <3>2. Live(n, p)
      BY DEF Live
    <3> QED
      BY <3>1, <3>2, PrunedTable DEF IInv
  <2>3. CASE \E in \in Ports, pdu \in Packets, busy \in BOOLEAN : Evaluate(in, pdu, busy)
    BY <2>3, EvaluateStep
  <2>4. CASE Return \/ Tick
    BY <2>4 DEF Return, Tick
  <2> QED
    BY <2>1, <2>2, <2>3, <2>4, NextCases
<1> QED
    BY Invariance, <1>1, PTL DEF Spec, ConnectedStays

\* Which steps reply: the reads and Evaluate.
LEMMA RepliesFrom ==
    ASSUME IInv, Next, reply = Idle, reply' # Idle
    PROVE  \/ Snapshot \/ \E n \in Networks : Lookup(n) \/ LookupAll(n)
           \/ \E in \in Ports, pdu \in Packets, busy \in BOOLEAN : Evaluate(in, pdu, busy)
    BY NextCases
    DEF AddConnectedRoute, AddLearnedRoute, Remove, RemoveRoute, RemoveRouteOnPort, Return, Tick

\* Loop suppression: a packet is never sent back to its ingress port, nor to any
\* port that led to its source network (sourcePortsForSNETLocked).
THEOREM NothingEchoed == Spec => NoEcho
<1>1. IInv /\ [Next]_vars =>
        [reply'.op = "Evaluate" /\ reply = Idle =>
            \A f \in reply'.Forwards :
                /\ f.OutPort # reply'.inPort
                /\ reply'.pdu.snet # Local => ~Live(reply'.pdu.snet, f.OutPort)]_vars
  <2> SUFFICES ASSUME IInv, Next, reply'.op = "Evaluate", reply = Idle,
                      NEW f \in reply'.Forwards
               PROVE  /\ f.OutPort # reply'.inPort
                      /\ reply'.pdu.snet # Local => ~Live(reply'.pdu.snet, f.OutPort)
    OBVIOUS
  <2>1. reply' # Idle
    BY DEF Idle
  <2>2. ~(Snapshot \/ \E n \in Networks : Lookup(n) \/ LookupAll(n))
    BY ReadStep
  <2>3. PICK in \in Ports, pdu \in Packets, busy \in BOOLEAN : Evaluate(in, pdu, busy)
    BY <2>1, <2>2, RepliesFrom
  <2>4. /\ IInv' /\ reply'.inPort = in /\ reply'.pdu = pdu
        /\ f.OutPort # in /\ f.OutPort \notin SourcePorts(in, pdu)
    BY <2>3, EvaluateStep
  <2>5. ASSUME pdu.snet # Local PROVE ~Live(pdu.snet, f.OutPort)
    <3>1. pdu.snet \in Networks
      BY <2>5, PacketsAssumption DEF PacketType
    <3>2. f.OutPort \in Ports
      BY <2>4 DEF IInv, TypeOK, ReplyType, ForwardType, Idle
    <3>3. Pruned[pdu.snet][f.OutPort] = NoRoute
      BY <2>4, <2>5, <3>2 DEF SourcePorts, PortsTo
    <3> QED
      BY <3>1, <3>2, <3>3, PrunedTable DEF IInv
  <2> QED
    BY <2>4, <2>5
<1> QED
    BY Invariance, <1>1, PTL DEF Spec, NoEcho

\* Lookup, LookupAll and Snapshot report live routes only, the latter two all.
THEOREM ReadsAreExact == Spec => ReadsExact
<1>1. IInv /\ [Next]_vars =>
        [/\ reply'.op = "Snapshot" /\ reply = Idle =>
              reply'.entries = {e \in Networks \X Ports : Live(e[1], e[2])}
         /\ reply'.op = "LookupAll" /\ reply = Idle =>
              reply'.entries = {e \in {reply'.network} \X Ports : Live(e[1], e[2])}
         /\ reply'.op = "Lookup" /\ reply = Idle =>
              reply'.entries \subseteq {e \in {reply'.network} \X Ports : Live(e[1], e[2])}]_vars
  <2> SUFFICES ASSUME IInv, Next, reply = Idle,
                      reply'.op \in {"Snapshot", "LookupAll", "Lookup"}
               PROVE  Snapshot \/ \E n \in Networks : Lookup(n) \/ LookupAll(n)
    BY ReadStep
  <2>1. reply' # Idle
    BY DEF Idle
  <2>2. ~(\E in \in Ports, pdu \in Packets, busy \in BOOLEAN : Evaluate(in, pdu, busy))
    BY EvaluateStep
  <2> QED
    BY <2>1, <2>2, RepliesFrom
<1> QED
    BY Invariance, <1>1, PTL DEF Spec, ReadsExact

-----------------------------------------------------------------------------
(* The way back *)

\* No route was seen after the present.
SeenOK == \A n \in Networks, p \in Ports : routes[n][p].lastSeen <= now

\* A network with a connected route, or with a learned one that is as recent as
\* any can be, has a best route, and it is of that kind.
LEMMA BestOfRecent ==
    ASSUME NEW table \in TableType, NEW n \in Networks, NEW t \in Nat, NEW in \in Ports,
           \A p \in Ports : table[n][p].lastSeen <= t,
           \/ table[n][in].kind = "connected"
           \/ table[n][in].kind = "learned" /\ table[n][in].lastSeen = t
    PROVE  \E p \in Best(table, n) :
              table[n][p].kind = "connected" \/ table[n][p].lastSeen = t
<1> DEFINE C == {p \in Ports : table[n][p].kind = "connected"}
           L == {p \in Ports : table[n][p].kind = "learned" /\ table[n][p].lastSeen = t}
<1>1. C \in SUBSET Nat /\ L \in SUBSET Nat /\ (C # {} \/ L # {})
    BY PortNumbers
<1>2. CASE C # {}
  <2>1. PICK p \in C : \A q \in C : p <= q
    BY <1>1, <1>2, LeastNumber
  <2>2. ASSUME NEW q \in PortsTo(table, n) \ {p}
        PROVE  Replaces(table[n][p], p, table[n][q], q)
    <3>1. p \in Nat /\ q \in Nat /\ p # q /\ q \in Ports /\ table[n][p].kind = "connected"
      BY <1>1, PortNumbers DEF PortsTo
    <3>2. CASE q \in C
      BY <2>1, <3>1, <3>2 DEF Replaces
    <3>3. CASE q \notin C
      BY <3>1, <3>3 DEF Replaces
    <3> QED
      BY <3>2, <3>3
  <2>3. p \in PortsTo(table, n)
    BY DEF PortsTo, NoRoute
  <2>4. p \in Best(table, n)
    BY <2>2, <2>3 DEF Best
  <2> QED
    BY <2>4
<1>3. CASE C = {} /\ L # {}
  <2>1. PICK p \in L : \A q \in L : p <= q
    BY <1>1, <1>3, LeastNumber
  <2>2. ASSUME NEW q \in PortsTo(table, n) \ {p}
        PROVE  Replaces(table[n][p], p, table[n][q], q)
    <3>1. /\ p \in Nat /\ q \in Nat /\ p # q /\ q \in Ports
          /\ table[n][p].kind = "learned" /\ table[n][p].lastSeen = t
      BY <1>1, PortNumbers DEF PortsTo
    <3>2. table[n][q].kind = "learned" /\ table[n][q].lastSeen \in Nat /\ table[n][q].lastSeen <= t
      <4>1. table[n][q].kind # "connected"
        BY <1>3, <3>1
      <4>2. table[n][q].kind \in {"connected", "learned"} /\ table[n][q].lastSeen \in Nat
        BY <3>1 DEF TableType, RouteType, PortsTo, NoRoute, ConnectedRoute
      <4> QED
        BY <3>1, <4>1, <4>2
    <3>3. CASE q \in L
      BY <2>1, <3>1, <3>2, <3>3 DEF Replaces
    <3>4. CASE q \notin L
      BY <3>1, <3>2, <3>4 DEF Replaces
    <3> QED
      BY <3>3, <3>4
  <2>3. p \in PortsTo(table, n)
    BY DEF PortsTo, NoRoute
  <2>4. p \in Best(table, n)
    BY <2>2, <2>3 DEF Best
  <2> QED
    BY <2>4
<1> QED
    BY <1>1, <1>2, <1>3

\* A packet leaves a table in which nothing is newer than the present, and with
\* a route to its source network that is connected or of this moment.
LEMMA LearnedNow ==
    ASSUME TypeOK, SeenOK, NEW in \in Ports, NEW pdu \in PacketType,
           routes' = Learned(in, pdu), now' = now
    PROVE  /\ routes' \in TableType /\ SeenOK'
           /\ pdu.snet # Local =>
                 /\ pdu.snet \in Networks
                 /\ \/ routes'[pdu.snet][in].kind = "connected"
                    \/ routes'[pdu.snet][in].kind = "learned"
                       /\ routes'[pdu.snet][in].lastSeen = now
<1>1. now \in Nat
    BY MaxTimeAssumption DEF TypeOK
<1>2. \A n \in Networks, p \in Ports : Pruned[n][p].lastSeen <= now
    BY <1>1, PrunedTable DEF SeenOK, NoRoute
<1>3. CASE pdu.snet = Local
  <2>1. routes' = Pruned
    BY <1>3 DEF Learned
  <2> QED
    BY <1>2, <1>3, <2>1, PrunedTable DEF SeenOK
<1>4. CASE pdu.snet # Local
  <2> DEFINE rec == LearnedRoute(LearnTTL)
  <2>1. pdu.snet \in Networks
    BY <1>4 DEF PacketType
  <2>2. rec \in RouteType /\ rec.kind = "learned" /\ rec.lastSeen = now
    BY <1>1, LearnedRecord, LearnTTLAssumption DEF LearnedRoute
  <2>3. routes' = Upsert(Pruned, pdu.snet, in, rec)
    BY <1>4 DEF Learned
  <2> HIDE DEF rec
  <2>4. /\ routes' \in TableType
        /\ \A n \in Networks, p \in Ports :
              routes'[n][p] = Pruned[n][p] \/ routes'[n][p] = rec
    BY <2>1, <2>2, <2>3, PrunedTable, UpsertTable
  <2>5. SeenOK'
    BY <1>1, <1>2, <2>2, <2>4 DEF SeenOK
  <2>6. CASE Keeps(Pruned[pdu.snet][in], rec)
    BY <2>1, <2>3, <2>4, <2>5, <2>6 DEF Upsert, Keeps
  <2>7. CASE ~Keeps(Pruned[pdu.snet][in], rec)
    <3>1. routes' = [Pruned EXCEPT ![pdu.snet][in] = rec]
      BY <2>3, <2>7 DEF Upsert
    <3>2. routes'[pdu.snet][in] = rec
      BY <2>1, <3>1, PrunedTable DEF TableType
    <3> QED
      BY <2>1, <2>2, <2>4, <2>5, <3>2
  <2> QED
    BY <2>6, <2>7
<1> QED
    BY <1>3, <1>4

LEMMA EvaluateReplyPath ==
    ASSUME IInv, SeenOK, NEW in \in Ports, NEW pdu \in Packets, NEW busy \in BOOLEAN,
           Evaluate(in, pdu, busy)
    PROVE  SeenOK' /\ ReplyPath'
<1>1. pdu \in PacketType
    BY PacketsAssumption
<1>2. reply'.op = "Evaluate" /\ reply'.pdu = pdu
    BY EvaluateStep
<1>3. CASE EvaluateLocal(in, pdu)
    BY <1>2, <1>3 DEF EvaluateLocal, SeenOK, ReplyPath
<1>4. CASE EvaluateBroadcast(in, pdu, busy) \/ EvaluateUnicast(in, pdu, busy)
  <2>1. routes' = Learned(in, pdu) /\ now' = now /\ now \in Nat /\ TypeOK
    BY <1>4, MaxTimeAssumption DEF EvaluateBroadcast, EvaluateUnicast, IInv, TypeOK
  <2>2. /\ routes' \in TableType /\ SeenOK'
        /\ pdu.snet # Local =>
              /\ pdu.snet \in Networks
              /\ \/ routes'[pdu.snet][in].kind = "connected"
                 \/ routes'[pdu.snet][in].kind = "learned"
                    /\ routes'[pdu.snet][in].lastSeen = now
    BY <1>1, <2>1, LearnedNow
  <2>3. ASSUME pdu.snet # Local
        PROVE  \E p \in Best(routes', pdu.snet) :
                  routes'[pdu.snet][p].kind = "connected" \/ routes'[pdu.snet][p].lastSeen = now'
    <3>1. \A p \in Ports : routes'[pdu.snet][p].lastSeen <= now
      BY <2>1, <2>2, <2>3 DEF SeenOK
    <3> QED
      BY <2>1, <2>2, <2>3, <3>1, BestOfRecent
  <2> QED
    BY <1>2, <2>2, <2>3 DEF ReplyPath
<1> QED
    BY <1>3, <1>4 DEF Evaluate

\* The calls on the table leave no route that was seen later than now.
LEMMA TableSeen ==
    ASSUME IInv, SeenOK, NEW n \in Networks, NEW p \in Ports, NEW ttl \in Nat,
           \/ AddConnectedRoute(n, p) \/ AddLearnedRoute(n, p, ttl)
           \/ RemoveRouteOnPort(n, p)
    PROVE  SeenOK'
<1>1. now \in Nat /\ routes \in TableType /\ now' = now
    BY MaxTimeAssumption DEF IInv, TypeOK, TableType, AddConnectedRoute, AddLearnedRoute,
       RemoveRouteOnPort
<1>2. ASSUME NEW rec \in RouteType, rec.lastSeen <= now, routes' = Upsert(routes, n, p, rec)
      PROVE  SeenOK'
  <2>1. \A m \in Networks, q \in Ports : routes'[m][q] = routes[m][q] \/ routes'[m][q] = rec
    BY <1>1, <1>2, UpsertTable
  <2> QED
    BY <1>1, <1>2, <2>1 DEF SeenOK
<1>3. CASE AddConnectedRoute(n, p)
  <2>1. ConnectedRoute \in RouteType /\ ConnectedRoute.lastSeen <= now
    BY <1>1 DEF RouteType, ConnectedRoute
  <2> QED
    BY <1>2, <1>3, <2>1 DEF AddConnectedRoute
<1>4. CASE AddLearnedRoute(n, p, ttl)
  <2>1. LearnedRoute(ttl) \in RouteType /\ LearnedRoute(ttl).lastSeen <= now
    BY <1>1, <1>4, LearnedRecord DEF AddLearnedRoute, LearnedRoute
  <2> QED
    BY <1>2, <1>4, <2>1 DEF AddLearnedRoute
<1>5. CASE RemoveRouteOnPort(n, p)
    BY <1>1, <1>5 DEF RemoveRouteOnPort, SeenOK, TableType, NoRoute
<1> QED
    BY <1>3, <1>4, <1>5

\* After a routed packet has come through, an answer to it finds a route that is
\* connected or learned just now (Evaluate, upsertRouteLocked, bestRouteLocked),
\* for every history of advertisements, packets, removals and expiries.
THEOREM AnswersFindTheirWay == Spec => []ReplyPath
<1>1. Init => SeenOK /\ ReplyPath
    BY DEF Init, SeenOK, ReplyPath, NoRoute, Idle
<1>2. ASSUME IInv, SeenOK, ReplyPath, [Next]_vars PROVE SeenOK' /\ ReplyPath'
  <2>0. now \in Nat
    BY <1>2, MaxTimeAssumption DEF IInv, TypeOK
  <2>1. CASE \E n \in Networks, p \in Ports, ttl \in Nat :
                AddConnectedRoute(n, p) \/ AddLearnedRoute(n, p, ttl)
    BY <1>2, <2>1, TableSeen, TableStep DEF ReplyPath, Idle
  <2>2. CASE Remove
    <3>1. PICK n \in Networks : RemoveRoute(n) \/ \E p \in Ports : RemoveRouteOnPort(n, p)
      BY <2>2 DEF Remove
    <3>2. CASE RemoveRoute(n)
      BY <1>2, <2>0, <3>2 DEF RemoveRoute, IInv, TypeOK, SeenOK, ReplyPath, Idle, NoRoute
    <3>3. CASE \E p \in Ports : RemoveRouteOnPort(n, p)
      <4>1. 0 \in Nat
        OBVIOUS
      <4> QED
        BY <1>2, <3>3, <4>1, TableSeen, TableStep DEF ReplyPath, Idle
    <3> QED
      BY <3>1, <3>2, <3>3
  <2>3. CASE Snapshot \/ \E n \in Networks : Lookup(n) \/ LookupAll(n)
    <3>1. routes' = Pruned /\ now' = now /\ reply'.op # "Evaluate"
      BY <1>2, <2>3, ReadStep DEF Snapshot, Lookup, LookupAll
    <3>2. \A n \in Networks, p \in Ports : Pruned[n][p].lastSeen <= now
      BY <1>2, <2>0, PrunedTable DEF IInv, SeenOK, NoRoute
    <3> QED
      BY <3>1, <3>2 DEF SeenOK, ReplyPath
  <2>4. CASE \E in \in Ports, pdu \in Packets, busy \in BOOLEAN : Evaluate(in, pdu, busy)
    BY <1>2, <2>4, EvaluateReplyPath
  <2>5. CASE Return
    BY <1>2, <2>5 DEF Return, SeenOK, ReplyPath, Idle
  <2>6. CASE Tick
    <3>1. \A n \in Networks, p \in Ports : routes[n][p].lastSeen \in Nat
      BY <1>2 DEF IInv, TypeOK, RouteType, NoRoute, ConnectedRoute
    <3> QED
      BY <1>2, <2>0, <2>6, <3>1 DEF Tick, SeenOK, ReplyPath, Idle
  <2>7. CASE UNCHANGED vars
    BY <1>2, <2>7 DEF vars, SeenOK, ReplyPath
  <2> QED
    BY <1>2, <2>1, <2>2, <2>3, <2>4, <2>5, <2>6, <2>7, NextCases
<1> QED
    BY Invariance, <1>1, <1>2, PTL DEF Spec
-----------------------------------------------------------------------------
(* The order of the map *)

\* Induction over a set of numbers.
LEMMA NumberInduction ==
    ASSUME NEW S \in SUBSET Nat, 0 \in S, \A m \in S : m + 1 \in S
    PROVE  S = Nat
<1> SUFFICES ASSUME S # Nat PROVE FALSE
    OBVIOUS
<1> DEFINE T == Nat \ S
<1>1. T \in SUBSET Nat /\ T # {}
    OBVIOUS
<1> HIDE DEF T
<1>2. PICK x \in T : \A y \in T : x <= y
    BY <1>1, LeastNumber
<1>3. x \in Nat /\ x # 0
    BY <1>1 DEF T
<1>4. x - 1 \in S
    BY <1>2, <1>3 DEF T
<1> QED
    BY <1>3, <1>4 DEF T

\* The preference is total and transitive on the routes to a network.
LEMMA PreferenceOrder ==
    ASSUME NEW table \in TableType, NEW n \in Networks, NEW p \in PortsTo(table, n),
           NEW q \in PortsTo(table, n), NEW r \in PortsTo(table, n)
    PROVE  /\ p # q => \/ Replaces(table[n][p], p, table[n][q], q)
                       \/ Replaces(table[n][q], q, table[n][p], p)
           /\ Replaces(table[n][p], p, table[n][q], q) /\ Replaces(table[n][q], q, table[n][r], r)
                => Replaces(table[n][p], p, table[n][r], r)
<1>1. p \in Nat /\ q \in Nat /\ r \in Nat
    BY PortNumbers DEF PortsTo
<1>2. /\ table[n][p] \in RouteType \ {NoRoute}
      /\ table[n][q] \in RouteType \ {NoRoute}
      /\ table[n][r] \in RouteType \ {NoRoute}
    BY DEF TableType, PortsTo
<1>3. /\ table[n][p].kind \in {"connected", "learned"} /\ table[n][p].lastSeen \in Nat
      /\ table[n][q].kind \in {"connected", "learned"} /\ table[n][q].lastSeen \in Nat
      /\ table[n][r].kind \in {"connected", "learned"} /\ table[n][r].lastSeen \in Nat
    BY <1>2 DEF RouteType, ConnectedRoute
<1> QED
    BY <1>1, <1>3 DEF Replaces

\* One turn of the loop of bestRouteLocked: f holds the best route so far.
Turn(table, n, order, f, i) ==
    IF i = 1 THEN order[1]
    ELSE IF Replaces(table[n][order[i]], order[i], table[n][f[i - 1]], f[i - 1])
           THEN order[i] ELSE f[i - 1]

\* The loop has a value after every turn.
LEMMA ScanTurns ==
    ASSUME NEW table, NEW n, NEW order, Len(order) \in Nat
    PROVE  \E f : /\ f = [i \in 1 .. Len(order) |-> Turn(table, n, order, f, i)]
                  /\ Scan(table, n, order) = f[Len(order)]
<1> DEFINE Def(f, m) == f = [i \in 1 .. m |-> Turn(table, n, order, f, i)]
           S == {m \in Nat : \E f : Def(f, m)}
<1>1. 0 \in S
  <2>1. Def([i \in 1 .. 0 |-> 0], 0)
    OBVIOUS
  <2> QED
    BY <2>1
<1>2. ASSUME NEW m \in S PROVE m + 1 \in S
  <2>1. PICK f : Def(f, m)
    BY <1>2
  <2> DEFINE g == [i \in 1 .. m + 1 |-> Turn(table, n, order, f, i)]
  <2>2. \A i \in 1 .. m : g[i] = f[i]
    BY <2>1
  <2>3. ASSUME NEW i \in 1 .. m + 1
        PROVE  Turn(table, n, order, g, i) = Turn(table, n, order, f, i)
    <3>1. i = 1 \/ i - 1 \in 1 .. m
      BY <1>2
    <3> HIDE DEF g
    <3> QED
      BY <2>2, <3>1 DEF Turn
  <2>4. Def(g, m + 1)
    BY <2>3
  <2>5. \E h : Def(h, m + 1)
    BY <2>4
  <2> HIDE DEF Def
  <2> QED
    BY <2>5
<1>3. S \in SUBSET Nat
    OBVIOUS
<1>4. \E f : Def(f, Len(order))
  <2> HIDE DEF S, Def
  <2>1. S = Nat
    BY <1>1, <1>2, <1>3, NumberInduction
  <2> QED
    BY <2>1 DEF S
<1> DEFINE best == CHOOSE f : Def(f, Len(order))
<1>5. Def(best, Len(order))
    BY <1>4
<1>6. Scan(table, n, order) = best[Len(order)]
    BY DEF Scan, Turn
<1> QED
    BY <1>5, <1>6
\* Whatever the order of the map, the loop ends with the one route that is
\* preferred to all others.
LEMMA ScanFindsBest ==
    ASSUME NEW table \in TableType, NEW n \in Networks, PortsTo(table, n) # {},
           NEW order \in Orders(PortsTo(table, n))
    PROVE  Best(table, n) = {Scan(table, n, order)}
<1> DEFINE P == PortsTo(table, n)
           N == Cardinality(P)
           Above(p, q) == Replaces(table[n][p], p, table[n][q], q)
<1>1. IsFiniteSet(P) /\ N \in Nat
    BY PortNumbers, FS_Subset, FS_CardinalityType DEF PortsTo
<1>2. N # 0
    BY <1>1, FS_EmptySet
<1>3. order \in [1 .. N -> P] /\ \A i, j \in 1 .. N : order[i] = order[j] => i = j
    BY DEF Orders
<1>4. Len(order) = N
  <2>1. order \in Seq(P)
    BY <1>1, <1>3
  <2> QED
    BY <1>1, <1>3, <2>1
<1>5. \A q \in P : \E i \in 1 .. N : order[i] = q
  <2>1. order \in Injection(1 .. N, P)
    BY <1>3, Fun_IsInj
  <2>2. IsFiniteSet(1 .. N) /\ Cardinality(1 .. N) = N
    BY <1>1, <1>2, FS_Interval
  <2>3. order \in Surjection(1 .. N, P)
    BY <1>1, <2>1, <2>2, FS_Injection
  <2> QED
    BY <2>3 DEF Surjection
<1>6. PICK f : /\ f = [i \in 1 .. N |-> Turn(table, n, order, f, i)]
               /\ Scan(table, n, order) = f[N]
  <2> HIDE DEF N
  <2> QED
    BY <1>1, <1>4, ScanTurns
<1> DEFINE Ahead(m) == f[m] \in P /\ \A j \in 1 .. m : order[j] # f[m] => Above(f[m], order[j])
           S == {m \in Nat : m \in 1 .. N => Ahead(m)}
<1> HIDE DEF P, N
<1>7. 0 \in S
    OBVIOUS
<1>8. ASSUME NEW m \in S PROVE m + 1 \in S
  <2> SUFFICES ASSUME m + 1 \in 1 .. N PROVE Ahead(m + 1)
    BY <1>8
  <2>1. f[m + 1] = Turn(table, n, order, f, m + 1) /\ order[m + 1] \in P
    BY <1>3, <1>6
  <2>2. CASE m = 0
    BY <1>1, <2>1, <2>2 DEF Turn
  <2>3. CASE m # 0
    <3>1. m \in 1 .. N /\ Ahead(m)
      BY <1>1, <1>8, <2>3
    <3>2. m + 1 # 1 /\ m + 1 - 1 = m /\ \A j \in 1 .. m + 1 : j = m + 1 \/ j \in 1 .. m
      BY <1>8, <2>3
    <3>3. \A p, q, r \in P : /\ p # q => Above(p, q) \/ Above(q, p)
                             /\ Above(p, q) /\ Above(q, r) => Above(p, r)
      BY PreferenceOrder DEF P
    <3> HIDE DEF Above
    <3>4. CASE Above(order[m + 1], f[m])
      <4>1. f[m + 1] = order[m + 1]
        BY <2>1, <3>2, <3>4 DEF Turn, Above
      <4>2. ASSUME NEW j \in 1 .. m + 1, order[j] # f[m + 1]
            PROVE  Above(f[m + 1], order[j])
        <5>1. j \in 1 .. m /\ order[j] \in P
          BY <1>1, <1>3, <3>1, <3>2, <4>1, <4>2
        <5>2. order[j] = f[m] \/ Above(f[m], order[j])
          BY <3>1, <5>1
        <5> QED
          BY <2>1, <3>1, <3>3, <3>4, <4>1, <5>1, <5>2
      <4> QED
        BY <2>1, <4>1, <4>2
    <3>5. CASE ~Above(order[m + 1], f[m])
      <4>1. f[m + 1] = f[m]
        BY <2>1, <3>2, <3>5 DEF Turn, Above
      <4>2. ASSUME NEW j \in 1 .. m + 1, order[j] # f[m + 1]
            PROVE  Above(f[m + 1], order[j])
        <5>1. CASE j \in 1 .. m
          BY <3>1, <4>1, <4>2, <5>1
        <5>2. CASE j = m + 1
          BY <2>1, <3>1, <3>3, <3>5, <4>1, <4>2, <5>2
        <5> QED
          BY <3>2, <5>1, <5>2
      <4> QED
        BY <3>1, <4>1, <4>2
    <3> QED
      BY <3>4, <3>5
  <2> QED
    BY <2>2, <2>3
<1>9. Ahead(N)
  <2>1. S \in SUBSET Nat
    OBVIOUS
  <2>2. S = Nat
    <3> HIDE DEF S
    <3> QED
      BY <1>7, <1>8, <2>1, NumberInduction
  <2> QED
    BY <1>1, <1>2, <2>2
<1>10. f[N] \in Best(table, n)
    BY <1>5, <1>9 DEF Best, P
<1>11. \A p \in Best(table, n) : p = f[N]
    BY <1>10, BestUnique
<1> QED
    BY <1>6, <1>10, <1>11

\* Lookup does not depend on the order in which Go walks the map of routes, and
\* agrees with the head of LookupAll's list (bestRouteLocked, LookupAll), for
\* every table that advertisements and packets can build.
THEOREM LookupDeterministic == Spec => []BestDeterministic
<1>1. IInv => BestDeterministic
  <2> SUFFICES ASSUME IInv, NEW n \in Networks, PortsTo(routes, n) # {}
               PROVE  /\ \A order \in Orders(PortsTo(routes, n)) :
                             Best(routes, n) = {Scan(routes, n, order)}
                      /\ First(routes, n) = Best(routes, n)
    BY DEF BestDeterministic
  <2>1. routes \in TableType
    BY DEF IInv, TypeOK, TableType
  <2> QED
    BY <2>1, ScanFindsBest, BestIsFirst
<1> QED
    BY Invariance, <1>1, PTL
=============================================================================
