------------------------------- MODULE BIPStack -------------------------------
(***************************************************************************)
(* A client runtime on a BACnet/IP socket: the receive loop of             *)
(* bip/stack.go over bip/transport.go, the shutdown of client_runtime.go   *)
(* and client/client.go, and the path of a message through the APDU, NPDU  *)
(* and BVLC codecs in both directions.                                     *)
(*                                                                         *)
(* Peers send datagrams built by the same code (stack.go, device.go, a     *)
(* router's sourced NPDU, a BBMD's Forwarded-NPDU); the network loses them *)
(* or a foreign program sends a malformed one.  A datagram carries a ghost *)
(* field msg, what its sender meant ({} for a malformed one).              *)
(***************************************************************************)
EXTENDS APDUCodec, NPDU, BVLCFunctions

CONSTANTS
    Letters,      \* what peers send: records with the fields
                  \*   from (UDP sender), via (how the NPDU is wrapped), origin
                  \*   (the device a BBMD forwards for, else the sender), station
                  \*   ({} or the {[snet, sadr]} behind a router), apdu, priority
    Messages,     \* network-layer messages: from, via, origin, model
    Controls,     \* senders of BVLC control frames
    Replies,      \* APDUs the client answers with
    Junk,         \* the letters a faulty sender makes malformed datagrams of
    MaxAPDU,      \* MaxAPDULengthAccepted, announced to every peer
    MaxDatagram   \* maxDatagramSize of the client's transport

ASSUME MaxDatagramAssumption == MaxDatagram \in Nat /\ MaxDatagram >= HeaderLen
ASSUME MaxAPDUAssumption == MaxAPDU \in Nat
ASSUME JunkAssumption == Junk \subseteq Letters

\* Who sends, and by which way of wrapping an NPDU; only a BBMD speaks for
\* another device.
Ways == {"stack", "unicast", "broadcast", "forward", "distribute"}
Sender(m) ==
    /\ m.from \in AddrPort /\ m.origin \in AddrPort /\ m.via \in Ways
    /\ m.via # "forward" => m.origin = m.from

\* An APDU in the form both ends know: what its PDU type has no room for is
\* zero, and the length it accepts is one that has a code.
Normal(a) ==
    /\ a \in [type : ConfirmedRequest .. Abort, segmented : BOOLEAN, more : BOOLEAN,
              accepted : BOOLEAN, negative : BOOLEAN, server : BOOLEAN, maxSegments : 0 .. 7,
              maxLength : Nat, invoke : Octet, seq : Octet, window : Octet, service : Octet,
              payload : Seq(Octet)]
    /\ IF a.type = ConfirmedRequest THEN \E k \in 1 .. 6 : a.maxLength = Lengths[k]
       ELSE ~a.accepted /\ a.maxSegments = 0 /\ a.maxLength = 0
    /\ a.segmented => a.type = ComplexACK
    /\ a.more => a.segmented
    /\ a.negative => a.type = SegmentACK
    /\ a.server => a.type \in {SegmentACK, Abort}
    /\ a.type # SegmentACK /\ ~a.segmented => a.seq = 0 /\ a.window = 0
    /\ a.type \in {SegmentACK, Reject, Abort} \/ a.seq # 0 => a.service = 0
    /\ a.type = UnconfirmedRequest => a.invoke = 0
    /\ a.type = SegmentACK => a.payload = <<>>
    /\ a.type \in {Reject, Abort} => Len(a.payload) = 1

ASSUME LettersAssumption ==
    \A m \in Letters :
        /\ m.kind = "apdu" /\ Sender(m) /\ m.priority \in Nat /\ Normal(m.apdu)
        /\ \/ m.station = {}
           \/ \E s \in m.station : /\ m.station = {s} /\ s = [snet |-> s.snet, sadr |-> s.sadr]
                                   /\ s.snet \in 0 .. MaxUint16 /\ s.sadr \in Seq(Octet)

\* A network-layer message as its constructor makes it, of fields of their types.
Networks == 0 .. MaxUint16
PortEntries == [dnet : Networks, id : Octet, info : Seq(Octet)]
Constructed(m) ==
    CASE m.header.type = WhoIsRouter ->
            /\ m = WhoIsRouterMessage(m.dnets)
            /\ m.dnets = {} \/ \E n \in m.dnets : m.dnets = {n} /\ n \in Networks
      [] m.header.type \in {IAmRouter, RouterBusy, RouterAvailable} ->
            m.networks \in Seq(Networks) /\ m = NetworkListMessage(m.header.type, m.networks)
      [] m.header.type = ICouldBeRouter ->
            m.dnet \in Networks /\ m.index \in Octet /\ m = ICouldBeRouterMessage(m.dnet, m.index)
      [] m.header.type = RejectMessage ->
            m.dnet \in Networks /\ m.reason \in Octet /\ m = RejectMessageMessage(m.dnet, m.reason)
      [] m.header.type \in {InitTable, InitTableAck} ->
            m.ports \in Seq(PortEntries) /\ m = RoutingTableMessage(m.header.type, m.ports)
      [] m.header.type = Establish ->
            m.dnet \in Networks /\ m.time \in Octet /\ m = EstablishMessage(m.dnet, m.time)
      [] m.header.type = Disconnect -> m.dnet \in Networks /\ m = DisconnectMessage(m.dnet)
      [] m.header.type = WhatIsNumber -> m = WhatIsNumberMessage
      [] m.header.type = NumberIs ->
            /\ m.number \in Networks /\ m.configured \in BOOLEAN
            /\ m = NumberIsMessage(m.number, m.configured)
      [] m.header.type \in 128 .. 255 ->
            /\ \E v \in m.header.vendor : v \in Networks /\ m.header.vendor = {v}
            /\ m.payload \in Seq(Octet)
            /\ m = ProprietaryMessage(m.header.type, The(m.header.vendor), m.payload)
      [] OTHER -> FALSE

ASSUME MessagesAssumption ==
    \A m \in Messages : m.kind = "message" /\ Sender(m) /\ Constructed(m.model)
ASSUME ControlsAssumption == Controls \subseteq AddrPort
ASSUME RepliesAssumption == \A a \in Replies : Normal(a)

VARIABLES
    sock,     \* {} or the datagram waiting in the socket
    conn,     \* "open" or "closed"
    ctx,      \* whether the context of Run is cancelled
    run,      \* the loop of Run: where it is, the frame it handles, its result
    watcher,  \* the goroutine that closes the transport: "off", "wait" or "done"
    closer,   \* a Client.Close: "idle", "ase", "transport", "done" or "failed"
    last,     \* {} or the datagram dispatched last and what the ASE got of it
    out       \* {} or the answer sent last

vars == <<sock, conn, ctx, run, watcher, closer, last, out>>

(***************************************************************************)
(* The sending side.                                                       *)
(***************************************************************************)
Local(addr) == [network |-> LocalNetwork, addr |-> addr, mac |-> <<>>]

\* netprim.AddrPortToAddress: IPv4 only.
AddrPortToAddress(addr) == When(IsValidAddr(addr) /\ Is4(addr), Local(addr))

\* Address.AddrPortBytes.
AddrPortBytes(dst) == Upto(dst.addr.ip \o <<0, 0, 0, 0>>, 4) \o PutUint16(dst.addr.port)

\* Mutant of OutboundDADR: the address of the router instead of the station's.
OutboundDADRofRouter(dst) ==
    IF dst.network = GlobalBroadcastNetwork THEN <<>> ELSE AddrPortBytes(dst)

\* buildOutboundNPDU.
OutboundDADR(dst) ==
    IF dst.network = GlobalBroadcastNetwork THEN <<>>
    ELSE IF dst.mac # <<>> THEN dst.mac ELSE AddrPortBytes(dst)
buildOutboundNPDU(dst, priority, reply, apdu) ==
    LET to == IF dst.network = LocalNetwork THEN {}
              ELSE {[dnet |-> dst.network, dadr |-> OutboundDADR(dst), hopCount |-> 255]}
    IN  IF priority > MaxPriority THEN {}
        ELSE UNION {NewApplicationNPDU(ApplicationNPCI(priority, reply, to, {}), octets) :
                        octets \in encodeAPDU(apdu)}

\* Stack.SendNPDU up to the datagram it writes, with SendFrame's limit.
SendNPDU(packet) ==
    LET frames == UNION {NewFrameWithType(BACnetIP, FnOriginalUnicast, o) : o \in NPDUEncode(packet)}
    IN  {raw \in UNION {FrameEncode(f) : f \in frames} : Len(raw) <= MaxDatagram}

\* The NPDU of a peer, or of the station behind a peer that is a router.
PeerNPDU(m) ==
    UNION {NewApplicationNPDU(ApplicationNPCI(m.priority, FALSE, {}, m.station), octets) :
               octets \in {o \in encodeAPDU(m.apdu) : Len(o) <= MaxAPDU}}

\* DeviceIp4.SendUnicast and SendLocalBroadcast, a BBMD that forwards or is
\* asked to distribute, and another Stack.
Wrapped(m, npdu) ==
    CASE m.via = "stack" -> UNION {FrameEncode(f) :
                                f \in NewFrameWithType(BACnetIP, FnOriginalUnicast, npdu)}
      [] m.via = "unicast" -> UNION {OriginalUnicastEncode(u) :
                                u \in NewOriginalUnicast(BACnetIP, npdu)}
      [] m.via = "broadcast" -> UNION {OriginalBroadcastEncode(u) :
                                u \in NewOriginalBroadcast(BACnetIP, npdu)}
      [] m.via = "forward" -> UNION {ForwardedNpduEncode(u) : u \in NewForwardedNpdu(m.origin, npdu)}
      [] m.via = "distribute" -> UNION {DistributeEncode(u) : u \in NewDistribute(BACnetIP, npdu)}

\* The socket holds one datagram at a time, which arrives while none is being
\* dispatched (dispatching reads nothing of the socket); last and out tell of
\* the datagram before, until the next one arrives.
Arrive(from, data, msg) ==
    /\ conn = "open" /\ sock = {} /\ run.datagram = {}
    /\ sock' = {[from |-> from, data |-> data, msg |-> msg]}
    /\ last' = {} /\ out' = {}
    /\ UNCHANGED <<conn, ctx, run, watcher, closer>>

PeerSend ==
    \E m \in Letters : \E npdu \in PeerNPDU(m) : \E octets \in NPDUEncode(npdu) :
        \E data \in Wrapped(m, octets) : Arrive(m.from, data, {m})

PeerSendMessage ==
    \E m \in Messages :
        \E npdu \in NewNetworkLayerNPDUFromMessage(ApplicationNPCI(0, FALSE, {}, {}), m.model) :
            \E octets \in NPDUEncode(npdu) :
                \E data \in Wrapped(m, octets) : Arrive(m.from, data, {m})

\* BVLC control frames: the Stack has no use for them.
PeerSendControl ==
    \E from \in Controls :
        \E data \in UNION {UNION {BVLCResultEncode(r) : r \in NewBVLCResult(CodeSuccess)},
                           ReadFDTEncode(NewReadFDT), ReadBDTEncode(NewReadBDT),
                           UNION {RegisterEncode(r) : r \in NewRegister(60)}} :
            Arrive(from, data, {[kind |-> "control"]})

\* What a faulty sender makes of a datagram: cut off (with the length of the
\* frame left alone or set right), longer, or with another octet.
Mangled(d) ==
    {Upto(d, k) : k \in 0 .. Len(d) - 1}
    \cup {Upto(d, 2) \o PutUint16(k) \o SubSeq(d, 5, k) : k \in 4 .. Len(d) - 1}
    \cup {d \o <<0>>}
    \cup {[d EXCEPT ![i] = v] : i \in 1 .. Len(d), v \in {0, 1, 8, 32, 64, 128, 255}}

Malformed ==
    \E m \in Junk : \E npdu \in PeerNPDU(m) : \E octets \in NPDUEncode(npdu) :
        \E d \in Wrapped(m, octets) : \E data \in Mangled(d) : Arrive(m.from, data, {})

Lose ==
    /\ sock # {}
    /\ sock' = {}
    /\ UNCHANGED <<conn, ctx, run, watcher, closer, last, out>>

(***************************************************************************)
(* Stack.Run.                                                              *)
(***************************************************************************)
NoFrame == {}

StartRun ==
    /\ run.pc = "off"
    /\ run' = [run EXCEPT !.pc = "read"]
    /\ watcher' = "wait"
    /\ UNCHANGED <<sock, conn, ctx, closer, last, out>>

\* A receive error ends the loop, with the context's error if it is done.
Ended == [pc |-> "done", datagram |-> NoFrame, err |-> IF ctx THEN "ctx" ELSE "read"]

\* Transport.ReceiveFrame: the buffer cuts a longer datagram off, and a
\* datagram that is no frame is a receive error too.
Receive ==
    /\ run.pc = "read" /\ conn = "open" /\ sock # {}
    /\ LET d == The(sock)
           raw == IF Len(d.data) <= MaxDatagram THEN d.data ELSE Upto(d.data, MaxDatagram)
       IN  run' = IF DecodeFrame(raw) = {} THEN Ended
                  ELSE [run EXCEPT !.pc = "dispatch", !.datagram = {[d EXCEPT !.data = raw]}]
    /\ sock' = {}
    /\ UNCHANGED <<conn, ctx, watcher, closer, last, out>>

ReceiveClosed ==
    /\ run.pc = "read" /\ conn = "closed"
    /\ run' = Ended
    /\ UNCHANGED <<sock, conn, ctx, watcher, closer, last, out>>

\* Mutant of Inner: the sender of a Forwarded-NPDU is the BBMD it came from.
InnerOfBBMD(frame, from) ==
    {[src |-> a, octets |-> IF frame.function = FnForwardedNPDU
                            THEN From(frame.payload, 6) ELSE frame.payload] :
        a \in IF frame.function \in {FnOriginalUnicast, FnOriginalBroadcast, FnForwardedNPDU}
              THEN AddrPortToAddress(from) ELSE {}}

\* dispatchFrame up to the NPDU: the octets and the sender they come from.
Inner(frame, from) ==
    IF frame.function \in {FnOriginalUnicast, FnOriginalBroadcast}
    THEN {[src |-> a, octets |-> frame.payload] : a \in AddrPortToAddress(from)}
    ELSE IF frame.function = FnForwardedNPDU /\ Len(frame.payload) > 6
    THEN {[src |-> a, octets |-> From(frame.payload, 6)] :
            a \in UNION {AddrPortToAddress(o) : o \in decodeAddressPortIpV4(Upto(frame.payload, 6))}}
    ELSE {}

\* The source of a message a router relayed is the station behind it.
SourceOf(src, pkt) ==
    IF HasSourceSpecifier(pkt) /\ pkt.snet # {}
    THEN [src EXCEPT !.network = The(pkt.snet), !.mac = The(pkt.sadr)] ELSE src

\* OnInboundNPDU up to the handlers of the ASE.
Inbound(src, pkt) ==
    IF ~NPDUValid(pkt) \/ IsNetworkLayerMessage(pkt) THEN {}
    ELSE {[src |-> src, apdu |-> a, priority |-> Priority(pkt)] : a \in decodeAPDU(pkt.apdu)}

dispatchFrame(raw, from) ==
    UNION {UNION {Inbound(SourceOf(i.src, pkt), pkt) : pkt \in NPDUDecode(i.octets)} :
               i \in UNION {Inner(frame, from) : frame \in DecodeFrame(raw)}}

\* Mutant of Dispatch: the error of dispatchFrame ends the loop.
DispatchReturning ==
    /\ run.pc = "dispatch"
    /\ \E d \in run.datagram :
        LET up == dispatchFrame(d.data, d.from)
        IN  /\ last' = {[data |-> d.data, msg |-> d.msg, up |-> up]}
            /\ run' = IF up = {} THEN Ended ELSE [run EXCEPT !.pc = "read", !.datagram = NoFrame]
    /\ UNCHANGED <<sock, conn, ctx, watcher, closer, out>>

Dispatch ==
    /\ run.pc = "dispatch"
    /\ \E d \in run.datagram :
        last' = {[data |-> d.data, msg |-> d.msg, up |-> dispatchFrame(d.data, d.from)]}
    /\ run' = [run EXCEPT !.pc = "read", !.datagram = NoFrame]
    /\ UNCHANGED <<sock, conn, ctx, watcher, closer, out>>

\* Mutant of Watch: nothing closes the transport when the context is done.
WatchOnly ==
    /\ watcher = "wait" /\ ctx
    /\ watcher' = "done"
    /\ UNCHANGED <<sock, conn, ctx, run, closer, last, out>>

\* The goroutine of Run that waits for the context.
Watch ==
    /\ watcher = "wait" /\ ctx
    /\ watcher' = "done"
    /\ conn' = "closed"
    /\ UNCHANGED <<sock, ctx, run, closer, last, out>>

(***************************************************************************)
(* The client: an answer to the message it got last, and Client.Close.     *)
(***************************************************************************)
Answer ==
    /\ conn = "open"
    /\ \E l \in last, apdu \in Replies : \E u \in l.up :
        \E packet \in buildOutboundNPDU(u.src, u.priority, FALSE, apdu) :
            \E data \in SendNPDU(packet) :
                out' = {[to |-> u.src.addr, data |-> data, apdu |-> apdu, msg |-> l.msg]}
    /\ UNCHANGED <<sock, conn, ctx, run, watcher, closer, last>>

\* The caller of ClientRuntime.Run cancels its context.
Cancel ==
    /\ ~ctx
    /\ ctx' = TRUE
    /\ UNCHANGED <<sock, conn, run, watcher, closer, last, out>>

\* Close cancels the context, closes the ASE, then the transport; closing a
\* socket a second time is an error, which Close returns.
CloseCancel ==
    /\ closer = "idle"
    /\ closer' = "ase" /\ ctx' = TRUE
    /\ UNCHANGED <<sock, conn, run, watcher, last, out>>

CloseASE ==
    /\ closer = "ase"
    /\ closer' = "transport"
    /\ UNCHANGED <<sock, conn, ctx, run, watcher, last, out>>

CloseTransport ==
    /\ closer = "transport"
    /\ closer' = IF conn = "closed" THEN "failed" ELSE "done"
    /\ conn' = "closed"
    /\ UNCHANGED <<sock, ctx, run, watcher, last, out>>

Init ==
    /\ sock = {} /\ conn = "open" /\ ctx = FALSE
    /\ run = [pc |-> "off", datagram |-> NoFrame, err |-> "none"]
    /\ watcher = "off" /\ closer = "idle"
    /\ last = {} /\ out = {}

Next ==
    \/ PeerSend \/ PeerSendMessage \/ PeerSendControl \/ Malformed \/ Lose
    \/ StartRun \/ Receive \/ ReceiveClosed \/ Dispatch \/ Watch
    \/ Answer \/ Cancel \/ CloseCancel \/ CloseASE \/ CloseTransport

\* The goroutines of Run are scheduled, and so is a Close that has left the ASE
\* behind.  Nothing promises that dispatchFrame returns (handlers run inside it,
\* and after a Close it may wait for ever at a call's channel), nor ASE.Close.
Fairness ==
    /\ WF_vars(StartRun) /\ WF_vars(Receive) /\ WF_vars(ReceiveClosed)
    /\ WF_vars(Watch) /\ WF_vars(CloseTransport)

Spec == Init /\ [][Next]_vars /\ Fairness

(***************************************************************************)
(* Properties.                                                             *)
(***************************************************************************)
UnicastOrForwarded == {"stack", "unicast", "broadcast", "forward"}

\* What the ASE must get of a letter: the APDU and the priority as sent, from
\* the station that sent it, reached through the router or device it came by.
Meant(m) ==
    IF m.kind # "apdu" THEN {}
    ELSE IF m.via \notin UnicastOrForwarded \/ ~Is4(m.origin) THEN {}
    ELSE {[src |-> [network |-> IF m.station = {} THEN LocalNetwork ELSE The(m.station).snet,
                    addr |-> m.origin,
                    mac |-> IF m.station = {} THEN <<>> ELSE The(m.station).sadr],
           apdu |-> m.apdu, priority |-> m.priority]}

\* A datagram built by a peer running this code reaches the ASE with the APDU,
\* priority and source its sender meant, whichever BVLC function carries it,
\* and a message or control frame reaches it never (stack.go dispatchFrame).
EndToEnd == \A l \in last : \A m \in l.msg : l.up = Meant(m)

\* The answer to a delivered message goes back to the UDP address the message
\* came by, with the station behind the router as its destination, and says
\* what was to be said (buildOutboundNPDU and SendNPDU against dispatchFrame).
AnswerFindsSender ==
    \A o \in out : \A m \in o.msg :
        /\ o.to = m.origin
        /\ \E frame \in DecodeFrame(o.data) : \E pkt \in NPDUDecode(frame.payload) :
            /\ decodeAPDU(pkt.apdu) = {o.apdu}
            /\ NPCIOf(pkt).destination =
                 {[dnet |-> s.snet, dadr |-> s.sadr, hopCount |-> 255] : s \in m.station}

\* What the decoders of the twelve functions read of a datagram, encoded again.
Reencoded(d) ==
    UNION {UNION {BVLCResultEncode(m) : m \in BVLCResultDecode(d)},
           UNION {WriteBDTEncode(m) : m \in WriteBDTDecode(d)},
           UNION {ReadBDTEncode(m) : m \in ReadBDTDecode(d)},
           UNION {ReadBDTAckEncode(m) : m \in ReadBDTAckDecode(d)},
           UNION {ForwardedNpduEncode(m) : m \in ForwardedNpduDecode(d)},
           UNION {RegisterEncode(m) : m \in RegisterDecode(d)},
           UNION {ReadFDTEncode(m) : m \in ReadFDTDecode(d)},
           UNION {ReadFDTAckEncode(m) : m \in ReadFDTAckDecode(d)},
           UNION {DeleteFDTEntryEncode(m) : m \in DeleteFDTEntryDecode(d)},
           UNION {DistributeEncode(m) : m \in DistributeDecode(d)},
           UNION {OriginalUnicastEncode(m) : m \in OriginalUnicastDecode(d)},
           UNION {OriginalBroadcastEncode(m) : m \in OriginalBroadcastDecode(d)}}

\* No two datagrams mean the same: what the decoders of the frame, of its
\* function and of the NPDU accept, malformed or not, they encode back to the
\* very octets they read.
Canonical ==
    \A l \in last : \A frame \in DecodeFrame(l.data) :
        /\ FrameEncode(frame) = {l.data}
        /\ Reencoded(l.data) \subseteq {l.data}
        /\ frame.function = FnOriginalUnicast =>
            \A pkt \in NPDUDecode(frame.payload) :
                NPDUEncode(pkt) = {frame.payload} /\ NPDUValid(pkt)

\* The NPDU in a frame: behind the address of the device in a Forwarded-NPDU.
NPDUOctets(frame) ==
    IF frame.function = FnForwardedNPDU THEN From(frame.payload, 6) ELSE frame.payload

\* Every network-layer message a peer can build is read as the message it was,
\* inside an NPDU and in its bare wire form (nlm_models.go, nlm_wire.go).
MessagesSurvive ==
    \A l \in last : \A m \in {n \in l.msg : n.kind = "message"} :
        /\ \E frame \in DecodeFrame(l.data) : \E pkt \in NPDUDecode(NPDUOctets(frame)) :
            MessageModelOf(pkt) = {m.model}
        /\ UNION {DecodeMessageWire(w) : w \in EncodeMessageWire(m.model)} = {m.model}

\* What dispatchFrame finds in a frame (a bad NPDU or APDU, a message, a function
\* the Stack has no use for) does not end the receive loop, and no datagram that
\* a peer running this code sends does if it fits the buffer.  What does end it,
\* besides a closed socket, is a datagram longer than the buffer or a malformed
\* one that DecodeFrame refuses (stack.go Run, transport.go ReceiveFrame).
FramesKeepRun ==
    [][(run.pc # "done" /\ run'.pc = "done") =>
        /\ run.pc = "read"
        /\ \/ conn = "closed"
           \/ \E d \in sock : \/ Len(d.data) > MaxDatagram
                              \/ d.msg = {} /\ DecodeFrame(d.data) = {}]_vars

\* apdu/ici.go: "MaxAPDULengthAccepted is the maximum APDU byte size this device
\* can accept in a response".  No datagram that a peer running this code sends,
\* with an APDU no longer than that, ends the receive loop.
GoodDatagramsKeepRun ==
    [][(run.pc # "done" /\ run'.pc = "done") =>
        (run.pc = "read" /\ (conn = "closed" \/ \E d \in sock : d.msg = {}))]_vars

\* stack.go: "Frame-level errors (malformed NPDU, unrecognised BVLC function,
\* etc.) are silently skipped so that a single bad datagram does not kill the
\* loop".  Only a closed socket ends the receive loop.
BadDatagramsSkipped ==
    [][(run.pc # "done" /\ run'.pc = "done") => conn = "closed"]_vars

\* Once the context is cancelled or the transport is closed, the socket is
\* closed, even if ASE.Close hangs or Run is in a dispatchFrame that never
\* returns; and with the socket closed, Run returns as soon as it is not (or no
\* longer) in dispatchFrame, however many datagrams have arrived.
RunStops ==
    /\ (ctx \/ conn = "closed") ~> conn = "closed"
    /\ (conn = "closed" /\ run.pc # "dispatch") ~> run.pc = "done"
===============================================================================
