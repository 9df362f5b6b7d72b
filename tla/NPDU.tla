--------------------------------- MODULE NPDU ---------------------------------
(***************************************************************************)
(* The NPDU codec of package npdu (npdu.go).                               *)
(*                                                                         *)
(* An NPDU is a record with the fields of the Go structure; the pointers   *)
(* and the two address slices are sets of at most one element.  A nil and  *)
(* an empty payload are not told apart, as in the code's uses of it.       *)
(***************************************************************************)
EXTENDS NetworkMessages

ProtocolVersion == 1
MaxPriority == 3

\* Values of the NPCI bits; bits 0 and 1 are the priority.
BitExpectingReply == 4
BitSource == 8
BitReserved4 == 16
BitDestination == 32
BitReserved6 == 64
BitNetworkMessage == 128

\* OriginalSourceNetworkNumber.Valid.
SnetValid(n) == n # LocalNetwork /\ n # GlobalBroadcastNetwork

MessageHeaderOf(n) == [type |-> The(n.messageType), vendor |-> n.vendorId]

NPDUValid(n) ==
    LET nlm == Bit(n.flags, BitNetworkMessage)
        dst == Bit(n.flags, BitDestination)
        src == Bit(n.flags, BitSource)
    IN  /\ n.version = ProtocolVersion
        /\ ~Bit(n.flags, BitReserved4) /\ ~Bit(n.flags, BitReserved6)
        /\ nlm => /\ n.messageType # {}
                  /\ (The(n.messageType) >= 128) <=> (n.vendorId # {})
                  /\ NormalizedPayload(MessageHeaderOf(n), n.apdu) # {}
        /\ ~nlm => n.messageType = {} /\ n.vendorId = {}
        /\ dst => /\ n.dnet # {} /\ n.dlen # {} /\ n.hopCount # {}
                  /\ The(n.dnet) # 0
                  /\ IF The(n.dlen) = 0 THEN n.dadr = {}
                     ELSE /\ The(n.dnet) # GlobalBroadcastNetwork
                          /\ n.dadr # {} /\ Len(The(n.dadr)) = The(n.dlen)
        /\ ~dst => n.dnet = {} /\ n.dlen = {} /\ n.dadr = {} /\ n.hopCount = {}
        /\ src => /\ n.snet # {} /\ n.slen # {} /\ The(n.slen) # 0
                  /\ n.sadr # {} /\ Len(The(n.sadr)) = The(n.slen)
                  /\ SnetValid(The(n.snet))
        /\ ~src => n.snet = {} /\ n.slen = {} /\ n.sadr = {}

\* A network number, the length of an address and the address.
Specifier(net, len, adr) ==
    PutUint16(The(net)) \o <<The(len)>> \o (IF adr = {} THEN <<>> ELSE The(adr))

NPDUEncode(n) ==
    LET If(b, s) == IF Bit(n.flags, b) THEN s ELSE <<>>
        type == <<The(n.messageType)>>
                \o (IF The(n.messageType) >= 128 THEN PutUint16(The(n.vendorId)) ELSE <<>>)
    IN  IF ~NPDUValid(n) THEN {}
        ELSE {<<n.version, n.flags>>
              \o If(BitDestination, Specifier(n.dnet, n.dlen, n.dadr))
              \o If(BitSource, Specifier(n.snet, n.slen, n.sadr))
              \o If(BitDestination, <<The(n.hopCount)>>)
              \o If(BitNetworkMessage, type) \o n.apdu}

\* The cursor behind the destination (i1), the source (i2), the hop count
\* (i3) and the message type (i4); the conjuncts are the code's checks in
\* their order.
NPDUDecode(d) ==
    LET dst == Bit(d[2], BitDestination)
        src == Bit(d[2], BitSource)
        nlm == Bit(d[2], BitNetworkMessage)
        i1 == IF dst THEN 5 + d[5] ELSE 2
        i2 == IF src THEN i1 + 3 + d[i1 + 3] ELSE i1
        i3 == IF dst THEN i2 + 1 ELSE i2
        mt == d[i3 + 1]
        i4 == IF nlm THEN i3 + (IF mt >= 128 THEN 3 ELSE 1) ELSE i3
        n == [version |-> d[1], flags |-> d[2],
              dnet |-> IF dst THEN {Uint16(d, 3)} ELSE {},
              dlen |-> IF dst THEN {d[5]} ELSE {},
              dadr |-> IF dst /\ d[5] > 0 THEN {SubSeq(d, 6, i1)} ELSE {},
              snet |-> IF src THEN {Uint16(d, i1 + 1)} ELSE {},
              slen |-> IF src THEN {d[i1 + 3]} ELSE {},
              sadr |-> IF src THEN {SubSeq(d, i1 + 4, i2)} ELSE {},
              hopCount |-> IF dst THEN {d[i3]} ELSE {},
              messageType |-> IF nlm THEN {mt} ELSE {},
              vendorId |-> IF nlm /\ mt >= 128 THEN {Uint16(d, i3 + 2)} ELSE {},
              apdu |-> From(d, i4)]
    IN  When(/\ Len(d) >= 2 /\ d[1] = ProtocolVersion
             /\ ~Bit(d[2], BitReserved4) /\ ~Bit(d[2], BitReserved6)
             /\ dst => /\ Len(d) >= 5 /\ Uint16(d, 3) # 0
                       /\ d[5] > 0 => Uint16(d, 3) # GlobalBroadcastNetwork /\ i1 <= Len(d)
             /\ src => /\ i1 + 3 <= Len(d) /\ SnetValid(Uint16(d, i1 + 1))
                       /\ d[i1 + 3] # 0 /\ i2 <= Len(d)
             /\ i3 <= Len(d)
             /\ nlm => i3 < Len(d) /\ i4 <= Len(d)
             /\ nlm => NormalizedPayload(MessageHeaderOf(n), n.apdu) # {},
             n)

(***************************************************************************)
(* The constructors.  An NPCI has a priority, whether a reply is expected, *)
(* and an optional destination and source.                                 *)
(***************************************************************************)
newNPDUWithNPCI(c) ==
    LET dst == c.destination # {}
        src == c.source # {}
        to == The(c.destination)
        by == The(c.source)
    IN  When(/\ dst => /\ to.dnet # LocalNetwork /\ Len(to.dadr) <= 255
                       /\ to.dnet = GlobalBroadcastNetwork => to.dadr = <<>>
                       /\ to.hopCount # 0
             /\ src => Len(by.sadr) \in 1 .. 255 /\ SnetValid(by.snet),
             [version |-> ProtocolVersion,
              flags |-> c.priority + Flag(c.expectingReply, BitExpectingReply)
                        + Flag(dst, BitDestination) + Flag(src, BitSource),
              dnet |-> IF dst THEN {to.dnet} ELSE {},
              dlen |-> IF dst THEN {Len(to.dadr)} ELSE {},
              dadr |-> IF dst /\ to.dadr # <<>> THEN {to.dadr} ELSE {},
              hopCount |-> IF dst THEN {to.hopCount} ELSE {},
              snet |-> IF src THEN {by.snet} ELSE {},
              slen |-> IF src THEN {Len(by.sadr)} ELSE {},
              sadr |-> IF src THEN {by.sadr} ELSE {},
              messageType |-> {}, vendorId |-> {}, apdu |-> <<>>])

NewApplicationNPDU(c, payload) ==
    IF c.priority > MaxPriority \/ payload = <<>> THEN {}
    ELSE {[n EXCEPT !.apdu = payload] : n \in newNPDUWithNPCI(c)}

NewNetworkLayerNPDU(c, h, payload) ==
    IF c.priority > MaxPriority \/ ~structureValid(h) THEN {}
    ELSE {[n EXCEPT !.flags = @ + BitNetworkMessage, !.messageType = {h.type},
                    !.vendorId = h.vendor, !.apdu = p] :
            p \in NormalizedPayload(h, payload), n \in newNPDUWithNPCI(c)}

NewNetworkLayerNPDUFromMessage(c, m) ==
    IF m.valid THEN NewNetworkLayerNPDU(c, m.header, m.payload) ELSE {}

\* NewLocalAPDU, NewRoutedAPDU, NewSourcedAPDU and NewRoutedSourcedAPDU:
\* the four shapes of an NPCI an application NPDU is built from.
ApplicationNPCI(priority, expectingReply, destination, source) ==
    [priority |-> priority, expectingReply |-> expectingReply,
     destination |-> destination, source |-> source]

\* NewNetworkLayerMessage and NewProprietaryNetworkLayerMessage.
NewNetworkLayerMessage(t, vendor, data, priority) ==
    IF (t >= 128) # (vendor # {}) THEN {}
    ELSE NewNetworkLayerNPDU(ApplicationNPCI(priority, FALSE, {}, {}),
                             [type |-> t, vendor |-> vendor], data)

(***************************************************************************)
(* The accessors the other layers use.                                     *)
(***************************************************************************)
Priority(n) == n.flags % 4
IsExpectingReply(n) == Bit(n.flags, BitExpectingReply)
IsNetworkLayerMessage(n) == Bit(n.flags, BitNetworkMessage)
HasDestinationSpecifier(n) == Bit(n.flags, BitDestination)
HasSourceSpecifier(n) == Bit(n.flags, BitSource)

NPCIOf(n) ==
    [priority |-> Priority(n), expectingReply |-> IsExpectingReply(n),
     destination |->
        IF HasDestinationSpecifier(n) /\ n.dnet # {} /\ n.hopCount # {}
        THEN {[dnet |-> The(n.dnet), hopCount |-> The(n.hopCount),
               dadr |-> IF n.dadr = {} THEN <<>> ELSE The(n.dadr)]}
        ELSE {},
     source |->
        IF HasSourceSpecifier(n) /\ n.snet # {}
        THEN {[snet |-> The(n.snet), sadr |-> IF n.sadr = {} THEN <<>> ELSE The(n.sadr)]}
        ELSE {}]

\* NetworkLayerMessageModel.
MessageModelOf(n) ==
    IF IsNetworkLayerMessage(n) /\ n.messageType # {}
    THEN DecodeMessageModel(MessageHeaderOf(n), n.apdu) ELSE {}
===============================================================================
