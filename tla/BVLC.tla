--------------------------------- MODULE BVLC ---------------------------------
(***************************************************************************)
(* The BVLC codec of package bip: the header (types.go), the generic frame *)
(* (frame.go) and the twelve functions of Annex J (bvlc_functions.go).     *)
(*                                                                         *)
(* A function message keeps its header, and Encode allocates exactly       *)
(* header.length octets, while Decode never compares that length with the  *)
(* octets it was given; only DecodeFrame does.  Both are kept here.        *)
(***************************************************************************)
EXTENDS Octets

HeaderLen == 4
EntryLen == 10

BACnetIP == 129
BACnetIP6 == 130
TypeValid(t) == t \in {BACnetIP, BACnetIP6}

FnResult == 0
FnWriteBDT == 1
FnReadBDT == 2
FnReadBDTAck == 3
FnForwardedNPDU == 4
FnRegisterForeignDevice == 5
FnReadFDT == 6
FnReadFDTAck == 7
FnDeleteFDTEntry == 8
FnDistributeBroadcast == 9
FnOriginalUnicast == 10
FnOriginalBroadcast == 11
FunctionValid(f) == f \in FnResult .. FnOriginalBroadcast

\* BVLCLength(n): a conversion to uint16, without a check.
BVLCLength(n) == n % (MaxUint16 + 1)
NewHeader(t, f, n) == [type |-> t, function |-> f, length |-> BVLCLength(n)]

HeaderValid(h) == TypeValid(h.type) /\ FunctionValid(h.function)

\* BVLCHeader.Encode and the copy of the body behind it: header.length
\* octets, the rest of the buffer zero, a longer body cut off.
HeaderEncode(h, body) ==
    When(HeaderValid(h) /\ h.length >= HeaderLen,
         <<h.type, h.function>> \o PutUint16(h.length)
         \o [i \in 1 .. h.length - HeaderLen |-> IF i <= Len(body) THEN body[i] ELSE 0])

\* The encoders that compare what copy reports with the length of the body.
WholeEncode(h, body) ==
    IF Len(body) <= h.length - HeaderLen THEN HeaderEncode(h, body) ELSE {}

HeaderDecode(d) ==
    LET h == [type |-> d[1], function |-> d[2], length |-> Uint16(d, 3)]
    IN  IF Len(d) = HeaderLen /\ TypeValid(d[1]) /\ FunctionValid(d[2]) THEN {h} ELSE {}

\* The header of a message that must have function f.
HeaderOf(d, f) == {h \in HeaderDecode(Upto(d, HeaderLen)) : h.function = f}

(***************************************************************************)
(* Frames: what the transport sends and receives.                          *)
(***************************************************************************)
NewFrameWithType(t, f, payload) ==
    When(/\ TypeValid(t) /\ FunctionValid(f)
         /\ Len(payload) + HeaderLen <= MaxUint16,
         [type |-> t, function |-> f, payload |-> payload])

FrameEncode(fr) ==
    LET n == HeaderLen + Len(fr.payload)
    IN  When(TypeValid(fr.type) /\ FunctionValid(fr.function) /\ n <= MaxUint16,
             <<fr.type, fr.function>> \o PutUint16(n) \o fr.payload)

\* Mutant of DecodeFrame: octets behind the frame are tolerated.
DecodeFrameLax(raw) ==
    IF /\ Len(raw) >= HeaderLen
       /\ TypeValid(raw[1]) /\ FunctionValid(raw[2])
       /\ Uint16(raw, 3) >= HeaderLen /\ Uint16(raw, 3) <= Len(raw)
    THEN {[type |-> raw[1], function |-> raw[2],
           payload |-> SubSeq(raw, HeaderLen + 1, Uint16(raw, 3))]}
    ELSE {}

DecodeFrame(raw) ==
    IF /\ Len(raw) >= HeaderLen
       /\ TypeValid(raw[1]) /\ FunctionValid(raw[2])
       /\ Uint16(raw, 3) >= HeaderLen /\ Uint16(raw, 3) = Len(raw)
    THEN {[type |-> raw[1], function |-> raw[2], payload |-> From(raw, HeaderLen)]}
    ELSE {}

(***************************************************************************)
(* Addresses and table entries.  netip.AddrPort is the octets of the       *)
(* address (4 for IPv4, 16 for IPv6, none for the zero value) and a port.  *)
(***************************************************************************)
AddrPort == {a \in [ip : Seq(Octet), port : 0 .. MaxUint16] : Len(a.ip) \in {0, 4, 16}}
IsValidAddr(a) == Len(a.ip) \in {4, 16}
Is4(a) == Len(a.ip) = 4

encodeAddressPortIpV4(a) == a.ip \o PutUint16(a.port)
decodeAddressPortIpV4(d) == When(Len(d) = 6, [ip |-> Upto(d, 4), port |-> Uint16(d, 5)])

Smaller(a, b) == IF a < b THEN a ELSE b
GracePeriod == 30

FdtEntryValid(e) ==
    /\ Is4(e.address)
    /\ e.registeredTtl > 0
    /\ e.remainingTtl <= Smaller(e.registeredTtl + GracePeriod, MaxUint16)

FdtEntryEncode(e) ==
    When(Is4(e.address),
         encodeAddressPortIpV4(e.address) \o PutUint16(e.registeredTtl)
         \o PutUint16(e.remainingTtl))

FdtEntryDecode(d) ==
    IF Len(d) # EntryLen THEN {}
    ELSE LET e == [address |-> The(decodeAddressPortIpV4(Upto(d, 6))),
                   registeredTtl |-> Uint16(d, 7), remainingTtl |-> Uint16(d, 9)]
         IN  When(FdtEntryValid(e), e)

NewFdtEntry(address, ttl) ==
    When(Is4(address) /\ ttl # 0,
         [address |-> address, registeredTtl |-> ttl,
          remainingTtl |-> Smaller(ttl + GracePeriod, MaxUint16)])

BdtEntries == [address : AddrPort, mask : Seq(Octet)]

BdtEntryValid(e) ==
    /\ Len(e.mask) = 4
    /\ Is4(e.address)
    /\ \A i \in 1 .. 3 : e.mask[i] >= e.mask[i + 1]

BdtEntryEncode(e) ==
    When(Is4(e.address), encodeAddressPortIpV4(e.address) \o e.mask)

BdtEntryDecode(d) ==
    IF Len(d) # EntryLen THEN {}
    ELSE LET e == [address |-> The(decodeAddressPortIpV4(Upto(d, 6))), mask |-> From(d, 6)]
         IN  When(BdtEntryValid(e), e)

NewBdtEntry(address, mask) ==
    LET e == [address |-> address, mask |-> mask] IN When(BdtEntryValid(e), e)

\* The 10 octets at place i of a list, and a list put together of such pieces.
Piece(d, i) == SubSeq(d, EntryLen * (i - 1) + 1, EntryLen * i)
Joined(pieces) ==
    [i \in 1 .. EntryLen * Len(pieces) |->
        pieces[(i - 1) \div EntryLen + 1][((i - 1) % EntryLen) + 1]]

FdtEntryListValid(l) == \A i \in DOMAIN l : FdtEntryValid(l[i])
FdtEntryListEncode(l) ==
    IF \E i \in DOMAIN l : FdtEntryEncode(l[i]) = {} THEN {}
    ELSE {Joined([i \in DOMAIN l |-> The(FdtEntryEncode(l[i]))])}
FdtEntryListDecode(d) ==
    LET n == Len(d) \div EntryLen
    IN  IF Len(d) % EntryLen # 0 \/ \E i \in 1 .. n : FdtEntryDecode(Piece(d, i)) = {}
        THEN {} ELSE {[i \in 1 .. n |-> The(FdtEntryDecode(Piece(d, i)))]}

BdtEntryListValid(l) == \A i \in DOMAIN l : BdtEntryValid(l[i])
BdtEntryListEncode(l) ==
    IF \E i \in DOMAIN l : BdtEntryEncode(l[i]) = {} THEN {}
    ELSE {Joined([i \in DOMAIN l |-> The(BdtEntryEncode(l[i]))])}
BdtEntryListDecode(d) ==
    LET n == Len(d) \div EntryLen
    IN  IF Len(d) % EntryLen # 0 \/ \E i \in 1 .. n : BdtEntryDecode(Piece(d, i)) = {}
        THEN {} ELSE {[i \in 1 .. n |-> The(BdtEntryDecode(Piece(d, i)))]}
===============================================================================
