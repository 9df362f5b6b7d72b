----------------------------- MODULE BVLCFunctions ----------------------------
(***************************************************************************)
(* The twelve BVLC functions of bvlc_functions.go: for each the check of   *)
(* its Valid, its Encode, its Decode and its constructor.                  *)
(***************************************************************************)
EXTENDS BVLC

\* What Encode does when it writes behind its buffer: it panics.
Panic == <<-1>>

(***************************************************************************)
(* BVLC-Result.                                                            *)
(***************************************************************************)
CodeSuccess == 0
CodeWriteBDTNak == 16
CodeReadBDTNak == 32
CodeRegisterNak == 48
CodeReadFDTNak == 64
CodeDeleteNak == 80
CodeDistributeNak == 96
ResultCodeValid(c) ==
    c \in {CodeSuccess, CodeWriteBDTNak, CodeReadBDTNak, CodeRegisterNak,
           CodeReadFDTNak, CodeDeleteNak, CodeDistributeNak}

BVLCResultValid(m) ==
    HeaderValid(m.header) /\ m.header.function = FnResult /\ ResultCodeValid(m.resultCode)

BVLCResultEncode(m) ==
    IF m.header.length # HeaderLen + 2 THEN {}
    ELSE HeaderEncode(m.header, PutUint16(m.resultCode))

BVLCResultDecode(d) ==
    IF Len(d) # HeaderLen + 2 THEN {}
    ELSE {[header |-> h, resultCode |-> Uint16(d, 5)] :
            h \in {g \in HeaderOf(d, FnResult) : g.type = BACnetIP /\ ResultCodeValid(Uint16(d, 5))}}

NewBVLCResult(code) ==
    When(ResultCodeValid(code),
         [header |-> NewHeader(BACnetIP, FnResult, HeaderLen + 2), resultCode |-> code])

(***************************************************************************)
(* Reading and writing the broadcast distribution table.                   *)
(***************************************************************************)
WriteBDTValid(m) == HeaderValid(m.header) /\ BdtEntryListValid(m.entries)

WriteBDTEncode(m) ==
    UNION {WholeEncode(m.header, body) : body \in BdtEntryListEncode(m.entries)}

WriteBDTDecode(d) ==
    IF Len(d) < HeaderLen + EntryLen THEN {}
    ELSE {m \in {[header |-> h, entries |-> l] :
                    h \in HeaderOf(d, FnWriteBDT),
                    l \in BdtEntryListDecode(From(d, HeaderLen))} : WriteBDTValid(m)}

NewWriteBDT(entries) ==
    When(entries # <<>> /\ BdtEntryListValid(entries),
         [header |-> NewHeader(BACnetIP, FnWriteBDT, HeaderLen + EntryLen * Len(entries)),
          entries |-> entries])

ReadBDTValid(m) == HeaderValid(m.header)
ReadBDTEncode(m) == HeaderEncode(m.header, <<>>)
ReadBDTDecode(d) ==
    IF Len(d) # HeaderLen THEN {} ELSE {[header |-> h] : h \in HeaderOf(d, FnReadBDT)}
NewReadBDT == [header |-> NewHeader(BACnetIP, FnReadBDT, HeaderLen)]

ReadBDTAckValid(m) == HeaderValid(m.header) /\ BdtEntryListValid(m.entries)

ReadBDTAckEncode(m) ==
    UNION {WholeEncode(m.header, body) : body \in BdtEntryListEncode(m.entries)}

ReadBDTAckDecode(d) ==
    IF Len(d) < HeaderLen THEN {}
    ELSE {m \in {[header |-> h, entries |-> l] :
                    h \in HeaderOf(d, FnReadBDTAck),
                    l \in BdtEntryListDecode(From(d, HeaderLen))} : ReadBDTAckValid(m)}

NewReadBDTAck(entries) ==
    When(BdtEntryListValid(entries),
         [header |-> NewHeader(BACnetIP, FnReadBDTAck, HeaderLen + EntryLen * Len(entries)),
          entries |-> entries])

(***************************************************************************)
(* Foreign devices: registration, and reading and deleting in their table. *)
(***************************************************************************)
RegisterValid(m) == HeaderValid(m.header) /\ m.ttl # 0

RegisterEncode(m) ==
    IF m.header.length \in HeaderLen .. HeaderLen + 1 /\ HeaderValid(m.header)
    THEN {Panic}
    ELSE HeaderEncode(m.header, PutUint16(m.ttl))

RegisterDecode(d) ==
    IF Len(d) # HeaderLen + 2 THEN {}
    ELSE {m \in {[header |-> h, ttl |-> Uint16(d, 5)] :
                    h \in HeaderOf(d, FnRegisterForeignDevice)} : RegisterValid(m)}

NewRegister(ttl) ==
    When(ttl # 0,
         [header |-> NewHeader(BACnetIP, FnRegisterForeignDevice, HeaderLen + 2), ttl |-> ttl])

ReadFDTValid(m) == HeaderValid(m.header)
ReadFDTEncode(m) == HeaderEncode(m.header, <<>>)
ReadFDTDecode(d) ==
    IF Len(d) # HeaderLen THEN {} ELSE {[header |-> h] : h \in HeaderOf(d, FnReadFDT)}
NewReadFDT == [header |-> NewHeader(BACnetIP, FnReadFDT, HeaderLen)]

ReadFDTAckValid(m) == HeaderValid(m.header) /\ FdtEntryListValid(m.entries)

ReadFDTAckEncode(m) ==
    UNION {WholeEncode(m.header, body) : body \in FdtEntryListEncode(m.entries)}

ReadFDTAckDecode(d) ==
    IF Len(d) < HeaderLen THEN {}
    ELSE {[header |-> h, entries |-> l] :
            h \in HeaderOf(d, FnReadFDTAck), l \in FdtEntryListDecode(From(d, HeaderLen))}

NewReadFDTAck(entries) ==
    When(FdtEntryListValid(entries),
         [header |-> NewHeader(BACnetIP, FnReadFDTAck, HeaderLen + EntryLen * Len(entries)),
          entries |-> entries])

DeleteFDTEntryValid(m) == HeaderValid(m.header) /\ FdtEntryValid(m.entry)

DeleteFDTEntryEncode(m) ==
    UNION {WholeEncode(m.header, body) : body \in FdtEntryEncode(m.entry)}

DeleteFDTEntryDecode(d) ==
    IF Len(d) # HeaderLen + EntryLen THEN {}
    ELSE {m \in {[header |-> h, entry |-> e] :
                    h \in HeaderOf(d, FnDeleteFDTEntry),
                    e \in FdtEntryDecode(From(d, HeaderLen))} : DeleteFDTEntryValid(m)}

NewDeleteFDTEntry(entry) ==
    When(FdtEntryValid(entry),
         [header |-> NewHeader(BACnetIP, FnDeleteFDTEntry, HeaderLen + EntryLen), entry |-> entry])

(***************************************************************************)
(* The functions that carry an NPDU.                                       *)
(***************************************************************************)
ForwardedNpduValid(m) == HeaderValid(m.header) /\ IsValidAddr(m.origin) /\ m.npdu # <<>>

ForwardedNpduEncode(m) ==
    WholeEncode(m.header, encodeAddressPortIpV4(m.origin) \o m.npdu)

ForwardedNpduDecode(d) ==
    IF Len(d) <= HeaderLen + 6 THEN {}
    ELSE {[header |-> h, origin |-> a, npdu |-> From(d, HeaderLen + 6)] :
            h \in HeaderOf(d, FnForwardedNPDU),
            a \in decodeAddressPortIpV4(SubSeq(d, HeaderLen + 1, HeaderLen + 6))}

NewForwardedNpdu(origin, npdu) ==
    LET n == HeaderLen + 6 + Len(npdu)
    IN  When(Is4(origin) /\ npdu # <<>> /\ n <= MaxUint16,
             [header |-> NewHeader(BACnetIP, FnForwardedNPDU, n), origin |-> origin, npdu |-> npdu])

\* A header and an NPDU of at least one octet: the three other functions.
NpduMessage(t, f, npdu) ==
    When(TypeValid(t) /\ npdu # <<>> /\ HeaderLen + Len(npdu) <= MaxUint16,
         [header |-> NewHeader(t, f, HeaderLen + Len(npdu)), npdu |-> npdu])

NpduDecode(d, f) ==
    IF Len(d) <= HeaderLen THEN {}
    ELSE {[header |-> h, npdu |-> From(d, HeaderLen)] : h \in HeaderOf(d, f)}

DistributeValid(m) == HeaderValid(m.header) /\ m.npdu # <<>>
DistributeEncode(m) == WholeEncode(m.header, m.npdu)
DistributeDecode(d) == NpduDecode(d, FnDistributeBroadcast)
NewDistribute(t, npdu) == NpduMessage(t, FnDistributeBroadcast, npdu)

OriginalUnicastValid(m) ==
    HeaderValid(m.header) /\ m.header.function = FnOriginalUnicast /\ m.npdu # <<>>
OriginalUnicastEncode(m) ==
    IF OriginalUnicastValid(m) THEN WholeEncode(m.header, m.npdu) ELSE {}
OriginalUnicastDecode(d) == NpduDecode(d, FnOriginalUnicast)
NewOriginalUnicast(t, npdu) == NpduMessage(t, FnOriginalUnicast, npdu)

OriginalBroadcastValid(m) ==
    HeaderValid(m.header) /\ m.header.function = FnOriginalBroadcast /\ m.npdu # <<>>
OriginalBroadcastEncode(m) ==
    IF OriginalBroadcastValid(m) THEN HeaderEncode(m.header, m.npdu) ELSE {}
OriginalBroadcastDecode(d) == NpduDecode(d, FnOriginalBroadcast)
NewOriginalBroadcast(t, npdu) == NpduMessage(t, FnOriginalBroadcast, npdu)
===============================================================================
