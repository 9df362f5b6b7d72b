------------------------------- MODULE APDUCodec ------------------------------
(***************************************************************************)
(* The APDU codec of package apdu (codec.go).                              *)
(*                                                                         *)
(* One record stands for outboundAPDU and inboundAPDU; window is           *)
(* ActualWindowSize of the first and ProposedWindowSize of the second.     *)
(***************************************************************************)
EXTENDS Octets

ConfirmedRequest == 0
UnconfirmedRequest == 1
SimpleACK == 2
ComplexACK == 3
SegmentACK == 4
ErrorPDU == 5
Reject == 6
Abort == 7

\* Values of the flag bits of the first octet.
BitSegmented == 8
BitMoreFollows == 4
BitResponseAccepted == 2
BitNegative == 2
BitServer == 1

ZeroAPDU ==
    [type |-> 0, segmented |-> FALSE, more |-> FALSE, accepted |-> FALSE,
     negative |-> FALSE, server |-> FALSE, maxSegments |-> 0, maxLength |-> 0,
     invoke |-> 0, seq |-> 0, window |-> 0, service |-> 0, payload |-> <<>>]

MaxSegmentsValid(m) == m <= 7

\* The lengths the codes 0 to 5 stand for.
Lengths == <<50, 128, 206, 480, 1024, 1476>>
maxAPDUCodeForLength(length) ==
    {k \in 0 .. 5 : length <= Lengths[k + 1] /\ \A j \in 0 .. k - 1 : length > Lengths[j + 1]}
maxAPDULengthForCode(code) == IF code \in 0 .. 5 THEN {Lengths[code + 1]} ELSE {}

(***************************************************************************)
(* encodeAPDU.  A segmented request is refused, a segment of a ComplexACK  *)
(* is not.                                                                 *)
(***************************************************************************)
ConfirmedRequestEncode(a) ==
    {<<16 * ConfirmedRequest + Flag(a.accepted, BitResponseAccepted),
       16 * a.maxSegments + code, a.invoke, a.service>> \o a.payload :
        code \in IF a.segmented \/ a.more THEN {} ELSE maxAPDUCodeForLength(a.maxLength)}

SegmentEncode(a) ==
    <<16 * a.type + BitSegmented + Flag(a.more, BitMoreFollows), a.invoke, a.seq, a.window>>
    \o (IF a.seq = 0 THEN <<a.service>> ELSE <<>>) \o a.payload

ReasonEncode(a) ==
    When(Len(a.payload) <= 1,
         <<16 * a.type + Flag(a.type = Abort /\ a.server, BitServer), a.invoke,
           IF a.payload = <<>> THEN 0 ELSE a.payload[1]>>)

encodeAPDU(a) ==
    IF a.type > Abort \/ ~MaxSegmentsValid(a.maxSegments) THEN {}
    ELSE CASE a.type = ConfirmedRequest -> ConfirmedRequestEncode(a)
      [] a.type = UnconfirmedRequest -> {<<16 * a.type, a.service>> \o a.payload}
      [] a.type \in {SimpleACK, ErrorPDU} \/ (a.type = ComplexACK /\ ~a.segmented) ->
            {<<16 * a.type, a.invoke, a.service>> \o a.payload}
      [] a.type = ComplexACK /\ a.segmented -> {SegmentEncode(a)}
      [] a.type \in {Reject, Abort} -> ReasonEncode(a)
      [] a.type = SegmentACK ->
            {<<16 * a.type + Flag(a.negative, BitNegative) + Flag(a.server, BitServer),
               a.invoke, a.seq, a.window>>}

(***************************************************************************)
(* decodeAPDU.                                                             *)
(***************************************************************************)
\* A segment from octet at on: sequence number, window, and in the first
\* segment the service.
SegmentDecode(a, raw, at) ==
    LET first == raw[at] = 0
        b == [a EXCEPT !.seq = raw[at], !.window = raw[at + 1]]
    IN  IF Len(raw) < at + 1 THEN {}
        ELSE IF ~first THEN {[b EXCEPT !.payload = From(raw, at + 1)]}
        ELSE When(Len(raw) >= at + 2,
                  [b EXCEPT !.service = raw[at + 2], !.payload = From(raw, at + 2)])

ConfirmedRequestDecode(a, raw) ==
    IF Len(raw) < 4 THEN {}
    ELSE UNION {LET b == [a EXCEPT !.segmented = Bit(raw[1], BitSegmented),
                                   !.more = Bit(raw[1], BitMoreFollows),
                                   !.accepted = Bit(raw[1], BitResponseAccepted),
                                   !.maxSegments = (raw[2] \div 16) % 8,
                                   !.maxLength = length, !.invoke = raw[3]]
                IN  IF b.segmented THEN SegmentDecode(b, raw, 4)
                    ELSE {[b EXCEPT !.service = raw[4], !.payload = From(raw, 4)]} :
                length \in maxAPDULengthForCode(raw[2] % 16)}

AckDecode(a, raw) ==
    LET ack == a.type = ComplexACK
        b == [a EXCEPT !.segmented = ack /\ Bit(raw[1], BitSegmented),
                       !.more = ack /\ Bit(raw[1], BitMoreFollows)]
    IN  IF b.segmented
        THEN IF Len(raw) < 4 THEN {} ELSE SegmentDecode([b EXCEPT !.invoke = raw[2]], raw, 3)
        ELSE When(Len(raw) >= 3,
                  [b EXCEPT !.invoke = raw[2], !.service = raw[3], !.payload = From(raw, 3)])

PDUDecode(a, raw) ==
    CASE a.type > Abort -> {}
      [] a.type = ConfirmedRequest -> ConfirmedRequestDecode(a, raw)
      [] a.type = UnconfirmedRequest ->
            When(Len(raw) >= 2, [a EXCEPT !.service = raw[2], !.payload = From(raw, 2)])
      [] a.type \in {SimpleACK, ComplexACK, ErrorPDU} -> AckDecode(a, raw)
      [] a.type \in {Reject, Abort} ->
            When(Len(raw) >= 3,
                 [a EXCEPT !.server = a.type = Abort /\ Bit(raw[1], BitServer),
                           !.invoke = raw[2], !.payload = <<raw[3]>>])
      [] a.type = SegmentACK ->
            When(Len(raw) >= 4,
                 [a EXCEPT !.negative = Bit(raw[1], BitNegative),
                           !.server = Bit(raw[1], BitServer),
                           !.invoke = raw[2], !.seq = raw[3], !.window = raw[4]])

decodeAPDU(raw) ==
    IF raw = <<>> THEN {} ELSE PDUDecode([ZeroAPDU EXCEPT !.type = raw[1] \div 16], raw)
===============================================================================
