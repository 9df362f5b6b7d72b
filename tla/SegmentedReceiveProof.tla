----------------------- MODULE SegmentedReceiveProof -----------------------
(***************************************************************************)
(* Proofs about SegmentedReceive for every window, every number of         *)
(* segments that the sequence numbers can tell apart (Fits), and every     *)
(* duplicate limit.                                                        *)
(***************************************************************************)
EXTENDS SegmentedReceive, TLAPS

\* No two segments of a request share a sequence number on the wire.
Fits == Segments <= SeqSpace

\* The buffer holds the segments 0, 1, 2, ... and nothing else.
Ordered(buf) == \A j \in 1 .. Len(buf) : buf[j].idx = j - 1

\* The machine's numbers agree with its buffer.
MachineOK ==
    /\ Ordered(segmentBuffer)
    /\ state = "Receiving" =>
         /\ Len(segmentBuffer) \in 1 .. Segments - 1
         /\ sequenceNumber = Len(segmentBuffer)
         /\ initialSequenceNumber + receivedInCurrentWindow = sequenceNumber
         /\ receivedInCurrentWindow < actualWindowSize
         /\ duplicateCount <= MaxDuplicates

\* What is dispatched is complete.
CompleteOK ==
    /\ state = "AwaitResponse" => Len(segmentBuffer) = Segments
    /\ lpc = "dispatch" => Len(segmentBuffer) = Segments
    /\ handled # <<>> => Len(handled) = Segments /\ Ordered(handled)

IInv == TypeOK /\ MachineOK /\ CompleteOK /\ AckSound

-----------------------------------------------------------------------------
\* A sequence number below the modulus does not wrap.
LEMMA ModSmall == ASSUME NEW n \in Nat \ {0}, NEW x \in 0 .. n - 1 PROVE x % n = x
  OBVIOUS

\* Appending the segment that comes next keeps the buffer ordered.
LEMMA AppendOrdered ==
    ASSUME NEW buf \in Seq(AllSegments), NEW seg \in AllSegments,
           Ordered(buf), seg.idx = Len(buf)
    PROVE  /\ Append(buf, seg) \in Seq(AllSegments)
           /\ Len(Append(buf, seg)) = Len(buf) + 1
           /\ Ordered(Append(buf, seg))
  BY DEF Ordered

\* bufferSegment and drainContiguousSegmentBuffer, on the next segment.
LEMMA ConsumeStep ==
    ASSUME Fits, NEW buf \in Seq(AllSegments), NEW seg \in AllSegments, Ordered(buf),
           NEW initial \in 0 .. SeqSpace - 1, NEW received \in 0 .. PreferredWindow,
           NEW window \in 1 .. PreferredWindow, received < window,
           initial + received = Len(buf), seg.idx = Len(buf),
           Consume(seg, buf, Len(buf), initial, received, window), lpc' = "post",
           handled' = handled, CompleteOK
    PROVE  /\ MachineOK' /\ CompleteOK' /\ AckSound'
           /\ state' \in {"Receiving", "AwaitResponse"}
           /\ segmentBuffer' \in Seq(AllSegments)
           /\ sequenceNumber' \in 0 .. SeqSpace - 1
           /\ initialSequenceNumber' \in 0 .. SeqSpace - 1
           /\ receivedInCurrentWindow' \in 0 .. PreferredWindow
           /\ actualWindowSize' \in 1 .. PreferredWindow
           /\ duplicateCount' = 0
           /\ output' \in PDUs
<1> USE SegmentsAssumption, SeqSpaceAssumption, WindowAssumption, MaxDuplicatesAssumption DEF Fits
<1>1. /\ Len(buf) \in 0 .. Segments - 1
      /\ segmentBuffer' = Append(buf, seg)
      /\ segmentBuffer' \in Seq(AllSegments)
      /\ Len(segmentBuffer') = Len(buf) + 1
      /\ Ordered(segmentBuffer')
    BY AppendOrdered DEF Consume, AllSegments
<1>2. CASE MoreFollows(seg)
  <2>1. Len(buf) + 1 \in 0 .. Segments - 1
    BY <1>1, <1>2 DEF MoreFollows
  <2>2. Len(buf) + 1 \in 0 .. SeqSpace - 1
    BY <1>1, <2>1
  <2>3. (Len(buf) + 1) % SeqSpace = Len(buf) + 1
    BY <2>2, ModSmall
  <2> QED
    BY <1>1, <1>2, <2>1, <2>2, <2>3
    DEF Consume, WindowFull, MachineOK, CompleteOK, AckSound, PDUs, SegmentACK, NoPDU
<1>3. CASE ~MoreFollows(seg)
  <2>1. Len(buf) + 1 = Segments
    BY <1>1, <1>3 DEF MoreFollows
  <2>2. (Len(buf) + 1) % SeqSpace \in 0 .. SeqSpace - 1
    BY <1>1
  <2> QED
    BY <1>1, <1>3, <2>1, <2>2
    DEF Consume, WindowFull, MachineOK, CompleteOK, AckSound, PDUs, SegmentACK, NoPDU
<1> QED
    BY <1>2, <1>3

-----------------------------------------------------------------------------
\* The inductive invariant holds initially.
LEMMA InitInv == Init => IInv
<1> SUFFICES ASSUME Init PROVE IInv
    OBVIOUS
<1> USE NumRequestsAssumption, SegmentsAssumption, SeqSpaceAssumption, WindowAssumption,
        MaxDuplicatesAssumption DEF Init
<1>1. <<>> \in Seq(AllSegments) /\ Ordered(<<>>)
    BY DEF Ordered
<1>2. output \in PDUs
    BY DEF NoPDU, PDUs
<1>3. cur \in Requests /\ top \in [Requests -> 0 .. Segments]
    BY DEF Requests
<1>4. TypeOK
  <2>1. /\ sequenceNumber \in 0 .. SeqSpace - 1
        /\ initialSequenceNumber \in 0 .. SeqSpace - 1
        /\ receivedInCurrentWindow \in 0 .. PreferredWindow
        /\ actualWindowSize \in 1 .. PreferredWindow
        /\ duplicateCount \in 0 .. MaxDuplicates + 1
        /\ acked \in 0 .. SeqSpace
    OBVIOUS
  <2>2. stored \in BOOLEAN /\ expired \in BOOLEAN /\ closed \in BOOLEAN
    OBVIOUS
  <2>3. /\ state \in {"Idle", "Receiving", "AwaitResponse", "Aborted"}
        /\ lpc \in {"idle", "post", "dispatch"}
        /\ path \in {"none", "new", "duplicate", "continue", "timeout"}
        /\ segmentBuffer \in Seq(AllSegments) /\ handled \in Seq(AllSegments)
    BY <1>1
  <2> QED
    BY <1>2, <1>3, <2>1, <2>2, <2>3 DEF TypeOK
<1>5. MachineOK /\ CompleteOK /\ AckSound
    BY <1>1 DEF MachineOK, CompleteOK, AckSound, NoPDU
<1> QED
    BY <1>4, <1>5 DEF IInv

\* Each branch of the two receive functions preserves it.
LEMMA ReceiveStep == ASSUME Fits, IInv, Receive PROVE IInv'
<1> PICK seg \in AllSegments :
        ReceiveExpired(seg) \/ StartNew(seg) \/ StartDuplicate(seg) \/ Continue(seg)
    BY DEF Receive
<1> USE SegmentsAssumption, SeqSpaceAssumption, WindowAssumption, MaxDuplicatesAssumption
    DEF IInv, After, requesterVars, machineVars
<1>0. seg.idx \in 0 .. SeqSpace - 1 /\ Wire(seg) = seg.idx
    BY ModSmall DEF Wire, AllSegments, Fits
<1>1. CASE ReceiveExpired(seg)
    BY <1>1 DEF ReceiveExpired, SegmentTimeout, TypeOK, MachineOK, CompleteOK, AckSound, PDUs, Abort
<1>2. CASE StartNew(seg)
  <2>1. PICK window \in 1 .. PreferredWindow : Consume(seg, <<>>, 0, 0, 0, window)
    BY <1>2 DEF StartNew
  <2>2. <<>> \in Seq(AllSegments) /\ Ordered(<<>>) /\ Len(<<>>) = 0
    BY DEF Ordered
  <2>3. Consume(seg, <<>>, Len(<<>>), 0, 0, window)
    BY <2>1, <2>2
  <2>4. seg.idx = 0 /\ lpc' = "post" /\ path' = "new"
        /\ UNCHANGED <<stored, expired, closed, handled, cur, top, acked>>
    BY <1>0, <1>2 DEF StartNew
  <2>5. 0 \in 0 .. SeqSpace - 1 /\ 0 \in 0 .. PreferredWindow /\ 0 < window
        /\ 0 + 0 = Len(<<>>) /\ 0 \in 0 .. MaxDuplicates + 1
    BY <2>2
  <2>6. /\ MachineOK' /\ CompleteOK' /\ AckSound'
        /\ state' \in {"Receiving", "AwaitResponse"}
        /\ segmentBuffer' \in Seq(AllSegments)
        /\ sequenceNumber' \in 0 .. SeqSpace - 1
        /\ initialSequenceNumber' \in 0 .. SeqSpace - 1
        /\ receivedInCurrentWindow' \in 0 .. PreferredWindow
        /\ actualWindowSize' \in 1 .. PreferredWindow
        /\ duplicateCount' = 0
        /\ output' \in PDUs
    BY <2>2, <2>3, <2>4, <2>5, ConsumeStep
  <2> QED
    BY <2>4, <2>5, <2>6 DEF TypeOK
<1>3. ASSUME Duplicate, state = "Receiving", lpc' = "post",
             path' \in {"duplicate", "continue"},
             UNCHANGED <<stored, expired, closed, handled, cur, top, acked>>
      PROVE  IInv'
  <2>0. /\ duplicateCount' \in 0 .. MaxDuplicates + 1
        /\ ~(duplicateCount + 1 > MaxDuplicates) => duplicateCount' <= MaxDuplicates
    BY <1>3 DEF Duplicate, TypeOK, MachineOK
  <2>1. /\ \/ state' = "Aborted" /\ output' = Abort
           \/ /\ state' = state /\ ~(duplicateCount + 1 > MaxDuplicates)
              /\ output' = SegmentACK(LastContiguous, FALSE)
        /\ UNCHANGED <<segmentBuffer, sequenceNumber, initialSequenceNumber,
                       receivedInCurrentWindow, actualWindowSize>>
    BY <1>3 DEF Duplicate
  <2>2. LastContiguous = Len(segmentBuffer) - 1 /\ LastContiguous \in 0 .. SeqSpace - 1
    BY <1>3 DEF LastContiguous, MachineOK, TypeOK, Fits
  <2>3. TypeOK'
    <3>1. Abort \in PDUs
      BY DEF PDUs, Abort
    <3>2. SegmentACK(LastContiguous, FALSE) \in PDUs
      BY <2>2 DEF PDUs, SegmentACK
    <3> QED
      BY <1>3, <2>0, <2>1, <3>1, <3>2 DEF TypeOK
  <2>4. MachineOK' /\ CompleteOK'
    BY <1>3, <2>0, <2>1 DEF MachineOK, CompleteOK
  <2>5. AckSound'
    BY <2>1, <2>2 DEF AckSound, Abort, SegmentACK
  <2> QED
    BY <2>3, <2>4, <2>5
<1>4. CASE StartDuplicate(seg)
    BY <1>3, <1>4 DEF StartDuplicate
<1>5. CASE Continue(seg)
  <2>1. lpc' = "post" /\ path' = "continue" /\ state = "Receiving"
        /\ UNCHANGED <<stored, expired, closed, handled, cur, top, acked>>
    BY <1>5 DEF Continue
  <2>2. CASE Expected(seg) /\ Consume(seg, segmentBuffer, sequenceNumber,
                  initialSequenceNumber, receivedInCurrentWindow, actualWindowSize)
    <3>1. /\ segmentBuffer \in Seq(AllSegments) /\ Ordered(segmentBuffer)
          /\ initialSequenceNumber \in 0 .. SeqSpace - 1
          /\ receivedInCurrentWindow \in 0 .. PreferredWindow
          /\ actualWindowSize \in 1 .. PreferredWindow
          /\ receivedInCurrentWindow < actualWindowSize
          /\ initialSequenceNumber + receivedInCurrentWindow = Len(segmentBuffer)
          /\ sequenceNumber = Len(segmentBuffer) /\ seg.idx = Len(segmentBuffer)
      BY <1>0, <2>1, <2>2 DEF Expected, TypeOK, MachineOK
    <3>2. Consume(seg, segmentBuffer, Len(segmentBuffer), initialSequenceNumber,
                  receivedInCurrentWindow, actualWindowSize)
      BY <2>2, <3>1
    <3>3. /\ MachineOK' /\ CompleteOK' /\ AckSound'
          /\ state' \in {"Receiving", "AwaitResponse"}
          /\ segmentBuffer' \in Seq(AllSegments)
          /\ sequenceNumber' \in 0 .. SeqSpace - 1
          /\ initialSequenceNumber' \in 0 .. SeqSpace - 1
          /\ receivedInCurrentWindow' \in 0 .. PreferredWindow
          /\ actualWindowSize' \in 1 .. PreferredWindow
          /\ duplicateCount' = 0
          /\ output' \in PDUs
      BY <2>1, <3>1, <3>2, ConsumeStep
    <3> QED
      BY <2>1, <3>3 DEF TypeOK
  <2>3. CASE Duplicate
    BY <1>3, <2>1, <2>3
  <2>4. CASE OutOfOrder
    BY <2>1, <2>4 DEF OutOfOrder, LastContiguous, TypeOK, MachineOK, CompleteOK, AckSound,
                      PDUs, SegmentACK, Fits
  <2> QED
    BY <1>5, <2>2, <2>3, <2>4 DEF Continue
<1> QED
    BY <1>1, <1>2, <1>4, <1>5

\* Every step preserves it.
LEMMA NextInv == ASSUME Fits, IInv, [Next]_vars PROVE IInv'
<1> USE NumRequestsAssumption, SegmentsAssumption, SeqSpaceAssumption, WindowAssumption,
        MaxDuplicatesAssumption
    DEF IInv, TypeOK, MachineOK, CompleteOK, AckSound, machineVars, loopVars, requesterVars
<1>1. CASE Receive
    BY <1>1, ReceiveStep
<1>2. CASE SendFails
    BY <1>2 DEF SendFails, LoopDone, NoPDU, PDUs
<1>3. CASE Post
  <2>1. acked' \in 0 .. SeqSpace
    BY <1>3 DEF Post, Acknowledge, PDUs
  <2>2. Settle /\ UNCHANGED <<machineVars, closed, handled, cur, top>>
    BY <1>3 DEF Post
  <2>3. /\ output' = NoPDU /\ path' = "none"
        /\ lpc' = "idle" \/ (lpc' = "dispatch" /\ state = "AwaitResponse")
    BY <2>2 DEF Settle, LoopDone
  <2>4. stored' \in BOOLEAN /\ expired' \in BOOLEAN
    BY <2>2 DEF Settle
  <2>5. NoPDU \in PDUs
    BY DEF NoPDU, PDUs
  <2> QED
    BY <2>1, <2>2, <2>3, <2>4, <2>5 DEF NoPDU
<1>4. CASE Dispatch
    BY <1>4 DEF Dispatch, LoopDone, NoPDU, PDUs
<1>5. CASE Expire
    BY <1>5 DEF Expire
<1>6. CASE Collect
    BY <1>6 DEF Collect
<1>7. CASE Close
    BY <1>7 DEF Close
<1>8. CASE SendSegment
    BY <1>8 DEF SendSegment
<1>9. CASE NextRequest
    BY <1>9 DEF NextRequest, Requests
<1>10. CASE UNCHANGED vars
    BY <1>10 DEF vars
<1> QED
    BY <1>1, <1>2, <1>3, <1>4, <1>5, <1>6, <1>7, <1>8, <1>9, <1>10 DEF Next

\* With sequence numbers that do not wrap within a request, IInv is invariant.
THEOREM Invariance == Fits => (Spec => []IInv)
<1> SUFFICES ASSUME Fits PROVE Spec => []IInv
    OBVIOUS
<1>1. IInv /\ [Next]_vars => IInv'
    BY NextInv
<1> QED
    BY InitInv, <1>1, PTL DEF Spec

\* The server never wanders out of its types.
THEOREM TypeCorrect == Fits => (Spec => []TypeOK)
<1>1. IInv => TypeOK
    BY DEF IInv
<1> QED
    BY Invariance, <1>1, PTL

\* Every Segment-ACK, positive or negative, names the last segment received
\* without a gap (buildSegmentACKOutput, duplicateSegmentOutput).
THEOREM AcksAreSound == Fits => (Spec => []AckSound)
<1>1. IInv => AckSound
    BY DEF IInv
<1> QED
    BY Invariance, <1>1, PTL

\* The window counters always agree with the buffer
\* (drainContiguousSegmentBuffer).
THEOREM WindowStaysOK == Fits => (Spec => []WindowOK)
<1> SUFFICES ASSUME Fits PROVE Spec => []WindowOK
    OBVIOUS
<1>1. IInv => WindowOK
  <2> SUFFICES ASSUME IInv, state = "Receiving" PROVE WindowOK
    BY DEF WindowOK
  <2>1. /\ sequenceNumber = Len(segmentBuffer)
        /\ initialSequenceNumber + receivedInCurrentWindow = sequenceNumber
        /\ receivedInCurrentWindow < actualWindowSize
        /\ sequenceNumber \in 0 .. SeqSpace - 1
    BY DEF IInv, MachineOK, TypeOK
  <2>2. sequenceNumber % SeqSpace = sequenceNumber
    BY <2>1, ModSmall, SeqSpaceAssumption
  <2> QED
    BY <2>1, <2>2 DEF WindowOK
<1> QED
    BY Invariance, <1>1, PTL

\* The handler is only ever given a full set of segments in order
\* (drainContiguousSegmentBuffer), whatever the network, the collector and
\* Close do and however often the invoke ID is reused.
THEOREM DispatchedInOrder == Fits => (Spec => []PositionsInOrder)
<1> SUFFICES ASSUME Fits PROVE Spec => []PositionsInOrder
    OBVIOUS
<1>1. IInv => PositionsInOrder
    BY DEF IInv, CompleteOK, Ordered, PositionsInOrder
<1> QED
    BY Invariance, <1>1, PTL

\* A requester that uses its invoke ID for one request only has that request
\* dispatched, whole and in order (AssembledPayload), or nothing.
THEOREM RequestsReassembled ==
    Fits /\ NumRequests = 1 => (Spec => []Reassembled)
<1> SUFFICES ASSUME Fits, NumRequests = 1 PROVE Spec => []Reassembled
    OBVIOUS
<1>1. TypeOK /\ PositionsInOrder => Reassembled
  <2> SUFFICES ASSUME TypeOK, PositionsInOrder,
                      NEW j \in 1 .. Len(handled)
               PROVE  handled[j].req = handled[1].req
    BY DEF Reassembled
  <2>1. handled \in Seq(AllSegments) /\ 1 \in 1 .. Len(handled)
    BY DEF TypeOK
  <2>2. \A seg \in AllSegments : seg.req = 1
    BY DEF AllSegments, Requests
  <2> QED
    BY <2>1, <2>2
<1> QED
    BY TypeCorrect, DispatchedInOrder, <1>1, PTL
=============================================================================
