---------------------- MODULE SegmentedTransmitProof ----------------------
(***************************************************************************)
(* Proofs about SegmentedTransmit for every number of segments, window,    *)
(* retry limit and set of windows the requester may announce.              *)
(***************************************************************************)
EXTENDS SegmentedTransmit, TLAPS

\* A machine's sequence numbers and payload offsets are the same numbers, and
\* the current window is not empty while the machine waits.
NumbersOK(m) ==
    /\ initialSequenceNumber[m] = responsePayloadOffset[m]
    /\ sequenceNumber[m] = responseNextOffset[m]
    /\ state[m] = "AwaitSegmentACK" => responsePayloadOffset[m] < Segments
    /\ responseNextOffset[m] <= responsePayloadOffset[m] + PreferredWindow

\* What is sent, and what is about to be, is numbered by its payload.
WireOK ==
    /\ \A s \in network : s.seq = s.idx
    /\ \A g \in Drivers : \A s \in outbound[g] : s.seq = s.idx

\* A goroutine holds a response exactly while it works.
DriversOK == \A g \in Drivers : pc[g] # "idle" => holds[g] # None

\* With one response, the Segment-ACK under way is one the requester sent for it.
AckOK == NumResponses = 1 /\ pc["loop"] = "handle" => ack.seq < have[1]

IInv ==
    /\ TypeOK
    /\ \A m \in Responses : NumbersOK(m)
    /\ WireOK
    /\ DriversOK
    /\ AckOK

USE NumResponsesAssumption, SegmentsAssumption, WindowAssumption, MaxRetriesAssumption,
    PeerWindowsAssumption DEF States

-----------------------------------------------------------------------------
\* What buildCurrentSegmentedComplexACKWindow leaves behind.
LEMMA BuildWindowOK ==
    ASSUME TypeOK, \A k \in Responses : NumbersOK(k), WireOK,
           NEW g \in Drivers, NEW m \in Responses,
           NEW offset \in 0 .. Segments - 1, NEW window \in 1 .. PreferredWindow,
           BuildWindow(g, m, offset, offset, window),
           NEW s \in {"AwaitSegmentACK"}, state' = [state EXCEPT ![m] = s],
           network' = network
    PROVE  /\ responsePayloadOffset' \in [Responses -> 0 .. Segments]
           /\ responseNextOffset' \in [Responses -> 0 .. Segments]
           /\ initialSequenceNumber' \in [Responses -> Nat]
           /\ sequenceNumber' \in [Responses -> Nat]
           /\ outbound' \in [Drivers -> SUBSET AllSegments]
           /\ \A k \in Responses : NumbersOK(k)'
           /\ WireOK'
<1> DEFINE n == Smaller(window, Segments - offset)
<1>1. n \in 1 .. PreferredWindow /\ offset + n \in 1 .. Segments
    BY DEF Smaller
<1>2. /\ responsePayloadOffset' = [responsePayloadOffset EXCEPT ![m] = offset]
      /\ responseNextOffset' = [responseNextOffset EXCEPT ![m] = offset + n]
      /\ initialSequenceNumber' = [initialSequenceNumber EXCEPT ![m] = offset]
      /\ sequenceNumber' = [sequenceNumber EXCEPT ![m] = offset + n]
      /\ outbound' = [outbound EXCEPT ![g] =
                          {Segment(m, offset + i, offset + i) : i \in 0 .. n - 1}]
    BY DEF BuildWindow
<1> HIDE DEF n
<1>3. \A x \in {Segment(m, offset + i, offset + i) : i \in 0 .. n - 1} :
          x \in AllSegments /\ x.seq = x.idx
    BY <1>1 DEF Segment, AllSegments
<1>4. /\ responsePayloadOffset' \in [Responses -> 0 .. Segments]
      /\ responseNextOffset' \in [Responses -> 0 .. Segments]
      /\ initialSequenceNumber' \in [Responses -> Nat]
      /\ sequenceNumber' \in [Responses -> Nat]
    BY <1>1, <1>2 DEF TypeOK
<1>5. outbound' \in [Drivers -> SUBSET AllSegments] /\ WireOK'
    BY <1>2, <1>3 DEF TypeOK, WireOK
<1>6. ASSUME NEW k \in Responses PROVE NumbersOK(k)'
  <2>1. CASE k = m
    BY <1>1, <1>2, <2>1 DEF TypeOK, NumbersOK
  <2>2. CASE k # m
    <3>1. NumbersOK(k)
      OBVIOUS
    <3> QED
      BY <1>2, <2>2, <3>1 DEF TypeOK, NumbersOK
  <2> QED
    BY <2>1, <2>2
<1> QED
    BY <1>4, <1>5, <1>6

\* Retransmission keeps everything the machine and its output promise.
LEMMA RetransmitOK ==
    ASSUME TypeOK, \A k \in Responses : NumbersOK(k), WireOK,
           NEW g \in Drivers, NEW m \in Responses, NEW window \in 1 .. PreferredWindow,
           state[m] = "AwaitSegmentACK", Retransmit(g, m, window), network' = network
    PROVE  /\ responsePayloadOffset' \in [Responses -> 0 .. Segments]
           /\ responseNextOffset' \in [Responses -> 0 .. Segments]
           /\ initialSequenceNumber' \in [Responses -> Nat]
           /\ sequenceNumber' \in [Responses -> Nat]
           /\ retryCount' \in [Responses -> 0 .. MaxRetries]
           /\ state' \in [Responses -> States]
           /\ \A k \in Responses : state'[k] = "Completed" => state[k] = "Completed"
           /\ outbound' \in [Drivers -> SUBSET AllSegments]
           /\ \A k \in Responses : NumbersOK(k)'
           /\ WireOK'
<1>1. CASE /\ MayRetry(m)
           /\ retryCount' = [retryCount EXCEPT ![m] = OneMore(m)]
           /\ BuildWindow(g, m, responsePayloadOffset[m], Rewind(m), window)
           /\ UNCHANGED state
  <2>1. /\ responsePayloadOffset[m] \in 0 .. Segments - 1
        /\ Rewind(m) = responsePayloadOffset[m]
    BY DEF TypeOK, NumbersOK, Rewind
  <2>2. state' = [state EXCEPT ![m] = "AwaitSegmentACK"]
    BY <1>1 DEF TypeOK
  <2>3. retryCount' \in [Responses -> 0 .. MaxRetries]
    BY <1>1 DEF TypeOK, OneMore, MayRetry
  <2>4. state' \in [Responses -> States]
    BY <1>1 DEF TypeOK
  <2>5. BuildWindow(g, m, responsePayloadOffset[m], responsePayloadOffset[m], window)
    BY <1>1, <2>1
  <2> QED
    BY <1>1, <2>1, <2>2, <2>3, <2>4, <2>5, BuildWindowOK
<1>2. CASE /\ SetState(m, "Aborted")
           /\ outbound' = [outbound EXCEPT ![g] = {}]
           /\ UNCHANGED <<windowVars, retryCount>>
  <2>1. /\ outbound' \in [Drivers -> SUBSET AllSegments]
        /\ WireOK'
    BY <1>2 DEF TypeOK, WireOK
  <2>2. ASSUME NEW k \in Responses PROVE NumbersOK(k)'
    <3>1. NumbersOK(k)
      OBVIOUS
    <3> QED
      BY <1>2, <3>1 DEF SetState, windowVars, TypeOK, NumbersOK
  <2>3. state' \in [Responses -> States]
        /\ \A k \in Responses : state'[k] = "Completed" => state[k] = "Completed"
    BY <1>2 DEF SetState, TypeOK
  <2> QED
    BY <1>2, <2>1, <2>2, <2>3 DEF windowVars, TypeOK
<1> QED
    BY <1>1, <1>2 DEF Retransmit

-----------------------------------------------------------------------------
\* The inductive invariant holds initially.
LEMMA InitInv == Init => IInv
<1> SUFFICES ASSUME Init PROVE IInv
    OBVIOUS
<1>1. TypeOK
  <2>1. /\ state \in [Responses -> States]
        /\ responsePayloadOffset \in [Responses -> 0 .. Segments]
        /\ responseNextOffset \in [Responses -> 0 .. Segments]
        /\ initialSequenceNumber \in [Responses -> Nat]
        /\ sequenceNumber \in [Responses -> Nat]
        /\ actualWindowSize \in [Responses -> 1 .. PreferredWindow]
        /\ retryCount \in [Responses -> 0 .. MaxRetries]
        /\ expired \in [Responses -> BOOLEAN]
        /\ have \in [Responses -> Nat]
    BY DEF Init
  <2>2. /\ entry \in Responses \cup {None}
        /\ closed \in BOOLEAN
        /\ closing \in Responses \cup {None}
        /\ pc \in [Drivers -> {"idle", "handle", "send", "sync"}]
        /\ holds \in [Drivers -> Responses \cup {None}]
        /\ outbound \in [Drivers -> SUBSET AllSegments]
    BY DEF Init
  <2>3. /\ ack \in [seq : Nat, nak : BOOLEAN, window : Nat, late : BOOLEAN]
        /\ started \in 0 .. NumResponses
        /\ network \in SUBSET AllSegments
    BY DEF Init, NoACK
  <2> QED
    BY <2>1, <2>2, <2>3 DEF TypeOK
<1>2. WireOK /\ DriversOK /\ AckOK
    BY DEF Init, WireOK, DriversOK, AckOK, Drivers
<1>3. \A m \in Responses : NumbersOK(m)
    BY DEF Init, NumbersOK
<1> QED
    BY <1>1, <1>2, <1>3 DEF IInv

\* The receive loop starts a response.
LEMMA DispatchInv == ASSUME IInv, Dispatch PROVE IInv'
<1> DEFINE m == started + 1
<1>0. /\ m \in Responses /\ started' = m
      /\ holds' = [holds EXCEPT !["loop"] = m]
      /\ pc' = [pc EXCEPT !["loop"] = "send"]
      /\ UNCHANGED <<retryCount, expired, entry, closed, closing, ack, network, have>>
    BY DEF Dispatch, Goto
<1> HIDE DEF m
<1> USE DEF IInv
<1>a. /\ pc' \in [Drivers -> {"idle", "handle", "send", "sync"}]
      /\ holds' \in [Drivers -> Responses \cup {None}]
      /\ DriversOK' /\ AckOK'
  <2>1. m # None
    BY <1>0 DEF Responses, None
  <2>2. "loop" \in Drivers
    BY DEF Drivers
  <2> QED
    BY <1>0, <2>1, <2>2 DEF TypeOK, DriversOK, AckOK
<1>b. m \in 0 .. NumResponses
    BY <1>0 DEF Responses
<1>1. CASE /\ SetState(m, "AwaitSegmentACK")
           /\ actualWindowSize' = [actualWindowSize EXCEPT ![m] = PreferredWindow]
           /\ BuildWindow("loop", m, 0, 0, PreferredWindow)
  <2>1. /\ responsePayloadOffset' \in [Responses -> 0 .. Segments]
        /\ responseNextOffset' \in [Responses -> 0 .. Segments]
        /\ initialSequenceNumber' \in [Responses -> Nat]
        /\ sequenceNumber' \in [Responses -> Nat]
        /\ outbound' \in [Drivers -> SUBSET AllSegments]
        /\ \A k \in Responses : NumbersOK(k)'
        /\ WireOK'
    <3>1. 0 \in 0 .. Segments - 1 /\ PreferredWindow \in 1 .. PreferredWindow
          /\ "loop" \in Drivers /\ state' = [state EXCEPT ![m] = "AwaitSegmentACK"]
      BY <1>1 DEF SetState, Drivers
    <3> QED
      BY <1>0, <1>1, <3>1, BuildWindowOK
  <2>2. /\ state' \in [Responses -> States]
        /\ actualWindowSize' \in [Responses -> 1 .. PreferredWindow]
    BY <1>0, <1>1 DEF SetState, TypeOK
  <2>3. TypeOK'
    BY <1>0, <1>a, <1>b, <2>1, <2>2 DEF TypeOK
  <2> QED
    BY <1>a, <2>1, <2>3
<1>2. CASE /\ SetState(m, "Answered")
           /\ UNCHANGED <<actualWindowSize, windowVars, outbound>>
  <2>1. ASSUME NEW k \in Responses PROVE NumbersOK(k)'
    <3>1. NumbersOK(k)
      OBVIOUS
    <3> QED
      BY <1>2, <3>1 DEF SetState, windowVars, TypeOK, NumbersOK
  <2>2. WireOK'
    BY <1>0, <1>2 DEF WireOK
  <2>3. state' \in [Responses -> States]
    BY <1>0, <1>2 DEF SetState, TypeOK
  <2>4. TypeOK'
    BY <1>0, <1>2, <1>a, <1>b, <2>3 DEF TypeOK, windowVars
  <2> QED
    BY <1>a, <2>1, <2>2, <2>4
<1> QED
    BY <1>1, <1>2 DEF Dispatch, m

\* It takes a Segment-ACK off the network.
LEMMA ReceiveACKInv == ASSUME IInv, ReceiveACK PROVE IInv'
<1> USE DEF IInv
<1>1. PICK m \in Responses, nak \in BOOLEAN, window \in PeerWindows, n \in 0 .. Segments - 1 :
          n < have[m] /\ ack' = [seq |-> n, nak |-> nak, window |-> window, late |-> expired[entry]]
    BY DEF ReceiveACK
<1>2. /\ entry # None
      /\ holds' = [holds EXCEPT !["loop"] = entry]
      /\ pc' = [pc EXCEPT !["loop"] = "handle"]
      /\ UNCHANGED <<machineVars, expired, entry, closed, closing, outbound, peerVars>>
    BY DEF ReceiveACK, Goto
<1>3. TypeOK'
    BY <1>1, <1>2 DEF TypeOK, machineVars, windowVars, peerVars, Drivers
<1>4. \A k \in Responses : NumbersOK(k)'
    BY <1>2 DEF NumbersOK, machineVars, windowVars
<1>5. WireOK' /\ DriversOK'
    BY <1>2 DEF TypeOK, WireOK, DriversOK, peerVars, Drivers
<1>6. AckOK'
  <2>1. NumResponses = 1 => m = 1
    BY DEF Responses
  <2> QED
    BY <1>1, <1>2, <2>1 DEF AckOK, peerVars
<1> QED
    BY <1>3, <1>4, <1>5, <1>6

\* A step that leaves the machines, the network and the Segment-ACK alone and
\* only moves a goroutine or the table.
LEMMA QuietInv ==
    ASSUME IInv, TypeOK', DriversOK',
           UNCHANGED <<machineVars, network, have>>,
           \A g \in Drivers : outbound'[g] \subseteq outbound[g],
           pc'["loop"] = "handle" => pc["loop"] = "handle" /\ ack' = ack
    PROVE  IInv'
<1> USE DEF IInv
<1>1. \A k \in Responses : NumbersOK(k)'
    BY DEF NumbersOK, machineVars, windowVars
<1>2. WireOK'
    BY DEF WireOK
<1>3. AckOK'
    BY DEF AckOK
<1> QED
    BY <1>1, <1>2, <1>3

\* The goroutine g has let its response go.
LEMMA ReleaseOK ==
    ASSUME IInv, NEW g \in Drivers, Release(g)
    PROVE  /\ pc' \in [Drivers -> {"idle", "handle", "send", "sync"}]
           /\ holds' \in [Drivers -> Responses \cup {None}]
           /\ outbound' \in [Drivers -> SUBSET AllSegments]
           /\ DriversOK'
           /\ \A h \in Drivers : outbound'[h] \subseteq outbound[h]
           /\ pc'["loop"] = "handle" => pc["loop"] = "handle"
  BY DEF IInv, TypeOK, DriversOK, Release, Goto, Drivers

\* The driver g, at work on m, has called Handle(Timeout).
LEMMA TimeoutInv ==
    ASSUME IInv, NEW g \in Drivers, pc[g] = "handle",
           state[holds[g]] = "AwaitSegmentACK", Timeout(g, holds[g]),
           UNCHANGED <<holds, expired, entry, closed, closing, peerVars>>,
           ack' \in {ack, NoACK}, g # "loop" => ack' = ack
    PROVE  IInv'
<1> DEFINE m == holds[g]
<1> USE DEF IInv
<1>1. m \in Responses
    BY DEF TypeOK, DriversOK
<1> HIDE DEF m
<1>2. actualWindowSize[m] \in 1 .. PreferredWindow /\ state[m] = "AwaitSegmentACK"
    BY <1>1 DEF TypeOK, m
<1>3. Retransmit(g, m, actualWindowSize[m]) /\ network' = network
      /\ pc' = [pc EXCEPT ![g] = "send"] /\ UNCHANGED actualWindowSize
    BY DEF Timeout, Goto, peerVars, m
<1>4. /\ responsePayloadOffset' \in [Responses -> 0 .. Segments]
      /\ responseNextOffset' \in [Responses -> 0 .. Segments]
      /\ initialSequenceNumber' \in [Responses -> Nat]
      /\ sequenceNumber' \in [Responses -> Nat]
      /\ retryCount' \in [Responses -> 0 .. MaxRetries]
      /\ state' \in [Responses -> States]
      /\ outbound' \in [Drivers -> SUBSET AllSegments]
      /\ \A k \in Responses : NumbersOK(k)'
      /\ WireOK'
    BY <1>1, <1>2, <1>3, RetransmitOK
<1>5. /\ pc' \in [Drivers -> {"idle", "handle", "send", "sync"}]
      /\ DriversOK' /\ AckOK'
    BY <1>3 DEF TypeOK, DriversOK, AckOK, peerVars, Drivers
<1>6. ack' \in [seq : Nat, nak : BOOLEAN, window : Nat, late : BOOLEAN]
  <2>1. NoACK \in [seq : Nat, nak : BOOLEAN, window : Nat, late : BOOLEAN]
    BY DEF NoACK
  <2> QED
    BY <2>1 DEF TypeOK
<1> QED
    BY <1>3, <1>4, <1>5, <1>6 DEF TypeOK, peerVars

\* handleSegmentedServerResponseACK.
LEMMA HandleACKInv == ASSUME IInv, HandleACK PROVE IInv'
<1> DEFINE m == holds["loop"]
           window == AnnouncedWindow(m)
           positive == ~ack.nak /\ InWindow(ack.seq, initialSequenceNumber[m], window)
<1> USE DEF IInv
<1>0. /\ pc["loop"] = "handle" /\ ack' = NoACK /\ "loop" \in Drivers
      /\ UNCHANGED <<expired, entry, closed, closing, peerVars>>
    BY DEF HandleACK, Drivers
<1>1. m \in Responses
    BY <1>0 DEF TypeOK, DriversOK
<1>2. NoACK \in [seq : Nat, nak : BOOLEAN, window : Nat, late : BOOLEAN]
    BY DEF NoACK
<1>3. window \in 1 .. PreferredWindow
    BY <1>1 DEF AnnouncedWindow, Smaller, TypeOK
<1>4. CASE Release("loop") /\ UNCHANGED machineVars
  <2>1. TypeOK' /\ pc'["loop"] # "handle"
    BY <1>0, <1>2, <1>4, ReleaseOK DEF TypeOK, machineVars, windowVars, peerVars, Release, Goto
  <2> QED
    BY <1>0, <1>4, <2>1, ReleaseOK, QuietInv DEF peerVars
<1>5. CASE state[m] = "AwaitSegmentACK" /\ Timeout("loop", m) /\ UNCHANGED holds
    BY <1>0, <1>5, TimeoutInv
<1>6. CASE /\ state[m] = "AwaitSegmentACK"
           /\ actualWindowSize' = [actualWindowSize EXCEPT ![m] = window]
           /\ SetState(m, "Completed") /\ Goto("loop", "sync")
           /\ UNCHANGED <<windowVars, retryCount, outbound, holds>>
  <2>1. TypeOK'
    BY <1>0, <1>1, <1>2, <1>3, <1>6 DEF TypeOK, SetState, Goto, windowVars, peerVars
  <2>2. ASSUME NEW k \in Responses PROVE NumbersOK(k)'
    <3>1. NumbersOK(k)
      OBVIOUS
    <3> QED
      BY <1>1, <1>6, <3>1 DEF SetState, windowVars, TypeOK, NumbersOK
  <2>3. WireOK' /\ DriversOK' /\ AckOK'
    BY <1>0, <1>6 DEF WireOK, DriversOK, AckOK, Goto, TypeOK, peerVars
  <2> QED
    BY <2>1, <2>2, <2>3
<1>7. CASE /\ state[m] = "AwaitSegmentACK" /\ ~sentAllSegments(m)
           /\ actualWindowSize' = [actualWindowSize EXCEPT ![m] = window]
           /\ retryCount' = [retryCount EXCEPT ![m] = 0]
           /\ BuildWindow("loop", m, responseNextOffset[m], sequenceNumber[m], window)
           /\ Goto("loop", "send") /\ UNCHANGED <<state, holds>>
  <2>1. /\ responseNextOffset[m] \in 0 .. Segments - 1
        /\ sequenceNumber[m] = responseNextOffset[m]
        /\ state' = [state EXCEPT ![m] = "AwaitSegmentACK"]
        /\ network' = network
    BY <1>0, <1>1, <1>7 DEF TypeOK, NumbersOK, sentAllSegments, peerVars
  <2>2. BuildWindow("loop", m, responseNextOffset[m], responseNextOffset[m], window)
    BY <1>7, <2>1
  <2> HIDE DEF m, window
  <2>3. /\ responsePayloadOffset' \in [Responses -> 0 .. Segments]
        /\ responseNextOffset' \in [Responses -> 0 .. Segments]
        /\ initialSequenceNumber' \in [Responses -> Nat]
        /\ sequenceNumber' \in [Responses -> Nat]
        /\ outbound' \in [Drivers -> SUBSET AllSegments]
        /\ \A k \in Responses : NumbersOK(k)'
        /\ WireOK'
    BY <1>0, <1>1, <1>3, <2>1, <2>2, BuildWindowOK
  <2>6. /\ retryCount' \in [Responses -> 0 .. MaxRetries]
        /\ actualWindowSize' \in [Responses -> 1 .. PreferredWindow]
    BY <1>1, <1>3, <1>7 DEF TypeOK
  <2>4. TypeOK'
    BY <1>0, <1>2, <1>7, <2>3, <2>6 DEF TypeOK, Goto, peerVars
  <2>5. DriversOK' /\ AckOK'
    BY <1>0, <1>7 DEF DriversOK, AckOK, Goto, TypeOK
  <2> QED
    BY <2>3, <2>4, <2>5
<1>8. CASE /\ state[m] = "AwaitSegmentACK"
           /\ actualWindowSize' = [actualWindowSize EXCEPT ![m] = window]
           /\ Retransmit("loop", m, window)
           /\ Goto("loop", "send") /\ UNCHANGED holds
  <2> HIDE DEF m, window
  <2>1. /\ responsePayloadOffset' \in [Responses -> 0 .. Segments]
        /\ responseNextOffset' \in [Responses -> 0 .. Segments]
        /\ initialSequenceNumber' \in [Responses -> Nat]
        /\ sequenceNumber' \in [Responses -> Nat]
        /\ retryCount' \in [Responses -> 0 .. MaxRetries]
        /\ state' \in [Responses -> States]
        /\ outbound' \in [Drivers -> SUBSET AllSegments]
        /\ \A k \in Responses : NumbersOK(k)'
        /\ WireOK'
    BY <1>0, <1>1, <1>3, <1>8, RetransmitOK DEF peerVars
  <2>2. TypeOK'
    BY <1>0, <1>1, <1>2, <1>3, <1>8, <2>1 DEF TypeOK, Goto, peerVars
  <2>3. DriversOK' /\ AckOK'
    BY <1>0, <1>8 DEF DriversOK, AckOK, Goto, TypeOK
  <2> QED
    BY <2>1, <2>2, <2>3
<1> QED
    BY <1>4, <1>5, <1>6, <1>7, <1>8 DEF HandleACK

\* sendConfirmedServerOutput and syncSegmentedServerResponseEntry.
LEMMA SendInv == ASSUME IInv, NEW g \in Drivers, Send(g) \/ SendFails(g) \/ Sync(g) PROVE IInv'
<1> USE DEF IInv
<1>1. CASE Send(g)
  <2>1. TypeOK' /\ DriversOK' /\ AckOK'
    BY <1>1 DEF Send, Goto, TypeOK, DriversOK, AckOK, machineVars, windowVars
  <2>2. \A k \in Responses : NumbersOK(k)'
    BY <1>1 DEF Send, NumbersOK, machineVars, windowVars
  <2>3. WireOK'
    BY <1>1 DEF Send, WireOK
  <2> QED
    BY <2>1, <2>2, <2>3
<1>2. CASE SendFails(g)
  <2> DEFINE m == holds[g]
  <2>1. m \in Responses /\ SetState(m, "Aborted") /\ Release(g)
        /\ network' \subseteq network \cup outbound[g]
        /\ UNCHANGED <<windowVars, actualWindowSize, retryCount, expired, entry, closed,
                       closing, ack, started, have>>
    BY <1>2 DEF SendFails, TypeOK, DriversOK
  <2>2. state' \in [Responses -> States]
        /\ network' \in SUBSET AllSegments
    BY <2>1 DEF SetState, TypeOK
  <2>3. TypeOK'
    BY <2>1, <2>2, ReleaseOK DEF TypeOK, windowVars
  <2>4. ASSUME NEW k \in Responses PROVE NumbersOK(k)'
    <3>1. NumbersOK(k)
      OBVIOUS
    <3> QED
      BY <2>1, <3>1 DEF SetState, windowVars, TypeOK, NumbersOK
  <2>5. WireOK' /\ AckOK'
    BY <2>1, ReleaseOK DEF WireOK, AckOK
  <2> QED
    BY <2>1, <2>3, <2>4, <2>5, ReleaseOK
<1>3. CASE Sync(g)
  <2>1. holds[g] \in Responses /\ Release(g)
        /\ UNCHANGED <<machineVars, closed, closing, ack, peerVars>>
    BY <1>3 DEF Sync, TypeOK, DriversOK
  <2>2. entry' \in Responses \cup {None} /\ expired' \in [Responses -> BOOLEAN]
    BY <1>3, <2>1 DEF Sync, TypeOK
  <2>3. TypeOK'
    BY <2>1, <2>2, ReleaseOK DEF TypeOK, machineVars, windowVars, peerVars
  <2> QED
    BY <2>1, <2>3, ReleaseOK, QuietInv DEF peerVars
<1> QED
    BY <1>1, <1>2, <1>3

\* Every step preserves the invariant.
LEMMA NextInv == ASSUME IInv, [Next]_vars PROVE IInv'
<1> USE DEF IInv
<1>0. "loop" \in Drivers /\ "collector" \in Drivers /\ "collector" # "loop"
    BY DEF Drivers
<1>1. CASE Dispatch
    BY <1>1, DispatchInv
<1>2. CASE ReceiveACK
    BY <1>2, ReceiveACKInv
<1>3. CASE Loop
    BY <1>0, <1>3, HandleACKInv, SendInv DEF Loop
<1>4. CASE Expire
  <2>1. TypeOK'
    BY <1>4 DEF Expire, TypeOK, machineVars, windowVars, driverVars, peerVars
  <2>2. DriversOK'
    BY <1>4 DEF Expire, DriversOK, driverVars
  <2> QED
    BY <1>4, <2>1, <2>2, QuietInv DEF Expire, driverVars, peerVars
<1>5. CASE Collect
  <2>1. TypeOK' /\ DriversOK'
    BY <1>0, <1>5 DEF Collect, Goto, TypeOK, DriversOK, machineVars, windowVars, peerVars
  <2> QED
    BY <1>0, <1>5, <2>1, QuietInv DEF Collect, Goto, peerVars, TypeOK
<1>6. CASE Collector
  <2>1. CASE CollectorHandle
    <3>1. CASE Release("collector") /\ UNCHANGED machineVars
      <4>1. TypeOK'
        BY <1>0, <2>1, <3>1, ReleaseOK
        DEF CollectorHandle, TypeOK, machineVars, windowVars, peerVars
      <4> QED
        BY <1>0, <2>1, <3>1, <4>1, ReleaseOK, QuietInv DEF CollectorHandle, peerVars
    <3>2. CASE /\ state[holds["collector"]] = "AwaitSegmentACK"
               /\ Timeout("collector", holds["collector"]) /\ UNCHANGED holds
      BY <1>0, <2>1, <3>2, TimeoutInv DEF CollectorHandle
    <3> QED
      BY <2>1, <3>1, <3>2 DEF CollectorHandle
  <2> QED
    BY <1>0, <1>6, <2>1, SendInv DEF Collector
<1>7. CASE Close
  <2>1. TypeOK' /\ DriversOK'
    BY <1>7 DEF Close, TypeOK, DriversOK, machineVars, windowVars, driverVars, peerVars
  <2> QED
    BY <1>7, <2>1, QuietInv DEF Close, driverVars, peerVars
<1>8. CASE CloseHandle
  <2>1. /\ closing \in Responses /\ closing' = None
        /\ state' = [state EXCEPT ![closing] = "Aborted"] \/ UNCHANGED state
        /\ UNCHANGED <<windowVars, actualWindowSize, retryCount, expired, entry, closed,
                       driverVars, peerVars>>
    BY <1>8 DEF CloseHandle, SetState, TypeOK
  <2>2. state' \in [Responses -> States]
    BY <2>1 DEF TypeOK
  <2>3. TypeOK'
    BY <2>1, <2>2 DEF TypeOK, windowVars, driverVars, peerVars
  <2>4. ASSUME NEW k \in Responses PROVE NumbersOK(k)'
    <3>1. NumbersOK(k)
      OBVIOUS
    <3> QED
      BY <2>1, <3>1 DEF windowVars, TypeOK, NumbersOK
  <2>5. WireOK' /\ DriversOK' /\ AckOK'
    BY <2>1 DEF WireOK, DriversOK, AckOK, driverVars, peerVars
  <2> QED
    BY <2>3, <2>4, <2>5
<1>9. CASE PeerReceive
  <2>1. PICK s \in network : have' = [have EXCEPT ![s.resp] = @ + 1]
    BY <1>9 DEF PeerReceive
  <2>2. s.resp \in Responses
    BY DEF TypeOK, AllSegments
  <2>3. /\ have' \in [Responses -> Nat] /\ \A k \in Responses : have'[k] >= have[k]
        /\ UNCHANGED <<machineVars, expired, entry, closed, closing, driverVars, started,
                       network>>
    BY <1>9, <2>1, <2>2 DEF PeerReceive, TypeOK
  <2>4. TypeOK'
    BY <2>3 DEF TypeOK, machineVars, windowVars, driverVars
  <2>5. \A k \in Responses : NumbersOK(k)'
    BY <2>3 DEF NumbersOK, machineVars, windowVars
  <2>6. WireOK' /\ DriversOK'
    BY <2>3 DEF WireOK, DriversOK, driverVars
  <2>7. AckOK'
    BY <2>3 DEF AckOK, driverVars, Responses, TypeOK
  <2> QED
    BY <2>4, <2>5, <2>6, <2>7
<1>10. CASE UNCHANGED vars
  <2>1. TypeOK' /\ DriversOK'
    BY <1>10 DEF vars, TypeOK, DriversOK, machineVars, windowVars, driverVars, peerVars
  <2> QED
    BY <1>10, <2>1, QuietInv DEF vars, driverVars, peerVars
<1> QED
    BY <1>1, <1>2, <1>3, <1>4, <1>5, <1>6, <1>7, <1>8, <1>9, <1>10 DEF Next

-----------------------------------------------------------------------------
\* IInv is an invariant.
THEOREM Invariance == Spec => []IInv
<1>1. IInv /\ [Next]_vars => IInv'
    BY NextInv
<1> QED
    BY InitInv, <1>1, PTL DEF Spec

\* The server never wanders out of its types: in particular retries and
\* offsets respect their limits.
THEOREM TypeCorrect == Spec => []TypeOK
<1>1. IInv => TypeOK
    BY DEF IInv
<1> QED
    BY Invariance, <1>1, PTL

\* A segment numbered n carries the n-th part of the response
\* (buildCurrentSegmentedComplexACKWindow), for any number of responses, retries
\* and changes of the window.
THEOREM NumbersAlwaysMatch == Spec => []NumbersMatchPayload
<1>1. IInv => NumbersMatchPayload
    BY DEF IInv, WireOK, NumbersMatchPayload
<1> QED
    BY Invariance, <1>1, PTL

\* What the requester has never shrinks.
LEMMA HaveGrows ==
    ASSUME IInv, [Next]_vars, NEW m \in Responses
    PROVE  have'[m] \in Nat /\ have'[m] >= have[m]
<1>1. CASE PeerReceive
  <2>1. PICK s \in network : have' = [have EXCEPT ![s.resp] = @ + 1]
    BY <1>1 DEF PeerReceive
  <2>2. s.resp \in Responses
    BY DEF IInv, TypeOK, AllSegments
  <2> QED
    BY <2>1, <2>2 DEF IInv, TypeOK
<1>2. CASE have' = have
    BY <1>2 DEF IInv, TypeOK
<1> QED
    BY <1>1, <1>2 DEF Next, vars, Dispatch, ReceiveACK, Loop, HandleACK, Send, SendFails, Sync,
       Expire, Collect, Collector, CollectorHandle, Close, CloseHandle, peerVars

\* A response is completed by a Segment-ACK and by nothing else.
LEMMA OnlyHandleACKCompletes ==
    ASSUME IInv, [Next]_vars, NEW m \in Responses, state'[m] = "Completed"
    PROVE  state[m] = "Completed" \/ HandleACK
<1> USE DEF IInv
<1>1. CASE UNCHANGED state
    BY <1>1
<1>2. ASSUME NEW k, NEW s \in {"Aborted", "Answered", "AwaitSegmentACK"}, SetState(k, s)
      PROVE  state[m] = "Completed"
    BY <1>2 DEF SetState, TypeOK
<1>3. CASE Dispatch
    BY <1>2, <1>3 DEF Dispatch
<1>4. ASSUME NEW g \in Drivers, Send(g) \/ SendFails(g) \/ Sync(g)
      PROVE  state[m] = "Completed"
    BY <1>1, <1>2, <1>4 DEF Send, SendFails, Sync, machineVars
<1>5. CASE Loop
    BY <1>4, <1>5 DEF Loop, Drivers
<1>6. CASE Collector
  <2>1. CASE CollectorHandle
    BY <1>1, <1>2, <2>1 DEF CollectorHandle, Timeout, Retransmit, machineVars
  <2> QED
    BY <1>4, <1>6, <2>1 DEF Collector, Drivers
<1>7. CASE CloseHandle
    BY <1>1, <1>2, <1>7 DEF CloseHandle
<1>8. CASE ReceiveACK \/ Expire \/ Collect \/ Close \/ PeerReceive \/ UNCHANGED vars
    BY <1>1, <1>8 DEF ReceiveACK, Expire, Collect, Close, PeerReceive, vars, machineVars
<1> QED
    BY <1>3, <1>5, <1>6, <1>7, <1>8 DEF Next

\* A completed response was received up to its last window
\* (handleInAwaitSegmentACKState), for any window, whatever windows the requester
\* announces, provided a single request PDU arrives under the key.
THEOREM CompletionReachesLastWindow ==
    NumResponses = 1 => (Spec => []CompletedInLastWindow)
<1> SUFFICES ASSUME NumResponses = 1 PROVE Spec => []CompletedInLastWindow
    OBVIOUS
<1>1. Init => CompletedInLastWindow
    BY DEF Init, CompletedInLastWindow
<1>2. IInv /\ CompletedInLastWindow /\ [Next]_vars => CompletedInLastWindow'
  <2> SUFFICES ASSUME IInv, CompletedInLastWindow, [Next]_vars,
                      NEW m \in Responses, state'[m] = "Completed"
               PROVE  have'[m] + PreferredWindow > Segments
    BY DEF CompletedInLastWindow
  <2>1. m = 1 /\ Responses = {1} /\ have[m] \in Nat
    BY DEF Responses, IInv, TypeOK
  <2>2. state[m] = "Completed" \/ HandleACK
    BY OnlyHandleACKCompletes
  <2>3. have'[m] \in Nat /\ have'[m] >= have[m]
    BY HaveGrows
  <2>4. CASE state[m] = "Completed"
    BY <2>1, <2>3, <2>4 DEF CompletedInLastWindow
  <2>5. CASE HandleACK /\ state[m] # "Completed"
    <3> DEFINE window == AnnouncedWindow(m)
    <3>1. /\ pc["loop"] = "handle" /\ "loop" \in Drivers /\ have' = have
          /\ holds["loop"] = m
      BY <2>1, <2>5 DEF HandleACK, Drivers, peerVars, IInv, DriversOK, TypeOK
    <3>2. /\ ~ack.nak /\ InWindow(ack.seq, initialSequenceNumber[m], window)
          /\ sentAllSegments(m) /\ state[m] = "AwaitSegmentACK"
      <4>1. CASE UNCHANGED state \/ SetState(m, "Aborted")
        BY <2>5, <4>1 DEF SetState, IInv, TypeOK
      <4> QED
        BY <2>5, <3>1, <4>1 DEF HandleACK, Timeout, Retransmit, machineVars
    <3>3. ack.seq \in Nat /\ ack.seq < have[m] /\ ack.seq >= initialSequenceNumber[m]
      BY <2>1, <3>1, <3>2 DEF IInv, TypeOK, AckOK, InWindow
    <3>4. /\ initialSequenceNumber[m] \in Nat
          /\ initialSequenceNumber[m] = responsePayloadOffset[m]
          /\ responseNextOffset[m] = Segments
          /\ responseNextOffset[m] <= responsePayloadOffset[m] + PreferredWindow
      BY <3>2 DEF IInv, NumbersOK, TypeOK, sentAllSegments
    <3> QED
      BY <2>1, <3>1, <3>3, <3>4
  <2> QED
    BY <2>2, <2>4, <2>5
<1> QED
    BY Invariance, <1>1, <1>2, PTL DEF Spec

\* With a window of one, the default, a completed response was received
\* completely.
THEOREM SingleWindowCompletes ==
    NumResponses = 1 /\ PreferredWindow = 1 => (Spec => []CompletedMeansReceived)
<1> SUFFICES ASSUME NumResponses = 1, PreferredWindow = 1
             PROVE  Spec => []CompletedMeansReceived
    OBVIOUS
<1>1. IInv /\ CompletedInLastWindow => CompletedMeansReceived
    BY DEF CompletedInLastWindow, CompletedMeansReceived, IInv, TypeOK
<1> QED
    BY Invariance, CompletionReachesLastWindow, <1>1, PTL

\* The response under way is never lost between the loop, the collector and
\* Close, provided a single request PDU arrives under the key.
THEOREM NothingStranded == NumResponses = 1 => (Spec => []NeverStranded)
<1> SUFFICES ASSUME NumResponses = 1 PROVE Spec => []NeverStranded
    OBVIOUS
<1>1. Init => NeverStranded
    BY DEF Init, NeverStranded
<1>2. IInv /\ NeverStranded /\ [Next]_vars => NeverStranded'
  <2> SUFFICES ASSUME IInv, NeverStranded, [Next]_vars,
                      started' # 0, ~closed', state'[started'] = "AwaitSegmentACK"
               PROVE  entry' = started' \/ \E g \in Drivers : holds'[g] = started'
    BY DEF NeverStranded
  <2> USE DEF IInv
  <2>0. /\ Responses = {1} /\ "loop" \in Drivers /\ "collector" \in Drivers
        /\ started \in {0, 1} /\ 1 # None
    BY DEF Responses, TypeOK, Drivers, None
  <2>1. CASE Dispatch
    BY <2>0, <2>1 DEF Dispatch, TypeOK
  <2>2. ASSUME started' = started, ~closed,
               state[1] = "AwaitSegmentACK" => entry' = 1 \/ \E g \in Drivers : holds'[g] = 1,
               state'[1] = "AwaitSegmentACK" => state[1] = "AwaitSegmentACK"
        PROVE  entry' = started' \/ \E g \in Drivers : holds'[g] = started'
    BY <2>0, <2>2
  <2>3. ASSUME started' = started, UNCHANGED <<entry, holds>>, ~closed,
               state'[1] = "AwaitSegmentACK" => state[1] = "AwaitSegmentACK"
        PROVE  entry' = started' \/ \E g \in Drivers : holds'[g] = started'
    BY <2>0, <2>3 DEF NeverStranded
  <2>4. CASE ReceiveACK
    BY <2>0, <2>2, <2>4 DEF ReceiveACK, machineVars, peerVars, TypeOK
  <2>6. CASE HandleACK
    <3>1. holds["loop"] = 1 /\ UNCHANGED <<entry, closed, started>>
      BY <2>0, <2>6 DEF HandleACK, DriversOK, TypeOK, peerVars
    <3>2. CASE state[1] # "AwaitSegmentACK" /\ UNCHANGED machineVars
      BY <2>0, <3>1, <3>2 DEF machineVars
    <3>3. CASE state[1] = "AwaitSegmentACK" /\ UNCHANGED holds
      BY <2>3, <3>1, <3>3
    <3> QED
      BY <2>6, <3>1, <3>2, <3>3 DEF HandleACK
  <2>7. ASSUME NEW g \in Drivers, Send(g) \/ SendFails(g) \/ Sync(g)
        PROVE  entry' = started' \/ \E h \in Drivers : holds'[h] = started'
    <3>1. CASE Send(g)
      BY <2>3, <3>1 DEF Send, machineVars
    <3>2. CASE SendFails(g)
      <4>1. holds[g] = 1 /\ started' = started
        BY <2>0, <3>2 DEF SendFails, DriversOK, TypeOK
      <4>2. state'[1] = "Aborted"
        BY <2>0, <3>2, <4>1 DEF SendFails, SetState, TypeOK
      <4> QED
        BY <2>0, <4>1, <4>2
    <3>3. CASE Sync(g)
      <4>1. holds[g] = 1 /\ started' = started /\ closed' = closed /\ state' = state
        BY <2>0, <3>3 DEF Sync, DriversOK, TypeOK, machineVars, peerVars
      <4> QED
        BY <2>0, <3>3, <4>1 DEF Sync, StillWaiting
    <3> QED
      BY <2>7, <3>1, <3>2, <3>3
  <2>8. CASE Collect
    BY <2>0, <2>2, <2>8 DEF Collect, machineVars, peerVars, TypeOK
  <2>9. CASE CollectorHandle
    <3>1. holds["collector"] = 1 /\ UNCHANGED <<entry, closed, started>>
      BY <2>0, <2>9 DEF CollectorHandle, DriversOK, TypeOK, peerVars
    <3>2. CASE state[1] # "AwaitSegmentACK" /\ UNCHANGED machineVars
      BY <2>0, <3>1, <3>2 DEF machineVars
    <3>3. CASE state[1] = "AwaitSegmentACK" /\ UNCHANGED holds
      BY <2>3, <3>1, <3>3
    <3> QED
      BY <2>9, <3>1, <3>2, <3>3 DEF CollectorHandle
  <2>10. CASE Close
    BY <2>10 DEF Close
  <2>11. CASE CloseHandle
    <3>1. closing = 1 /\ UNCHANGED <<entry, closed, started, holds>>
      BY <2>0, <2>11 DEF CloseHandle, TypeOK, peerVars, driverVars
    <3>2. state'[1] = "AwaitSegmentACK" => state[1] = "AwaitSegmentACK"
      BY <2>0, <2>11, <3>1 DEF CloseHandle, SetState, TypeOK
    <3> QED
      BY <2>3, <3>1, <3>2
  <2>12. CASE Expire \/ PeerReceive \/ UNCHANGED vars
    BY <2>3, <2>12 DEF Expire, PeerReceive, vars, machineVars, driverVars, peerVars
  <2> QED
    BY <2>0, <2>1, <2>4, <2>6, <2>7, <2>8, <2>9, <2>10, <2>11, <2>12
    DEF Next, Loop, Collector
<1> QED
    BY Invariance, <1>1, <1>2, PTL DEF Spec

-----------------------------------------------------------------------------
\* A machine that waits has sent at least one segment of its current window and
\* no more than the window holds.
WindowOK(m) ==
    state[m] = "AwaitSegmentACK" =>
        /\ responsePayloadOffset[m] < responseNextOffset[m]
        /\ responseNextOffset[m] <= responsePayloadOffset[m] + actualWindowSize[m]

WindowInv == \A m \in Responses : WindowOK(m)

\* The window a machine builds is neither empty nor larger than it may be.
LEMMA BuildWindowFits ==
    ASSUME IInv, NEW g \in Drivers, NEW m \in Responses, NEW seq,
           NEW offset \in 0 .. Segments - 1, NEW window \in 1 .. PreferredWindow,
           BuildWindow(g, m, offset, seq, window)
    PROVE  /\ responsePayloadOffset'[m] < responseNextOffset'[m]
           /\ responseNextOffset'[m] <= responsePayloadOffset'[m] + window
           /\ \A k \in Responses \ {m} : /\ responsePayloadOffset'[k] = responsePayloadOffset[k]
                                         /\ responseNextOffset'[k] = responseNextOffset[k]
<1> DEFINE n == Smaller(window, Segments - offset)
<1>1. n \in 1 .. PreferredWindow /\ n <= window
    BY DEF Smaller
<1>2. /\ responsePayloadOffset' = [responsePayloadOffset EXCEPT ![m] = offset]
      /\ responseNextOffset' = [responseNextOffset EXCEPT ![m] = offset + n]
    BY DEF BuildWindow
<1> HIDE DEF n
<1> QED
    BY <1>1, <1>2 DEF IInv, TypeOK

\* A retransmission leaves such a window, or ends the machine.
LEMMA RetransmitFits ==
    ASSUME IInv, WindowInv, NEW g \in Drivers, NEW m \in Responses, NEW window \in 1 .. PreferredWindow,
           state[m] = "AwaitSegmentACK", Retransmit(g, m, window),
           actualWindowSize' = [actualWindowSize EXCEPT ![m] = window]
    PROVE  WindowInv'
<1> SUFFICES ASSUME NEW k \in Responses PROVE WindowOK(k)'
    BY DEF WindowInv
<1>1. responsePayloadOffset[m] \in 0 .. Segments - 1
    BY DEF IInv, TypeOK, NumbersOK
<1>2. actualWindowSize'[k] = IF k = m THEN window ELSE actualWindowSize[k]
    BY DEF IInv, TypeOK
<1>3. WindowOK(k)
    BY DEF WindowInv
<1>4. CASE BuildWindow(g, m, responsePayloadOffset[m], Rewind(m), window) /\ UNCHANGED state
  <2>1. /\ responsePayloadOffset'[m] < responseNextOffset'[m]
        /\ responseNextOffset'[m] <= responsePayloadOffset'[m] + window
        /\ \A j \in Responses \ {m} : /\ responsePayloadOffset'[j] = responsePayloadOffset[j]
                                      /\ responseNextOffset'[j] = responseNextOffset[j]
    BY <1>1, <1>4, BuildWindowFits
  <2> QED
    BY <1>2, <1>3, <1>4, <2>1 DEF WindowOK
<1>5. CASE SetState(m, "Aborted") /\ UNCHANGED <<windowVars, retryCount>>
  <2>1. state'[k] = IF k = m THEN "Aborted" ELSE state[k]
    BY <1>5 DEF SetState, IInv, TypeOK
  <2> QED
    BY <1>2, <1>3, <1>5, <2>1 DEF WindowOK, windowVars
<1> QED
    BY <1>4, <1>5 DEF Retransmit

\* The timeout of a waiting machine.
LEMMA TimeoutFits ==
    ASSUME IInv, WindowInv, NEW g \in Drivers, NEW m \in Responses,
           state[m] = "AwaitSegmentACK", Timeout(g, m)
    PROVE  WindowInv'
<1>1. actualWindowSize[m] \in 1 .. PreferredWindow
    BY DEF IInv, TypeOK
<1>2. Retransmit(g, m, actualWindowSize[m]) /\ actualWindowSize' = actualWindowSize
    BY DEF Timeout
<1>3. actualWindowSize' = [actualWindowSize EXCEPT ![m] = actualWindowSize[m]]
    BY <1>2 DEF IInv, TypeOK
<1> QED
    BY <1>1, <1>2, <1>3, RetransmitFits

\* The window after a Segment-ACK is one the server may use.
LEMMA AnnouncedFits ==
    ASSUME IInv, NEW m \in Responses
    PROVE  AnnouncedWindow(m) \in 1 .. PreferredWindow
<1>1. actualWindowSize[m] \in 1 .. PreferredWindow /\ ack.window \in Nat
    BY DEF IInv, TypeOK
<1> QED
    BY <1>1, WindowAssumption DEF AnnouncedWindow, Smaller

\* handleSegmentACK keeps the invariant.
LEMMA HandleACKFits == ASSUME IInv, WindowInv, HandleACK PROVE WindowInv'
<1> DEFINE m == holds["loop"]
           window == AnnouncedWindow(m)
<1>0. "loop" \in Drivers /\ m \in Responses
    BY DEF HandleACK, Drivers, IInv, DriversOK, TypeOK
<1>1. CASE UNCHANGED machineVars
    BY <1>1 DEF machineVars, windowVars, WindowInv, WindowOK
<1>2. CASE state[m] = "AwaitSegmentACK" /\ Timeout("loop", m)
    BY <1>0, <1>2, TimeoutFits
<1>3. CASE /\ state[m] = "AwaitSegmentACK" /\ ~ack.late
           /\ actualWindowSize' = [actualWindowSize EXCEPT ![m] = window]
  <2>1. window \in 1 .. PreferredWindow
    BY <1>0, AnnouncedFits
  <2>2. \A k \in Responses : WindowOK(k)
    BY DEF WindowInv
  <2> HIDE DEF m, window
  <2>3. \A k \in Responses : actualWindowSize'[k] = IF k = m THEN window ELSE actualWindowSize[k]
    BY <1>0, <1>3, <2>1 DEF IInv, TypeOK
  <2>4. CASE SetState(m, "Completed") /\ UNCHANGED windowVars
    <3>1. \A k \in Responses : state'[k] = IF k = m THEN "Completed" ELSE state[k]
      BY <1>0, <2>4 DEF SetState, IInv, TypeOK
    <3> QED
      BY <2>2, <2>3, <2>4, <3>1 DEF WindowInv, WindowOK, windowVars
  <2>5. CASE /\ ~sentAllSegments(m) /\ UNCHANGED state
             /\ BuildWindow("loop", m, responseNextOffset[m], sequenceNumber[m], window)
    <3>1. responseNextOffset[m] \in 0 .. Segments - 1
      BY <1>0, <2>5 DEF sentAllSegments, IInv, TypeOK
    <3>2. /\ responsePayloadOffset'[m] < responseNextOffset'[m]
          /\ responseNextOffset'[m] <= responsePayloadOffset'[m] + window
          /\ \A j \in Responses \ {m} : /\ responsePayloadOffset'[j] = responsePayloadOffset[j]
                                        /\ responseNextOffset'[j] = responseNextOffset[j]
      BY <1>0, <2>1, <2>5, <3>1, BuildWindowFits
    <3> QED
      BY <2>2, <2>3, <2>5, <3>2 DEF WindowInv, WindowOK
  <2>6. CASE Retransmit("loop", m, window)
    BY <1>0, <1>3, <2>1, <2>6, RetransmitFits
  <2> QED
    BY <1>3, <2>4, <2>5, <2>6 DEF HandleACK, m, window
<1> QED
    BY <1>1, <1>2, <1>3 DEF HandleACK

\* Every step keeps the invariant of the windows.
LEMMA WindowStep == ASSUME IInv, WindowInv, [Next]_vars PROVE WindowInv'
<1>2. ASSUME UNCHANGED machineVars PROVE WindowInv'
    BY <1>2 DEF WindowInv, WindowOK, machineVars, windowVars
<1>3. ASSUME NEW m \in Responses, NEW s \in {"Aborted", "Answered"}, SetState(m, s),
             UNCHANGED <<windowVars, actualWindowSize>>
      PROVE  WindowInv'
  <2>1. \A k \in Responses : state'[k] = IF k = m THEN s ELSE state[k]
    BY <1>3 DEF SetState, IInv, TypeOK
  <2> QED
    BY <1>3, <2>1 DEF WindowInv, WindowOK, windowVars
<1>4. CASE Dispatch
  <2> DEFINE m == started + 1
  <2>0. m \in Responses /\ "loop" \in Drivers
    BY <1>4 DEF Dispatch, Drivers
  <2>1. CASE SetState(m, "Answered") /\ UNCHANGED <<actualWindowSize, windowVars, outbound>>
    BY <1>3, <2>0, <2>1
  <2>2. CASE /\ SetState(m, "AwaitSegmentACK")
             /\ actualWindowSize' = [actualWindowSize EXCEPT ![m] = PreferredWindow]
             /\ BuildWindow("loop", m, 0, 0, PreferredWindow)
    <3> HIDE DEF m
    <3>1. 0 \in 0 .. Segments - 1 /\ PreferredWindow \in 1 .. PreferredWindow
      BY SegmentsAssumption, WindowAssumption
    <3>2. /\ responsePayloadOffset'[m] < responseNextOffset'[m]
          /\ responseNextOffset'[m] <= responsePayloadOffset'[m] + PreferredWindow
          /\ \A j \in Responses \ {m} : /\ responsePayloadOffset'[j] = responsePayloadOffset[j]
                                        /\ responseNextOffset'[j] = responseNextOffset[j]
      BY <2>0, <2>2, <3>1, BuildWindowFits
    <3>3. \A k \in Responses : /\ state'[k] = IF k = m THEN "AwaitSegmentACK" ELSE state[k]
                               /\ actualWindowSize'[k] = IF k = m THEN PreferredWindow ELSE actualWindowSize[k]
      BY <2>0, <2>2 DEF SetState, IInv, TypeOK
    <3> QED
      BY <3>2, <3>3 DEF WindowInv, WindowOK
  <2> QED
    BY <1>4, <2>1, <2>2 DEF Dispatch
<1>5. CASE HandleACK
    BY <1>5, HandleACKFits
<1>6. ASSUME NEW g \in Drivers, Send(g) \/ SendFails(g) \/ Sync(g)
      PROVE  WindowInv'
  <2>1. CASE Send(g) \/ Sync(g)
    BY <1>2, <2>1 DEF Send, Sync
  <2>2. CASE SendFails(g)
    <3>1. holds[g] \in Responses
      BY <2>2 DEF SendFails, IInv, DriversOK, TypeOK
    <3> QED
      BY <1>3, <2>2, <3>1 DEF SendFails
  <2> QED
    BY <1>6, <2>1, <2>2
<1>7. CASE CollectorHandle
  <2>1. "collector" \in Drivers /\ holds["collector"] \in Responses
    BY <1>7 DEF CollectorHandle, Drivers, IInv, DriversOK, TypeOK
  <2>2. CASE UNCHANGED machineVars
    BY <1>2, <2>2
  <2>3. CASE state[holds["collector"]] = "AwaitSegmentACK" /\ Timeout("collector", holds["collector"])
    BY <2>1, <2>3, TimeoutFits
  <2> QED
    BY <1>7, <2>2, <2>3 DEF CollectorHandle
<1>8. CASE CloseHandle
  <2>1. closing \in Responses
    BY <1>8 DEF CloseHandle, IInv, TypeOK
  <2>2. CASE SetState(closing, "Aborted")
    BY <1>3, <1>8, <2>1, <2>2 DEF CloseHandle
  <2>3. CASE UNCHANGED state
    BY <1>2, <1>8, <2>3 DEF CloseHandle, machineVars
  <2> QED
    BY <1>8, <2>2, <2>3 DEF CloseHandle
<1>9. CASE ReceiveACK \/ Expire \/ Collect \/ Close \/ PeerReceive \/ UNCHANGED vars
    BY <1>2, <1>9 DEF ReceiveACK, Expire, Collect, Close, PeerReceive, vars
<1> QED
    BY <1>4, <1>5, <1>6, <1>7, <1>8, <1>9 DEF Next, Loop, Collector, Drivers

\* A positive Segment-ACK for the last segment sent, in time, completes the
\* response or moves it to its next window exactly when the window it announces
\* covers what was sent (handleInAwaitSegmentACKState), for any number of
\* responses under the key and whatever windows the requesters announce.
THEOREM FullAcksAdvance == Spec => FullAckAdvances
<1> DEFINE Advances ==
        LET m == holds["loop"]
            sent == sequenceNumber[m] - initialSequenceNumber[m]
        IN
        /\ pc["loop"] = "handle" /\ pc'["loop"] # "handle"
        /\ state[m] = "AwaitSegmentACK" /\ ~ack.late
        /\ ~ack.nak /\ ack.seq + 1 = sequenceNumber[m]
        => (ack.window = 0 \/ ack.window >= sent
             <=> \/ state'[m] = "Completed"
                 \/ responsePayloadOffset'[m] = responseNextOffset[m])
<1>1. Init => WindowInv
    BY DEF Init, WindowInv, WindowOK
<1>2. IInv /\ WindowInv /\ [Next]_vars => WindowInv'
    BY WindowStep
<1>3. IInv /\ WindowInv /\ [Next]_vars => [Advances]_vars
  <2> DEFINE m == holds["loop"]
             window == AnnouncedWindow(m)
             inside == InWindow(ack.seq, initialSequenceNumber[m], window)
             covered == ack.window = 0 \/ ack.window >= sequenceNumber[m] - initialSequenceNumber[m]
             advanced == \/ state'[m] = "Completed"
                         \/ responsePayloadOffset'[m] = responseNextOffset[m]
  <2> SUFFICES ASSUME IInv, WindowInv, Next, pc["loop"] = "handle", pc'["loop"] # "handle",
                      state[m] = "AwaitSegmentACK", ~ack.late,
                      ~ack.nak, ack.seq + 1 = sequenceNumber[m]
               PROVE  covered <=> advanced
    OBVIOUS
  <2>1. HandleACK
    <3>1. pc \in [Drivers -> {"idle", "handle", "send", "sync"}] /\ "loop" # "collector"
      BY DEF IInv, TypeOK
    <3>2. ~(Dispatch \/ ReceiveACK \/ Send("loop") \/ SendFails("loop") \/ Sync("loop"))
      BY DEF Dispatch, ReceiveACK, Send, SendFails, Sync
    <3>3. ~(Expire \/ Close \/ CloseHandle \/ PeerReceive)
      BY DEF Expire, Close, CloseHandle, PeerReceive, driverVars
    <3>4. ~(Collect \/ CollectorHandle)
      BY <3>1 DEF Collect, CollectorHandle, Timeout, Release, Goto, Drivers
    <3>5. ~(Send("collector") \/ SendFails("collector") \/ Sync("collector"))
      BY <3>1 DEF Send, SendFails, Sync, Release, Goto, Drivers
    <3> QED
      BY <3>2, <3>3, <3>4, <3>5 DEF Next, Loop, Collector
  <2>2. m \in Responses /\ "loop" \in Drivers
    BY DEF Drivers, IInv, DriversOK, TypeOK
  <2>3. /\ responsePayloadOffset[m] \in Nat /\ responseNextOffset[m] \in Nat
        /\ responsePayloadOffset[m] < responseNextOffset[m]
        /\ responseNextOffset[m] <= responsePayloadOffset[m] + actualWindowSize[m]
    BY <2>2 DEF WindowInv, WindowOK, IInv, TypeOK
  <2>4. covered <=> inside
    <3>1. /\ ack.seq \in Nat /\ ack.window \in Nat
          /\ actualWindowSize[m] \in 1 .. PreferredWindow
          /\ initialSequenceNumber[m] = responsePayloadOffset[m]
          /\ sequenceNumber[m] = responseNextOffset[m]
      BY <2>2 DEF IInv, TypeOK, NumbersOK
    <3>2. window = IF ack.window = 0 THEN actualWindowSize[m] ELSE Smaller(ack.window, PreferredWindow)
      BY DEF AnnouncedWindow
    <3> HIDE DEF m, window
    <3> QED
      BY <2>3, <3>1, <3>2, WindowAssumption DEF InWindow, Smaller
  <2>5. CASE inside
    <3>1. \/ SetState(m, "Completed")
          \/ BuildWindow("loop", m, responseNextOffset[m], sequenceNumber[m], window)
      BY <2>1, <2>5 DEF HandleACK
    <3> HIDE DEF m, window
    <3>2. SetState(m, "Completed") => state'[m] = "Completed"
      BY <2>2 DEF SetState, IInv, TypeOK
    <3>3. BuildWindow("loop", m, responseNextOffset[m], sequenceNumber[m], window)
          => responsePayloadOffset'[m] = responseNextOffset[m]
      BY <2>2 DEF BuildWindow, IInv, TypeOK
    <3> QED
      BY <2>4, <2>5, <3>1, <3>2, <3>3
  <2>6. CASE ~inside
    <3>1. Retransmit("loop", m, window)
      BY <2>1, <2>6 DEF HandleACK
    <3> HIDE DEF m, window
    <3>2. responsePayloadOffset'[m] = responsePayloadOffset[m] /\ state'[m] # "Completed"
      <4>1. CASE /\ BuildWindow("loop", m, responsePayloadOffset[m], Rewind(m), window)
                 /\ UNCHANGED state
        BY <2>2, <4>1 DEF BuildWindow, IInv, TypeOK, m
      <4>2. CASE SetState(m, "Aborted") /\ UNCHANGED <<windowVars, retryCount>>
        BY <2>2, <4>2 DEF SetState, windowVars, IInv, TypeOK
      <4> QED
        BY <3>1, <4>1, <4>2 DEF Retransmit
    <3>3. ~advanced
      BY <2>3, <3>2
    <3> QED
      BY <2>4, <2>6, <3>3
  <2> QED
    BY <2>5, <2>6
<1> QED
    BY <1>1, <1>2, <1>3, Invariance, PTL DEF Spec, FullAckAdvances
=============================================================================
