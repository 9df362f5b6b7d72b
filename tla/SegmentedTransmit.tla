-------------------------- MODULE SegmentedTransmit --------------------------
(***************************************************************************)
(* A segmented ComplexACK on the server side: the await-segment-ACK state  *)
(* of confirmedServerMachine (apdu/state_machine_server.go) and what       *)
(* apdu/ase.go does around it: dispatchToHandler, handleSegmentACK,        *)
(* handleSegmentedServerResponseACK, sendConfirmedServerOutput,            *)
(* syncSegmentedServerResponseEntry, timedOutCollector and Close, for one  *)
(* key (source address, invoke ID) of outboundSegmentedServerEntries.      *)
(*                                                                         *)
(* The receive loop and the collector both drive a machine: each looks an  *)
(* entry up, calls Handle, sends, and only then puts the entry (back) in   *)
(* the table, and the other may come between any two of these.  The        *)
(* requester and the network are external: what was sent may arrive late,  *)
(* repeatedly, out of order or never.                                      *)
(***************************************************************************)
EXTENDS Naturals

CONSTANTS
    NumResponses,     \* request PDUs that arrive under this key and are answered
    Segments,         \* segments of every response (canSegmentResponse: at most 65)
    PreferredWindow,  \* negotiatedTransmitWindowSize
    PeerWindows,      \* the ActualWindowSize values of the requester's Segment-ACKs
    MaxRetries        \* ASEConfig.APDURetries

ASSUME NumResponsesAssumption == NumResponses \in Nat \ {0}
ASSUME SegmentsAssumption == Segments \in 2 .. 65
ASSUME WindowAssumption == PreferredWindow \in 1 .. 127
ASSUME PeerWindowsAssumption == PeerWindows \subseteq Nat
ASSUME MaxRetriesAssumption == MaxRetries \in Nat

Responses == 1 .. NumResponses

None == 0     \* no response: an empty table, an idle goroutine

\* The goroutines that drive machines.
Drivers == {"loop", "collector"}

Segment(m, n, i) == [resp |-> m, seq |-> n, idx |-> i]

AllSegments == [resp : Responses, seq : Nat, idx : 0 .. Segments - 1]

VARIABLES
    (* confirmedServerMachine of each response *)
    state,                  \* Idle, AwaitSegmentACK, Completed, Aborted, Answered
    responsePayloadOffset,  \* first segment of the current window
    responseNextOffset,     \* first segment after it
    initialSequenceNumber,
    sequenceNumber,         \* the number after the last one sent
    actualWindowSize,
    retryCount,
    expired,                \* its deadline has passed
    (* the ASE *)
    entry,                  \* outboundSegmentedServerEntries[key], or None
    closed,
    closing,                \* the response Close took out and is about to abort
    (* the goroutines *)
    pc,                     \* of each driver: idle, handle, send, sync
    holds,                  \* the response each driver works on
    outbound,               \* the segments it is about to send
    ack,                    \* the Segment-ACK the loop works on, and whether it was late
    (* the requester and the network *)
    started,                \* how many of the request PDUs have arrived
    network,                \* segments that were sent
    have                    \* how many segments of each response arrived in order

windowVars == <<responsePayloadOffset, responseNextOffset, initialSequenceNumber,
                sequenceNumber>>
machineVars == <<state, windowVars, actualWindowSize, retryCount>>
driverVars == <<pc, holds, outbound, ack>>
peerVars == <<started, network, have>>
vars == <<machineVars, expired, entry, closed, closing, driverVars, peerVars>>

States == {"Idle", "AwaitSegmentACK", "Completed", "Aborted", "Answered"}

NoACK == [seq |-> 0, nak |-> FALSE, window |-> 0, late |-> FALSE]

Init ==
    /\ state = [m \in Responses |-> "Idle"]
    /\ responsePayloadOffset = [m \in Responses |-> 0]
    /\ responseNextOffset = [m \in Responses |-> 0]
    /\ initialSequenceNumber = [m \in Responses |-> 0]
    /\ sequenceNumber = [m \in Responses |-> 0]
    /\ actualWindowSize = [m \in Responses |-> 1]
    /\ retryCount = [m \in Responses |-> 0]
    /\ expired = [m \in Responses |-> FALSE]
    /\ entry = None /\ closed = FALSE /\ closing = None
    /\ pc = [g \in Drivers |-> "idle"]
    /\ holds = [g \in Drivers |-> None]
    /\ outbound = [g \in Drivers |-> {}]
    /\ ack = NoACK
    /\ started = 0
    /\ network = {}
    /\ have = [m \in Responses |-> 0]

-----------------------------------------------------------------------------
(* The machine *)

Smaller(a, b) == IF a < b THEN a ELSE b

SetState(m, s) == state' = [state EXCEPT ![m] = s]

\* buildCurrentSegmentedComplexACKWindow, by driver g: the segments from
\* payload offset `offset' on, numbered from `seq' on, at most `window'.
BuildWindow(g, m, offset, seq, window) ==
    LET n == Smaller(window, Segments - offset) IN
    /\ responsePayloadOffset' = [responsePayloadOffset EXCEPT ![m] = offset]
    /\ responseNextOffset' = [responseNextOffset EXCEPT ![m] = offset + n]
    /\ initialSequenceNumber' = [initialSequenceNumber EXCEPT ![m] = seq]
    /\ sequenceNumber' = [sequenceNumber EXCEPT ![m] = seq + n]
    /\ outbound' = [outbound EXCEPT ![g] =
                        {Segment(m, seq + i, offset + i) : i \in 0 .. n - 1}]

sentAllSegments(m) == responseNextOffset[m] = Segments

\* normalizeTransmitWindowSize; a Segment-ACK with window 0 changes nothing.
AnnouncedWindow(m) ==
    IF ack.window = 0 THEN actualWindowSize[m] ELSE Smaller(ack.window, PreferredWindow)

\* Mutants of InWindow: the last segment is left out; the start is not compared.
InWindow_short(seq, first, window) == seq >= first /\ seq - first + 1 < window
InWindow_stale(seq, first, window) == seq < first + window

\* segmentedTransactionVariables.InWindow: uint8 subtraction, which takes a
\* number below `first' far beyond any window (at most 127).
InWindow(seq, first, window) == seq >= first /\ seq - first < window

\* Mutant of Rewind: numbering goes on instead of starting the window again.
Rewind_forgotten(m) == sequenceNumber[m]

\* sequenceNumber = initialSequenceNumber, before a retransmission
Rewind(m) == initialSequenceNumber[m]

\* Mutant of OneMore: the retry is not counted.
OneMore_uncounted(m) == retryCount[m]

OneMore(m) == retryCount[m] + 1

Goto(g, label) == pc' = [pc EXCEPT ![g] = label]

MayRetry(m) == retryCount[m] < MaxRetries

\* The current window again while retries are left, else an Abort.
Retransmit(g, m, window) ==
    \/ /\ MayRetry(m)
       /\ retryCount' = [retryCount EXCEPT ![m] = OneMore(m)]
       /\ BuildWindow(g, m, responsePayloadOffset[m], Rewind(m), window)
       /\ UNCHANGED state
    \/ /\ ~MayRetry(m)
       /\ SetState(m, "Aborted")
       /\ outbound' = [outbound EXCEPT ![g] = {}]
       /\ UNCHANGED <<windowVars, retryCount>>

\* Handle(Timeout) in AwaitSegmentACK.
Timeout(g, m) ==
    /\ Retransmit(g, m, actualWindowSize[m])
    /\ Goto(g, "send")
    /\ UNCHANGED actualWindowSize

-----------------------------------------------------------------------------
(* The receive loop *)

\* A request PDU is answered by its own machine: dispatchToHandler starts a
\* segmented response, or one APDU is the whole answer (a short ACK, an Error, a
\* Reject, an Abort, the Segment-ACK of a new reassembly).  Either way the
\* answer is sent and the table is brought in line with that machine.
Dispatch ==
    LET m == started + 1 IN
    /\ pc["loop"] = "idle"
    /\ m \in Responses
    /\ started' = m
    /\ \/ /\ SetState(m, "AwaitSegmentACK")
          /\ actualWindowSize' = [actualWindowSize EXCEPT ![m] = PreferredWindow]
          /\ BuildWindow("loop", m, 0, 0, PreferredWindow)
       \/ /\ SetState(m, "Answered")
          /\ UNCHANGED <<actualWindowSize, windowVars, outbound>>
    /\ holds' = [holds EXCEPT !["loop"] = m]
    /\ Goto("loop", "send")
    /\ UNCHANGED <<retryCount, expired, entry, closed, closing, ack, network, have>>

\* handleSegmentACK finds an entry and looks at its deadline.  The requester
\* acknowledges a segment that it has received in order; it may do so late, and
\* for an earlier response.
\* (A Segment-ACK that a client transaction of the same invoke ID claims, or
\* that finds no entry, is lost.)
ReceiveACK ==
    /\ pc["loop"] = "idle"
    /\ entry # None
    /\ \E m \in Responses, nak \in BOOLEAN, window \in PeerWindows :
         \E n \in 0 .. Segments - 1 :
            /\ n < have[m]
            /\ ack' = [seq |-> n, nak |-> nak, window |-> window, late |-> expired[entry]]
    /\ holds' = [holds EXCEPT !["loop"] = entry]
    /\ Goto("loop", "handle")
    /\ UNCHANGED <<machineVars, expired, entry, closed, closing, outbound, peerVars>>

Release(g) ==
    /\ Goto(g, "idle")
    /\ holds' = [holds EXCEPT ![g] = None]
    /\ outbound' = [outbound EXCEPT ![g] = {}]

\* The rest of handleSegmentedServerResponseACK up to the sending.  The collector
\* and Close may come between the look at the deadline and Handle.
HandleACK ==
    LET m == holds["loop"]
        window == AnnouncedWindow(m)
        positive == ~ack.nak /\ InWindow(ack.seq, initialSequenceNumber[m], window)
    IN
    /\ pc["loop"] = "handle"
    /\ ack' = NoACK
    /\ \/ /\ state[m] # "AwaitSegmentACK"          \* Handle fails
          /\ Release("loop")
          /\ UNCHANGED machineVars
       \/ /\ state[m] = "AwaitSegmentACK" /\ ack.late
          /\ Timeout("loop", m)
          /\ UNCHANGED holds
       \/ /\ state[m] = "AwaitSegmentACK" /\ ~ack.late
          /\ actualWindowSize' = [actualWindowSize EXCEPT ![m] = window]
          /\ \/ /\ positive /\ sentAllSegments(m)
                /\ SetState(m, "Completed")
                /\ Goto("loop", "sync")
                /\ UNCHANGED <<windowVars, retryCount, outbound>>
             \/ /\ positive /\ ~sentAllSegments(m)
                /\ retryCount' = [retryCount EXCEPT ![m] = 0]
                /\ BuildWindow("loop", m, responseNextOffset[m], sequenceNumber[m], window)
                /\ Goto("loop", "send")
                /\ UNCHANGED state
             \/ /\ ~positive
                /\ Retransmit("loop", m, window)
                /\ Goto("loop", "send")
          /\ UNCHANGED holds
    /\ UNCHANGED <<expired, entry, closed, closing, peerVars>>

-----------------------------------------------------------------------------
(* sendConfirmedServerOutput and syncSegmentedServerResponseEntry, by the   *)
(* loop or the collector.                                                   *)

Send(g) ==
    /\ pc[g] = "send"
    /\ network' = network \cup outbound[g]
    /\ Goto(g, "sync")
    /\ UNCHANGED <<machineVars, expired, entry, closed, closing, holds, outbound, ack,
                   started, have>>

\* SendNPDU fails after some of the segments: Handle(CannotSend), and return
\* without a look at the table.
SendFails(g) ==
    LET m == holds[g] IN
    /\ pc[g] = "send"
    /\ \E n \in 0 .. Segments - 1 :
         network' = network \cup {s \in outbound[g] : s.idx < n}
    /\ SetState(m, "Aborted")
    /\ Release(g)
    /\ UNCHANGED <<windowVars, actualWindowSize, retryCount, expired, entry, closed, closing,
                   ack, started, have>>

\* Mutant of StillWaiting: a machine past its deadline is not stored again.
StillWaiting_unexpired(m) == state[m] = "AwaitSegmentACK" /\ ~expired[m]

StillWaiting(m) == state[m] = "AwaitSegmentACK"

\* The entry is stored with a new deadline while the machine waits for a
\* Segment-ACK, and deleted, whoever's it is, otherwise.
Sync(g) ==
    LET m == holds[g] IN
    /\ pc[g] = "sync"
    /\ IF ~closed /\ StillWaiting(m)
         THEN entry' = m /\ expired' = [expired EXCEPT ![m] = FALSE]
         ELSE entry' = None /\ UNCHANGED expired
    /\ Release(g)
    /\ UNCHANGED <<machineVars, closed, closing, ack, peerVars>>

-----------------------------------------------------------------------------
(* Time, the collector and Close *)

Expire ==
    /\ entry # None
    /\ ~expired[entry]
    /\ expired' = [expired EXCEPT ![entry] = TRUE]
    /\ UNCHANGED <<machineVars, entry, closed, closing, driverVars, peerVars>>

\* timedOutCollector takes the expired entry out, under the lock ...
Collect ==
    /\ pc["collector"] = "idle"
    /\ ~closed
    /\ entry # None
    /\ expired[entry]
    /\ holds' = [holds EXCEPT !["collector"] = entry]
    /\ entry' = None
    /\ Goto("collector", "handle")
    /\ UNCHANGED <<machineVars, expired, closed, closing, outbound, ack, peerVars>>

\* ... and times its machine out, without the lock.
CollectorHandle ==
    LET m == holds["collector"] IN
    /\ pc["collector"] = "handle"
    /\ \/ /\ state[m] # "AwaitSegmentACK"          \* Handle fails
          /\ Release("collector")
          /\ UNCHANGED machineVars
       \/ /\ state[m] = "AwaitSegmentACK"
          /\ Timeout("collector", m)
          /\ UNCHANGED holds
    /\ UNCHANGED <<expired, entry, closed, closing, ack, peerVars>>

\* Close empties the table ...
Close ==
    /\ ~closed
    /\ closed' = TRUE
    /\ closing' = entry
    /\ entry' = None
    /\ UNCHANGED <<machineVars, expired, driverVars, peerVars>>

\* ... and calls Handle(Close) without the lock.
CloseHandle ==
    /\ closing # None
    /\ IF state[closing] = "AwaitSegmentACK"
         THEN SetState(closing, "Aborted") ELSE UNCHANGED state
    /\ closing' = None
    /\ UNCHANGED <<windowVars, actualWindowSize, retryCount, expired, entry, closed,
                   driverVars, peerVars>>

-----------------------------------------------------------------------------
(* The requester takes the next segment, by its number. *)

PeerReceive ==
    /\ \E s \in network :
         /\ s.seq = have[s.resp]
         /\ have' = [have EXCEPT ![s.resp] = @ + 1]
    /\ UNCHANGED <<machineVars, expired, entry, closed, closing, driverVars, started, network>>

Loop == HandleACK \/ Send("loop") \/ SendFails("loop") \/ Sync("loop")

Collector ==
    CollectorHandle \/ Send("collector") \/ SendFails("collector") \/ Sync("collector")

Next ==
    \/ Dispatch \/ ReceiveACK \/ Loop
    \/ Expire \/ Collect \/ Collector
    \/ Close \/ CloseHandle
    \/ PeerReceive

Spec == Init /\ [][Next]_vars

\* Both goroutines finish what they began, time passes, and the collector's
\* ticker ticks.  Nothing is owed by the handler, the requester or the network.
FairSpec ==
    /\ Spec
    /\ WF_vars(Loop)
    /\ WF_vars(Collector)
    /\ WF_vars(Expire)
    /\ WF_vars(Collect)

-----------------------------------------------------------------------------
(* Properties *)

\* Every variable stays in its range; the retry counter and the offsets in
\* particular never pass their limits.
TypeOK ==
    /\ state \in [Responses -> States]
    /\ responsePayloadOffset \in [Responses -> 0 .. Segments]
    /\ responseNextOffset \in [Responses -> 0 .. Segments]
    /\ initialSequenceNumber \in [Responses -> Nat]
    /\ sequenceNumber \in [Responses -> Nat]
    /\ actualWindowSize \in [Responses -> 1 .. PreferredWindow]
    /\ retryCount \in [Responses -> 0 .. MaxRetries]
    /\ expired \in [Responses -> BOOLEAN]
    /\ entry \in Responses \cup {None}
    /\ closed \in BOOLEAN
    /\ closing \in Responses \cup {None}
    /\ pc \in [Drivers -> {"idle", "handle", "send", "sync"}]
    /\ holds \in [Drivers -> Responses \cup {None}]
    /\ outbound \in [Drivers -> SUBSET AllSegments]
    /\ ack \in [seq : Nat, nak : BOOLEAN, window : Nat, late : BOOLEAN]
    /\ started \in 0 .. NumResponses
    /\ network \in SUBSET AllSegments
    /\ have \in [Responses -> Nat]

\* Sequence numbers and payload offsets, which the machine advances and rewinds
\* separately, stay together: a segment with number n carries the n-th part of
\* the response, also after retransmissions with a window that has changed.
NumbersMatchPayload == \A s \in network : s.seq = s.idx

\* A response is completed only by a requester that has got as far as its last
\* window; late and repeated Segment-ACKs of earlier windows never complete it.
\* With the default window of one, a completed response was received completely.
CompletedInLastWindow ==
    \A m \in Responses : state[m] = "Completed" => have[m] + PreferredWindow > Segments

\* apdu/README.md: "Segment-ACK driven progression and retry/abort handling".
\* A response that the server counts as completed was received completely.
CompletedMeansReceived ==
    \A m \in Responses : state[m] = "Completed" => have[m] >= Segments

\* apdu/README.md: "Segment-ACK driven progression".  A positive Segment-ACK for
\* the last segment that was sent, in time, completes the response or moves it
\* to its next window exactly when the window it announces covers what was sent.
\* One that announces less is judged by its own, smaller window: everything has
\* been acknowledged, and yet the old window is sent again or the response is
\* aborted.
FullAckAdvances ==
    [][LET m == holds["loop"]
           sent == sequenceNumber[m] - initialSequenceNumber[m]
       IN
       /\ pc["loop"] = "handle" /\ pc'["loop"] # "handle"
       /\ state[m] = "AwaitSegmentACK" /\ ~ack.late
       /\ ~ack.nak /\ ack.seq + 1 = sequenceNumber[m]
       => (ack.window = 0 \/ ack.window >= sent
            <=> \/ state'[m] = "Completed"
                \/ responsePayloadOffset'[m] = responseNextOffset[m])]_vars

\* timedOutCollector "sends Abort PDUs for expired outbound segmented
\* responses".  So the latest response is never lost: while it waits for a
\* Segment-ACK it is in the table, or one of the goroutines is at work on it.
NeverStranded ==
    started # 0 /\ ~closed /\ state[started] = "AwaitSegmentACK" =>
        \/ entry = started
        \/ \E g \in Drivers : holds[g] = started

\* Every response comes to an end, completed or aborted, whatever the requester
\* and the network do.
ResponsesEnd ==
    \A m \in Responses :
        state[m] = "AwaitSegmentACK" ~> state[m] \in {"Completed", "Aborted"} \/ closed
=============================================================================
