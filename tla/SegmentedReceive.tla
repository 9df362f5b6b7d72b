-------------------------- MODULE SegmentedReceive --------------------------
(***************************************************************************)
(* Reassembly of a segmented confirmed request on the server side:         *)
(* startSegmentedReceive and continueSegmentedReceive of apdu/ase.go, the  *)
(* idle and receiving states of confirmedServerMachine                     *)
(* (apdu/state_machine_server.go), the collector and Close, for one key    *)
(* (source address, invoke ID) of inboundSegmentedServerEntries.           *)
(*                                                                         *)
(* The receive loop is one goroutine; the collector and Close are others   *)
(* and meet it in the table and in the machine, which has a mutex: Handle  *)
(* is one step, what the loop does after it (send, then store, refresh or  *)
(* delete) is another.  The requester and the network are external: a      *)
(* segment that was sent may arrive late, repeatedly, out of order or      *)
(* never.                                                                  *)
(***************************************************************************)
EXTENDS Naturals, Sequences

CONSTANTS
    NumRequests,     \* requests the requester makes under this invoke ID
    Segments,        \* number of segments of every request
    SeqSpace,        \* size of the sequence-number space (256: a uint8)
    PreferredWindow, \* ASEConfig.PreferredWindowSize
    MaxDuplicates    \* ASEConfig.MaxSegmentDuplicates (NewASE replaces 0 by 3)

ASSUME NumRequestsAssumption == NumRequests \in Nat \ {0}
ASSUME SegmentsAssumption == Segments \in Nat \ {0}
ASSUME SeqSpaceAssumption == SeqSpace \in Nat \ {0}
ASSUME WindowAssumption == PreferredWindow \in 1 .. SeqSpace
ASSUME MaxDuplicatesAssumption == MaxDuplicates \in Nat \ {0}

Requests == 1 .. NumRequests

AllSegments == [req : Requests, idx : 0 .. Segments - 1]

Wire(seg) == seg.idx % SeqSpace            \* SequenceNumber in the APDU

MoreFollows(seg) == seg.idx < Segments - 1

VARIABLES
    (* confirmedServerMachine of the entry, or of the request being started *)
    state,            \* Idle: no machine
    segmentBuffer,    \* the segments appended so far
    sequenceNumber,   \* next expected
    initialSequenceNumber,
    receivedInCurrentWindow,
    actualWindowSize,
    duplicateCount,
    (* the ASE *)
    stored,           \* the key is in inboundSegmentedServerEntries
    expired,          \* the deadline of the entry has passed
    closed,           \* aseImpl.closed
    (* the receive loop *)
    lpc,              \* idle, post (after Handle), dispatch
    output,           \* the PDU that Handle asked for
    path,             \* which branch of the two functions runs
    (* observed *)
    handled,          \* what was dispatched to the handler last
    (* the requester, external *)
    cur,              \* its current request
    top,              \* how many segments of each request it has sent
    acked             \* how many segments of the current one it knows received

machineVars == <<state, segmentBuffer, sequenceNumber, initialSequenceNumber,
                 receivedInCurrentWindow, actualWindowSize, duplicateCount>>
loopVars == <<lpc, output, path>>
requesterVars == <<cur, top, acked>>
vars == <<machineVars, stored, expired, closed, loopVars, handled, requesterVars>>

NoPDU == [type |-> "none", seq |-> 0, nak |-> FALSE]
Abort == [type |-> "Abort", seq |-> 0, nak |-> FALSE]
SegmentACK(n, nak) == [type |-> "SegmentACK", seq |-> n, nak |-> nak]

Init ==
    /\ state = "Idle" /\ segmentBuffer = <<>> /\ sequenceNumber = 0
    /\ initialSequenceNumber = 0 /\ receivedInCurrentWindow = 0
    /\ actualWindowSize = 1 /\ duplicateCount = 0
    /\ stored = FALSE /\ expired = FALSE /\ closed = FALSE
    /\ lpc = "idle" /\ output = NoPDU /\ path = "none"
    /\ handled = <<>>
    /\ cur = 1 /\ top = [r \in Requests |-> 0] /\ acked = 0

-----------------------------------------------------------------------------
(* The machine *)

\* Mutant of LastContiguous: the next expected number is acknowledged.
LastContiguous_ahead == sequenceNumber

\* lastContiguousSequenceNumber
LastContiguous == IF sequenceNumber = 0 THEN 0 ELSE sequenceNumber - 1

\* uint8 subtraction
Minus(a, b) == (a + SeqSpace - b) % SeqSpace

\* segmentedTransactionVariables.DuplicateInWindow
DuplicateInWindow(n) ==
    /\ receivedInCurrentWindow # 0
    /\ Minus(n, initialSequenceNumber) <= receivedInCurrentWindow

WindowFull(received, window) == received >= window

\* bufferSegment followed by drainContiguousSegmentBuffer.  Only the expected
\* segment is ever buffered, so the drain takes out exactly that one.
Consume(seg, buffer, seq, initial, received, window) ==
    LET last == ~MoreFollows(seg)
        full == WindowFull(received + 1, window)
        next == (seq + 1) % SeqSpace
    IN  /\ segmentBuffer' = Append(buffer, seg)
        /\ sequenceNumber' = next
        /\ actualWindowSize' = window
        /\ duplicateCount' = 0
        /\ state' = IF last THEN "AwaitResponse" ELSE "Receiving"
        /\ receivedInCurrentWindow' = IF ~last /\ full THEN 0 ELSE received + 1
        /\ initialSequenceNumber' = IF ~last /\ full THEN next ELSE initial
        /\ output' = IF last \/ full THEN SegmentACK(seq, FALSE) ELSE NoPDU

\* duplicateSegmentOutput: re-acknowledge, or abort beyond MaxSegmentDuplicates.
Duplicate ==
    /\ duplicateCount' = duplicateCount + 1
    /\ IF duplicateCount + 1 > MaxDuplicates
         THEN state' = "Aborted" /\ output' = Abort
         ELSE UNCHANGED state /\ output' = SegmentACK(LastContiguous, FALSE)
    /\ UNCHANGED <<segmentBuffer, sequenceNumber, initialSequenceNumber,
                   receivedInCurrentWindow, actualWindowSize>>

\* A gap, or a segment of an earlier window: negative acknowledgement.
OutOfOrder ==
    /\ output' = SegmentACK(LastContiguous, TRUE)
    /\ UNCHANGED machineVars

\* handleInSegmentedRequestReceivingState, machineEventSegmentTimeout
SegmentTimeout ==
    /\ state' = "Aborted"
    /\ output' = Abort
    /\ UNCHANGED <<segmentBuffer, sequenceNumber, initialSequenceNumber,
                   receivedInCurrentWindow, actualWindowSize, duplicateCount>>

-----------------------------------------------------------------------------
(* The receive loop *)

InFlight(seg) == seg.idx < top[seg.req]

After(label) == lpc' = "post" /\ path' = label

\* Both functions, on an entry whose deadline has passed.
ReceiveExpired(seg) ==
    /\ lpc = "idle" /\ stored /\ expired /\ state = "Receiving"
    /\ SegmentTimeout
    /\ After("timeout")
    /\ UNCHANGED <<stored, expired, closed, handled, requesterVars>>

\* startSegmentedReceive without an entry: a new machine takes the segment.
StartNew(seg) ==
    /\ lpc = "idle" /\ ~stored
    /\ Wire(seg) = 0
    /\ \E proposed \in 1 .. PreferredWindow :     \* minWindowSize
         Consume(seg, <<>>, 0, 0, 0, proposed)
    /\ After("new")
    /\ UNCHANGED <<stored, expired, closed, handled, requesterVars>>

\* startSegmentedReceive on an entry: the segment is a duplicate of the first.
StartDuplicate(seg) ==
    /\ lpc = "idle" /\ stored /\ ~expired /\ state = "Receiving"
    /\ Wire(seg) = 0
    /\ Duplicate
    /\ After("duplicate")
    /\ UNCHANGED <<stored, expired, closed, handled, requesterVars>>

\* Mutant of Expected: any segment of the window is appended.
Expected_window(seg) == Minus(Wire(seg), sequenceNumber) < actualWindowSize

Expected(seg) == Wire(seg) = sequenceNumber

\* continueSegmentedReceive on an entry.
Continue(seg) ==
    /\ lpc = "idle" /\ stored /\ ~expired /\ state = "Receiving"
    /\ Wire(seg) # 0
    /\ \/ /\ Expected(seg)
          /\ Consume(seg, segmentBuffer, sequenceNumber, initialSequenceNumber,
                     receivedInCurrentWindow, actualWindowSize)
       \/ /\ ~Expected(seg) /\ DuplicateInWindow(Wire(seg))
          /\ Duplicate
       \/ /\ ~Expected(seg) /\ ~DuplicateInWindow(Wire(seg))
          /\ OutOfOrder
    /\ After("continue")
    /\ UNCHANGED <<stored, expired, closed, handled, requesterVars>>

\* Whatever arrives otherwise changes nothing here: a continuation without an
\* entry, any segment for an aborted machine, and any first segment where
\* ASEConfig.Segmentation excludes receiving (its machine aborts and is dropped).
Receive ==
    \E seg \in AllSegments :
        /\ InFlight(seg)
        /\ \/ ReceiveExpired(seg) \/ StartNew(seg) \/ StartDuplicate(seg) \/ Continue(seg)

\* The requester reads the sequence number of a SegmentACK that was sent.
Acknowledge ==
    IF output.type = "SegmentACK" /\ output.seq + 1 > acked
      THEN acked' = output.seq + 1
      ELSE UNCHANGED acked

LoopDone == lpc' = "idle" /\ output' = NoPDU /\ path' = "none"

\* sendConfirmedServerOutput fails: Handle(CannotSend) aborts a machine that
\* has all segments, and is refused by one that is still receiving.  The
\* functions return at once: no refresh, no delete, and a new machine is lost.
SendFails ==
    /\ lpc = "post" /\ output # NoPDU
    /\ IF state = "AwaitResponse"
         THEN state' = "Aborted" ELSE UNCHANGED state
    /\ LoopDone
    /\ UNCHANGED <<segmentBuffer, sequenceNumber, initialSequenceNumber,
                   receivedInCurrentWindow, actualWindowSize, duplicateCount,
                   stored, expired, closed, handled, requesterVars>>

\* The rest of the two functions, by the state the machine is in now.
Settle ==
    \/ /\ state = "AwaitResponse"                  \* delete, assemble, dispatch
       /\ lpc' = "dispatch" /\ output' = NoPDU /\ path' = "none"
       /\ stored' = FALSE
       /\ UNCHANGED expired
    \/ /\ state = "Aborted" \/ path = "timeout"    \* delete
       /\ LoopDone
       /\ stored' = FALSE
       /\ UNCHANGED expired
    \/ /\ state = "Receiving" /\ path # "timeout"  \* store or refresh
       /\ LoopDone
       /\ stored' = (path = "new" \/ stored)
       /\ expired' = FALSE

Post ==
    /\ lpc = "post"
    /\ Acknowledge
    /\ Settle
    /\ UNCHANGED <<machineVars, closed, handled, cur, top>>

\* assembleInboundAPDU and the call of the handler; how it answers is not
\* modelled here.
Dispatch ==
    /\ lpc = "dispatch"
    /\ handled' = segmentBuffer
    /\ LoopDone
    /\ UNCHANGED <<machineVars, stored, expired, closed, requesterVars>>

-----------------------------------------------------------------------------
(* The other goroutines *)

\* Time passes the deadline of the entry.
Expire ==
    /\ stored /\ ~expired
    /\ expired' = TRUE
    /\ UNCHANGED <<machineVars, stored, closed, loopVars, handled, requesterVars>>

\* Mutant of Collectable: entries with an aborted machine are overlooked.
Collectable_receiving == expired /\ state = "Receiving"

\* entry.expiresAt.Before(latestTimedOut)
Collectable == expired

\* timedOutCollector; Close ends it.
Collect ==
    /\ ~closed
    /\ stored /\ Collectable
    /\ stored' = FALSE
    /\ UNCHANGED <<machineVars, expired, closed, loopVars, handled, requesterVars>>

\* Close: the entry leaves the table, and Handle(Close) aborts its machine.
Close ==
    /\ ~closed
    /\ closed' = TRUE
    /\ stored' = FALSE
    /\ state' = IF stored /\ state \in {"Receiving", "AwaitResponse"}
                  THEN "Aborted" ELSE state
    /\ UNCHANGED <<segmentBuffer, sequenceNumber, initialSequenceNumber,
                   receivedInCurrentWindow, actualWindowSize, duplicateCount,
                   expired, loopVars, handled, requesterVars>>

-----------------------------------------------------------------------------
(* The requester *)

\* It sends the next segment that its window allows.
SendSegment ==
    /\ top[cur] < Segments
    /\ top[cur] < acked + PreferredWindow
    /\ top' = [top EXCEPT ![cur] = @ + 1]
    /\ UNCHANGED <<machineVars, stored, expired, closed, loopVars, handled, cur, acked>>

\* It gives up, or restarts, and uses the invoke ID again.  The Abort it may
\* send is looked up among the client transactions and never gets here.
NextRequest ==
    /\ cur < NumRequests
    /\ cur' = cur + 1
    /\ acked' = 0
    /\ UNCHANGED <<machineVars, stored, expired, closed, loopVars, handled, top>>

Next ==
    \/ Receive \/ SendFails \/ Post \/ Dispatch
    \/ Expire \/ Collect \/ Close
    \/ SendSegment \/ NextRequest

Spec == Init /\ [][Next]_vars

\* The loop finishes what it began, time passes, and the collector's ticker
\* ticks.  Nothing is owed by the requester or the network.
FairSpec ==
    /\ Spec
    /\ WF_vars(SendFails \/ Post \/ Dispatch)
    /\ WF_vars(Expire)
    /\ WF_vars(Collect)

-----------------------------------------------------------------------------
(* Properties *)

PDUs == [type : {"none", "Abort", "SegmentACK"}, seq : 0 .. SeqSpace - 1, nak : BOOLEAN]

\* Every variable stays in its range.
TypeOK ==
    /\ state \in {"Idle", "Receiving", "AwaitResponse", "Aborted"}
    /\ segmentBuffer \in Seq(AllSegments)
    /\ sequenceNumber \in 0 .. SeqSpace - 1
    /\ initialSequenceNumber \in 0 .. SeqSpace - 1
    /\ receivedInCurrentWindow \in 0 .. PreferredWindow
    /\ actualWindowSize \in 1 .. PreferredWindow
    /\ duplicateCount \in 0 .. MaxDuplicates + 1
    /\ stored \in BOOLEAN /\ expired \in BOOLEAN /\ closed \in BOOLEAN
    /\ lpc \in {"idle", "post", "dispatch"}
    /\ output \in PDUs
    /\ path \in {"none", "new", "duplicate", "continue", "timeout"}
    /\ handled \in Seq(AllSegments)
    /\ cur \in Requests
    /\ top \in [Requests -> 0 .. Segments]
    /\ acked \in 0 .. SeqSpace

\* The handler is given as many segments as the request has, each one once and
\* in its place (drainContiguousSegmentBuffer), whatever the network did and
\* however often the requester reuses the invoke ID.
PositionsInOrder ==
    handled # <<>> =>
        /\ Len(handled) = Segments
        /\ \A j \in 1 .. Len(handled) : handled[j].idx = j - 1

\* AssembledPayload is "the fully reassembled request payload after all
\* segments have been received" (state_machine_server.go): besides, all the
\* segments are of the same request.
Reassembled ==
    /\ PositionsInOrder
    /\ \A j \in 1 .. Len(handled) : handled[j].req = handled[1].req

\* A Segment-ACK, positive or negative, names the last segment of the buffer:
\* the requester never goes on past a segment the server does not have.
AckSound ==
    output.type = "SegmentACK" => output.seq = Len(segmentBuffer) - 1

\* The window bookkeeping agrees with the buffer: the window starts where the
\* last acknowledged one ended and is acknowledged before it overflows.
WindowOK ==
    state = "Receiving" =>
        /\ sequenceNumber = Len(segmentBuffer) % SeqSpace
        /\ receivedInCurrentWindow < actualWindowSize
        /\ (initialSequenceNumber + receivedInCurrentWindow) % SeqSpace = sequenceNumber

\* No entry is stranded: unless segments keep arriving for it or the ASE is
\* closed, the entry leaves the table (timedOutCollector).
EntriesGoAway ==
    \/ []<>(~stored)
    \/ []<>(lpc = "post")
    \/ <>[]closed
=============================================================================
