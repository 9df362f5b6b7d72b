----------------------------- MODULE ClientASE -----------------------------
(***************************************************************************)
(* The client side of apdu.ASE (apdu/ase.go) and of its transaction state  *)
(* machine (apdu/state_machine_client.go).                                 *)
(*                                                                         *)
(* Three kinds of goroutine meet in one transaction:                       *)
(*   - a caller of BeginConfirmedServiceRequest, which owns the retry loop *)
(*     and the select over its context, its timer and the done channel;    *)
(*   - the receive loop (bip.Stack.Run calls OnInboundNPDU synchronously,  *)
(*     so there is one), which completes or fails transactions;            *)
(*   - the goroutine that calls Close.                                     *)
(* A step is what runs between two accesses to shared state: a critical    *)
(* section of ASE.mu, one access to the machine, or one channel operation. *)
(* confirmedClientMachine has no lock, so the `switch m.state' of Handle   *)
(* and the assignment that follows it are two steps, and two goroutines    *)
(* may both pass the switch.                                               *)
(***************************************************************************)
EXTENDS Naturals, FiniteSets

CONSTANTS
    Calls,        \* calls to BeginConfirmedServiceRequest, one goroutine each
    Peer,         \* req.Destination of each call
    Service,      \* req.ServiceRequest.ServiceChoice of each call
    NumIDs,       \* size of the InvokeID space (256: InvokeID is a uint8)
    MaxInvokes,   \* ASEConfig.MaxConcurrentInvokes
    MaxRetries,   \* ASEConfig.APDURetries
    PDUTypes,     \* kinds of PDU the peers send
    NoCall,       \* "no transaction" in the table
    NoPDU         \* the receive loop holds no PDU

ASSUME CallsAssumption == NoCall \notin Calls
ASSUME NumIDsAssumption == NumIDs \in Nat \ {0}
ASSUME MaxInvokesAssumption == MaxInvokes \in Nat \ {0}
ASSUME MaxRetriesAssumption == MaxRetries \in Nat

\* The kinds of inbound PDU the client side tells apart.  "ACK" is a SimpleACK
\* or an unsegmented ComplexACK, "SegmentedACK" a segmented ComplexACK, "Abort"
\* a Reject or an Abort.
ASSUME PDUTypesAssumption ==
    PDUTypes \subseteq {"ACK", "SegmentedACK", "Error", "Abort", "SegmentACK"}

InvokeIDs == 0 .. NumIDs - 1

\* txID of a call that was never given an invoke ID.
NoID == NumIDs

MachineStates == {"Idle", "AwaitResponse", "Completed", "Aborted"}

NoOutcome == "none"

Outcomes == {"ACK", "Error", "Abort", "SegmentationNotSupported", "Transport",
             "Encode", "Timeout", "Context", "InvalidTransition", "ASEClosed",
             "Invalid", "NoInvokeID"}

VARIABLES
    (* aseImpl, guarded by mu *)
    closed,               \* aseImpl.closed
    nextInvokeID,         \* aseClientImpl.nextInvokeID
    clientTransactions,   \* invoke ID -> the call whose transaction it is, or NoCall
    (* the transaction of each call *)
    state,                \* confirmedClientMachine.state
    retryCount,           \* confirmedClientMachine.variables.retryCount
    done,                 \* transaction.done, a channel with one buffer slot
    (* the goroutine of each call *)
    pc,                   \* where BeginConfirmedServiceRequest is
    txID,                 \* the invoke ID startTransaction returned
    result,               \* what the call returns, or is about to return
    sent,                 \* how often its request reached the network
    (* the receive loop *)
    rpc,                  \* where OnInboundNPDU is
    rin,                  \* the decoded PDU it works on
    rtx,                  \* the transaction it looked up
    (* the goroutine that calls Close *)
    cpc,                  \* where Close is
    pending,              \* the transactions Close took out and has not answered
    ctx                   \* the one it is answering

tableVars == <<closed, nextInvokeID, clientTransactions>>
machineVars == <<state, retryCount>>
callVars == <<pc, txID, result, sent>>
recvVars == <<rpc, rin, rtx>>
closeVars == <<cpc, pending, ctx>>
vars == <<tableVars, machineVars, done, callVars, recvVars, closeVars>>

Nothing == [kind |-> NoOutcome, req |-> NoCall]

\* A channel value or a return value: its kind, and the request that the PDU
\* it came from answers (NoCall for a PDU of the peer's own transaction).
Value(kind, req) == [kind |-> kind, req |-> req]

Local(kind) == Value(kind, NoCall)

Registered(c) == \E i \in InvokeIDs : clientTransactions[i] = c

InUse == {i \in InvokeIDs : clientTransactions[i] # NoCall}

Init ==
    /\ closed = FALSE
    /\ nextInvokeID = 0
    /\ clientTransactions = [i \in InvokeIDs |-> NoCall]
    /\ state = [c \in Calls |-> "Idle"]
    /\ retryCount = [c \in Calls |-> 0]
    /\ done = [c \in Calls |-> Nothing]
    /\ pc = [c \in Calls |-> "start"]
    /\ txID = [c \in Calls |-> NoID]
    /\ result = [c \in Calls |-> Nothing]
    /\ sent = [c \in Calls |-> 0]
    /\ rpc = "idle" /\ rin = NoPDU /\ rtx = NoCall
    /\ cpc = "open" /\ pending = {} /\ ctx = NoCall

-----------------------------------------------------------------------------
(* BeginConfirmedServiceRequest *)

Goto(c, label) == pc' = [pc EXCEPT ![c] = label]

\* The call returns `kind' without touching the transaction table.
ReturnNow(c, kind) ==
    /\ Goto(c, "returned")
    /\ result' = [result EXCEPT ![c] = Local(kind)]

\* The call will return `kind' after finishClientTransaction.
FinishWith(c, kind) ==
    /\ Goto(c, "finish")
    /\ result' = [result EXCEPT ![c] = Local(kind)]

\* Priority, service choice or APDU size is refused before anything is registered.
RejectInvalid(c) ==
    /\ pc[c] = "start"
    /\ ReturnNow(c, "Invalid")
    /\ UNCHANGED <<tableVars, machineVars, done, txID, sent, recvVars, closeVars>>

\* startTransaction refuses: closed, too many transactions, or no ID is free.
StartRefused(c) ==
    /\ pc[c] = "start"
    /\ \/ closed /\ ReturnNow(c, "ASEClosed")
       \/ /\ ~closed
          /\ \/ Cardinality(InUse) >= MaxInvokes
             \/ InUse = InvokeIDs
          /\ ReturnNow(c, "NoInvokeID")
    /\ UNCHANGED <<tableVars, machineVars, done, txID, sent, recvVars, closeVars>>

\* Mutant of MayStart: the check of closed is missing.
MayStart_closedIgnored == Cardinality(InUse) < MaxInvokes

MayStart == ~closed /\ Cardinality(InUse) < MaxInvokes

\* a.nextInvokeID++ on a uint8
After(id) == (id + 1) % NumIDs

\* startTransaction takes the first free ID from nextInvokeID on, wrapping.
StartTransaction(c) ==
    /\ pc[c] = "start"
    /\ MayStart
    /\ \E k \in 0 .. NumIDs - 1 :
         LET id == (nextInvokeID + k) % NumIDs IN
         /\ id \notin InUse
         /\ \A j \in 0 .. k - 1 : (nextInvokeID + j) % NumIDs \in InUse
         /\ nextInvokeID' = After(id)
         /\ clientTransactions' = [clientTransactions EXCEPT ![id] = c]
         /\ txID' = [txID EXCEPT ![c] = id]
    /\ Goto(c, "handleSend")
    /\ UNCHANGED <<closed, machineVars, done, result, sent, recvVars, closeVars>>

\* Handle(SendConfirmedRequest): the machine refuses a payload that exceeds the
\* request's own MaxAPDULengthAccepted, or moves to AwaitResponse.
HandleSend(c) ==
    /\ pc[c] = "handleSend"
    /\ \/ /\ FinishWith(c, "SegmentationNotSupported")
          /\ UNCHANGED machineVars
       \/ /\ state[c] = "Idle"
          /\ state' = [state EXCEPT ![c] = "AwaitResponse"]
          /\ retryCount' = [retryCount EXCEPT ![c] = 0]
          /\ Goto(c, "send")
          /\ UNCHANGED result
    /\ UNCHANGED <<tableVars, done, txID, sent, recvVars, closeVars>>

\* buildOutboundNPDU fails on the destination address.
BuildFails(c) ==
    /\ pc[c] = "send"
    /\ FinishWith(c, "Encode")
    /\ UNCHANGED <<tableVars, machineVars, done, txID, sent, recvVars, closeVars>>

\* SendNPDU succeeds and the select starts with a fresh timer.
SendNPDU(c) ==
    /\ pc[c] = "send"
    /\ sent' = [sent EXCEPT ![c] = @ + 1]
    /\ Goto(c, "wait")
    /\ UNCHANGED <<tableVars, machineVars, done, txID, result, recvVars, closeVars>>

\* An event the call feeds its own machine: the switch on m.state.  In
\* AwaitResponse the assignment of that event follows as a step of its own;
\* in a terminal state Handle fails and the call leaves with `otherwise'.
EnterHandle(c, label, otherwise) ==
    /\ \/ state[c] = "AwaitResponse" /\ Goto(c, label) /\ UNCHANGED result
       \/ state[c] # "AwaitResponse" /\ FinishWith(c, otherwise)
    /\ UNCHANGED <<tableVars, machineVars, done, txID, sent, recvVars, closeVars>>

SendFails(c) == pc[c] = "send" /\ EnterHandle(c, "cannotSend", "Transport")

ContextDone(c) == pc[c] = "wait" /\ EnterHandle(c, "ctxClose", "Context")

\* Mutant of TimerFires: the timer is not armed again after a resend.
TimerFires_armedOnce(c) ==
    /\ pc[c] = "wait"
    /\ retryCount[c] = 0
    /\ EnterHandle(c, "timeout", "InvalidTransition")

TimerFires(c) == pc[c] = "wait" /\ EnterHandle(c, "timeout", "InvalidTransition")

\* The rest of Handle(CannotSend) and of Handle(Close): the machine is aborted.
HandleAbort(c) ==
    /\ \/ pc[c] = "cannotSend" /\ FinishWith(c, "Transport")
       \/ pc[c] = "ctxClose" /\ FinishWith(c, "Context")
    /\ state' = [state EXCEPT ![c] = "Aborted"]
    /\ UNCHANGED <<tableVars, retryCount, done, txID, sent, recvVars, closeVars>>

\* Mutant of MayRetry: one retry too many.
MayRetry_offByOne(c) == retryCount[c] <= MaxRetries

MayRetry(c) == retryCount[c] < MaxRetries

\* The rest of Handle(Timeout): a resend while retries are left, else failure.
HandleTimeout(c) ==
    /\ pc[c] = "timeout"
    /\ \/ /\ MayRetry(c)
          /\ retryCount' = [retryCount EXCEPT ![c] = @ + 1]
          /\ Goto(c, "send")
          /\ UNCHANGED <<state, result>>
       \/ /\ ~MayRetry(c)
          /\ state' = [state EXCEPT ![c] = "Aborted"]
          /\ FinishWith(c, "Timeout")
          /\ UNCHANGED retryCount
    /\ UNCHANGED <<tableVars, done, txID, sent, recvVars, closeVars>>

\* case result := <-tx.done.
ReceiveDone(c) ==
    /\ pc[c] = "wait"
    /\ done[c] # Nothing
    /\ result' = [result EXCEPT ![c] = done[c]]
    /\ done' = [done EXCEPT ![c] = Nothing]
    /\ Goto(c, "returned")
    /\ UNCHANGED <<tableVars, machineVars, txID, sent, recvVars, closeVars>>

\* Mutant of Delete: the transaction stays in the table.
Delete_forgotten(id) == UNCHANGED clientTransactions

\* delete(a.clientTransactions, id): whichever transaction holds the ID now.
Delete(id) == clientTransactions' = [clientTransactions EXCEPT ![id] = NoCall]

\* finishClientTransaction(txID), then return.
CallerFinish(c) ==
    /\ pc[c] = "finish"
    /\ Delete(txID[c])
    /\ Goto(c, "returned")
    /\ UNCHANGED <<closed, nextInvokeID, machineVars, done, txID, result, sent,
                   recvVars, closeVars>>

\* What the goroutine does on its own once it has called; its context may be
\* cancelled, and its timer always fires.
CallerRuns(c) ==
    \/ HandleSend(c) \/ BuildFails(c) \/ SendNPDU(c) \/ SendFails(c)
    \/ TimerFires(c) \/ ReceiveDone(c)
    \/ HandleAbort(c) \/ HandleTimeout(c) \/ CallerFinish(c)

Caller(c) ==
    \/ RejectInvalid(c) \/ StartRefused(c) \/ StartTransaction(c)
    \/ ContextDone(c) \/ CallerRuns(c)

-----------------------------------------------------------------------------
(* The receive loop: OnInboundNPDU, completeTransaction, failTransaction *)

PDU(type, id, src, service, req) ==
    [type |-> type, invokeID |-> id, src |-> src, service |-> service, req |-> req]

\* The network may deliver, at any time and any number of times, an answer to
\* a request that reached it...
Answers ==
    {PDU(t, txID[c], Peer[c], Service[c], c) :
        t \in PDUTypes \ {"SegmentACK"}, c \in {d \in Calls : sent[d] > 0}}

\* ... and a Segment-ACK or an Abort by which a peer moves or ends a
\* transaction of its own, in which it is the client and chose the invoke ID.
PeerTransactions ==
    {PDU(t, i, Peer[c], Service[c], NoCall) :
        t \in PDUTypes \cap {"SegmentACK", "Abort"}, i \in InvokeIDs, c \in Calls}

Network == Answers \cup PeerTransactions

CarriesServiceContext(in) == in.type \in {"ACK", "SegmentedACK", "Error"}

\* Mutant of Matches: the service choice is not compared.
Matches_anyService(c, in) == Peer[c] = in.src

\* transaction.matchesInboundAPDU
Matches(c, in) ==
    /\ Peer[c] = in.src
    /\ CarriesServiceContext(in) => Service[c] = in.service

\* completeTransaction, up to the machine: look the transaction up and compare
\* it with the PDU.  A segmented ComplexACK goes on to failTransaction (the
\* Abort that is sent to the peer first changes nothing here).  A PDU that
\* finds no matching transaction is dropped: no step.
CompleteTransaction ==
    /\ rpc = "idle"
    /\ \E in \in Network :
         LET c == clientTransactions[in.invokeID] IN
         /\ in.type # "SegmentACK"
         /\ c # NoCall
         /\ Matches(c, in)
         /\ rin' = in
         /\ IF in.type = "SegmentedACK"
              THEN rpc' = "failLookup" /\ UNCHANGED rtx
              ELSE rpc' = "handle" /\ rtx' = c
    /\ UNCHANGED <<tableVars, machineVars, done, callVars, closeVars>>

\* handleSegmentACK: any client transaction with this invoke ID claims the PDU,
\* whoever sent it.  Without one the PDU belongs to the server side.
HandleSegmentACK ==
    /\ rpc = "idle"
    /\ \E in \in Network :
         /\ in.type = "SegmentACK"
         /\ clientTransactions[in.invokeID] # NoCall
         /\ rin' = in
    /\ rpc' = "failLookup"
    /\ UNCHANGED <<tableVars, machineVars, done, callVars, rtx, closeVars>>

\* The receive loop is done with the PDU.
Drop == rpc' = "idle" /\ rin' = NoPDU /\ rtx' = NoCall

\* failTransaction looks the transaction up again, under a lock of its own.
FailTransaction ==
    /\ rpc = "failLookup"
    /\ LET c == clientTransactions[rin.invokeID] IN
       IF c # NoCall /\ Matches(c, rin)
         THEN rpc' = "handle" /\ rtx' = c /\ UNCHANGED rin
         ELSE Drop
    /\ UNCHANGED <<tableVars, machineVars, done, callVars, closeVars>>

\* Handle(event), the switch on m.state: outside AwaitResponse it fails and
\* the PDU is dropped.
RecvEnterHandle ==
    /\ rpc = "handle"
    /\ \/ state[rtx] = "AwaitResponse" /\ rpc' = "apply" /\ UNCHANGED <<rin, rtx>>
       \/ state[rtx] # "AwaitResponse" /\ Drop
    /\ UNCHANGED <<tableVars, machineVars, done, callVars, closeVars>>

\* handleInAwaitResponseState: the state the event leads to.
NextState(in) == IF in.type = "ACK" THEN "Completed" ELSE "Aborted"

RecvApply ==
    /\ rpc = "apply"
    /\ state' = [state EXCEPT ![rtx] = NextState(rin)]
    /\ rpc' = "finish"
    /\ UNCHANGED <<tableVars, retryCount, done, callVars, rin, rtx, closeVars>>

\* finishClientTransaction(in.InvokeID)
RecvFinish ==
    /\ rpc = "finish"
    /\ Delete(rin.invokeID)
    /\ rpc' = "deliver"
    /\ UNCHANGED <<closed, nextInvokeID, machineVars, done, callVars, rin, rtx,
                   closeVars>>

\* buildConfirm and buildFailureConfirm
Confirm(in) ==
    Value(IF in.type \in {"SegmentedACK", "SegmentACK"}
            THEN "SegmentationNotSupported" ELSE in.type, in.req)

\* tx.done <- *output.Confirm, which blocks while the slot is taken.
RecvDeliver ==
    /\ rpc = "deliver"
    /\ done[rtx] = Nothing
    /\ done' = [done EXCEPT ![rtx] = Confirm(rin)]
    /\ Drop
    /\ UNCHANGED <<tableVars, machineVars, callVars, closeVars>>

Receiver ==
    \/ CompleteTransaction \/ HandleSegmentACK \/ FailTransaction
    \/ RecvEnterHandle \/ RecvApply \/ RecvFinish \/ RecvDeliver

-----------------------------------------------------------------------------
(* Close.  A second call finds closed set and returns: no step. *)

\* Mutant of SetClosed: the flag is never set.
SetClosed_forgotten == UNCHANGED closed

SetClosed == closed' = TRUE

\* The critical section: set closed and take the whole table.
Close ==
    /\ ~closed
    /\ SetClosed
    /\ pending' = {c \in Calls : Registered(c)}
    /\ clientTransactions' = [i \in InvokeIDs |-> NoCall]
    /\ cpc' = "next"
    /\ UNCHANGED <<nextInvokeID, machineVars, done, callVars, recvVars, ctx>>

\* Mutant of AfterSwitch: a machine that has nothing to abort gets no answer.
AfterSwitch_idleSkipped(c) == IF state[c] = "AwaitResponse" THEN "apply" ELSE "next"

\* Handle(Close) only has something to assign in AwaitResponse.
AfterSwitch(c) == IF state[c] = "AwaitResponse" THEN "apply" ELSE "deliver"

\* for _, tx := range pending (in any order): the switch of Handle(Close).
CloseEnterHandle ==
    /\ cpc = "next"
    /\ \E c \in pending :
         /\ ctx' = c
         /\ pending' = pending \ {c}
         /\ cpc' = AfterSwitch(c)
    /\ UNCHANGED <<tableVars, machineVars, done, callVars, recvVars>>

CloseApply ==
    /\ cpc = "apply"
    /\ state' = [state EXCEPT ![ctx] = "Aborted"]
    /\ cpc' = "deliver"
    /\ UNCHANGED <<tableVars, retryCount, done, callVars, recvVars, pending, ctx>>

\* tx.done <- ErrASEClosed, which blocks while the slot is taken.
CloseDeliver ==
    /\ cpc = "deliver"
    /\ done[ctx] = Nothing
    /\ done' = [done EXCEPT ![ctx] = Local("ASEClosed")]
    /\ cpc' = "next"
    /\ ctx' = NoCall
    /\ UNCHANGED <<tableVars, machineVars, callVars, recvVars, pending>>

CloseReturn ==
    /\ cpc = "next"
    /\ pending = {}
    /\ cpc' = "returned"
    /\ UNCHANGED <<tableVars, machineVars, done, callVars, recvVars, pending, ctx>>

Closer ==
    Close \/ CloseEnterHandle \/ CloseApply \/ CloseDeliver \/ CloseReturn

-----------------------------------------------------------------------------
Next == (\E c \in Calls : Caller(c)) \/ Receiver \/ Closer

Spec == Init /\ [][Next]_vars

\* The Go scheduler runs every goroutine that can run, and a timer that was
\* armed fires.  Nobody owes a call, a cancelled context, a PDU or a Close.
Fairness ==
    /\ \A c \in Calls : WF_vars(CallerRuns(c))
    /\ WF_vars(FailTransaction \/ RecvEnterHandle \/ RecvApply \/ RecvFinish
               \/ RecvDeliver)
    /\ WF_vars(CloseEnterHandle \/ CloseApply \/ CloseDeliver \/ CloseReturn)

FairSpec == Spec /\ Fairness
-----------------------------------------------------------------------------
(* Properties *)

Values == [kind : Outcomes \cup {NoOutcome}, req : Calls \cup {NoCall}]

PDUs == [type : PDUTypes, invokeID : InvokeIDs, src : {Peer[c] : c \in Calls},
         service : {Service[c] : c \in Calls}, req : Calls \cup {NoCall}]

\* Every variable stays in its range: in particular the table only ever holds
\* transactions of known calls and the loop only works on decoded PDUs.
TypeOK ==
    /\ closed \in BOOLEAN
    /\ nextInvokeID \in InvokeIDs
    /\ clientTransactions \in [InvokeIDs -> Calls \cup {NoCall}]
    /\ state \in [Calls -> MachineStates]
    /\ retryCount \in [Calls -> 0 .. MaxRetries]
    /\ done \in [Calls -> Values]
    /\ pc \in [Calls -> {"start", "handleSend", "send", "wait", "cannotSend",
                         "ctxClose", "timeout", "finish", "returned"}]
    /\ txID \in [Calls -> InvokeIDs \cup {NoID}]
    /\ result \in [Calls -> Values]
    /\ sent \in [Calls -> 0 .. MaxRetries + 1]
    /\ rpc \in {"idle", "failLookup", "handle", "apply", "finish", "deliver"}
    /\ rin \in PDUs \cup {NoPDU}
    /\ rtx \in Calls \cup {NoCall}
    /\ cpc \in {"open", "next", "apply", "deliver", "returned"}
    /\ pending \in SUBSET Calls
    /\ ctx \in Calls \cup {NoCall}

\* startTransaction's limit: never more than MaxConcurrentInvokes transactions
\* are registered, however calls, answers and late finishes interleave.
InvokesBounded == Cardinality(InUse) <= MaxInvokes

\* No call leaves its transaction behind: whichever of the seven ways out of
\* BeginConfirmedServiceRequest a call took, the table no longer holds its
\* transaction (a leak would eat MaxConcurrentInvokes for good).
NoLeak == \A c \in Calls : pc[c] = "returned" => ~Registered(c)

\* Close is final for the table: nothing is registered once closed is set, so
\* no transaction can miss the ErrASEClosed that Close hands out.
ClosedTableEmpty == closed => InUse = {}

\* Before Close the receive loop never blocks on a done channel, although the
\* caller may be gone: a transaction is answered at most once.
ReceiverNotBlocked == ~closed /\ rpc = "deliver" => done[rtx] = Nothing

\* A service answer that a call returns came from the peer, the service and
\* the invoke ID of that call, also when invoke IDs wrap and late or
\* duplicated answers of an earlier holder of the ID arrive.
AnswerMatches ==
    \A c \in Calls :
        result[c].kind \in {"ACK", "Error"} =>
            LET r == result[c].req IN
            /\ r # NoCall
            /\ sent[r] > 0
            /\ Peer[r] = Peer[c] /\ Service[r] = Service[c] /\ txID[r] = txID[c]

\* No invoke ID has been given out twice so far.
FreshIDs ==
    \A c, d \in Calls : c # d /\ txID[c] # NoID => txID[c] # txID[d]

\* While no invoke ID has been reused, a call that waits can still be answered:
\* it is in the table, or its answer is in its channel, or the receive loop or
\* Close is about to put one there.
NeverOrphaned ==
    FreshIDs =>
        \A c \in Calls :
            pc[c] = "wait" =>
                \/ Registered(c)
                \/ done[c] # Nothing
                \/ rpc = "deliver" /\ rtx = c
                \/ c \in pending
                \/ cpc \in {"apply", "deliver"} /\ ctx = c

\* BeginConfirmedServiceRequest always returns: retries are bounded and every
\* wait has a timer, even when nothing is ever received and after Close.
CallsReturn ==
    \A c \in Calls : pc[c] # "start" ~> pc[c] = "returned"

\* ase.go: "Close stops the aseImpl and fails all pending transactions."
\* Once called, Close comes to its end.
CloseReturns == closed ~> cpc = "returned"

\* The client side implements ConfirmedService: a call is open from the moment
\* it is registered until it returns.
phase == [c \in Calls |-> CASE pc[c] = "start" -> "new"
                             [] pc[c] = "returned" -> "returned"
                             [] OTHER -> "open"]

outcome == [c \in Calls |-> IF pc[c] = "returned" THEN result[c].kind ELSE NoOutcome]

Abstract == INSTANCE ConfirmedService WITH transmissions <- sent

ImplementsConfirmedService == Abstract!Spec
=============================================================================
