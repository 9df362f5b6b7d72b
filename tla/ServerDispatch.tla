--------------------------- MODULE ServerDispatch ---------------------------
(***************************************************************************)
(* How the ASE serves requests: handleConfirmedRequest, dispatchToHandler, *)
(* sendConfirmedServerOutput and handleUnconfirmedRequest of apdu/ase.go,  *)
(* with the await-response state of confirmedServerMachine                 *)
(* (apdu/state_machine_server.go), which chooses the answer.               *)
(*                                                                         *)
(* OnInboundNPDU may be called by several goroutines at a time.  A step    *)
(* ends where another goroutine can come in: at ASE.mu, in the handler, in *)
(* SendNPDU.  Requests that came in segments arrive here assembled         *)
(* (SegmentedReceive); segmented responses end elsewhere                   *)
(* (SegmentedTransmit).                                                    *)
(***************************************************************************)
EXTENDS Naturals

CONSTANTS
    Threads,         \* goroutines in OnInboundNPDU
    Keys,            \* segmentedServerKey: source address and invoke ID
    Services,        \* service choices
    Requests,        \* confirmed requests that may arrive
    Lengths,         \* lengths of the payloads handlers respond with
    LocalLimit,      \* ASEConfig.MaxAPDUSizeAccepted; 0: unlimited
    LocalTransmit    \* ASEConfig.Segmentation allows to transmit segments

\* maxSegmentsAcceptedLimit; 0: unspecified.
SegmentLimits == {0, 2, 4, 8, 16, 32, 64, 65}

\* A decoded confirmed request, whole or assembled from segments; maxAPDU and
\* maxSegments are what its sender accepts.
RequestType ==
    [key : Keys, service : Services, assembled : BOOLEAN, accepts : BOOLEAN,
     maxSegments : SegmentLimits, maxAPDU : {50, 128, 206, 480, 1024, 1476}]

ASSUME RequestsAssumption == Requests \subseteq RequestType
ASSUME LengthsAssumption == Lengths \subseteq Nat
ASSUME LocalLimitAssumption == LocalLimit \in Nat
ASSUME LocalTransmitAssumption == LocalTransmit \in BOOLEAN

ResponseTypes == {"ACK", "Error", "Reject", "Abort"}    \* ConfirmedResponseType
Unknown == "unknown"                                    \* any other value of it

VARIABLES
    confirmedHandlers,       \* services with a handler
    unconfirmedHandlers,
    closed,                  \* Close was called
    inFlightServerRequests,  \* keys
    responding,              \* keys in outboundSegmentedServerEntries
    pc,                      \* of each thread
    req,                     \* the request it serves
    state,                   \* of the machine it serves it with, until it has answered
    out,                     \* the answer the machine has chosen
    err,                     \* the error it returns
    answered                 \* the answer has been sent

tables == <<confirmedHandlers, unconfirmedHandlers, closed>>
vars == <<tables, inFlightServerRequests, responding, pc, req, state, out, err, answered>>

NoRequest == [key |-> "none"]

\* An answer: its type, the length of its payload and the number of segments.
PDU(type, len, segments) == [type |-> type, len |-> len, segments |-> segments]
NoPDU == PDU("none", 0, 0)

Init ==
    /\ confirmedHandlers = {} /\ unconfirmedHandlers = {}
    /\ closed = FALSE
    /\ inFlightServerRequests = {}
    /\ responding = {}
    /\ pc = [t \in Threads |-> "idle"]
    /\ req = [t \in Threads |-> NoRequest]
    /\ state = [t \in Threads |-> "Idle"]
    /\ out = [t \in Threads |-> NoPDU]
    /\ err = [t \in Threads |-> "nil"]
    /\ answered = [t \in Threads |-> FALSE]

-----------------------------------------------------------------------------
(* The size of a response *)

Smaller(a, b) == IF a < b THEN a ELSE b

ResponseAPDULimit(r) ==
    IF LocalLimit = 0 THEN r.maxAPDU ELSE Smaller(r.maxAPDU, LocalLimit)

\* maxAPDUSizeExceeded compares the payload alone.
MaxAPDUSizeExceeded(r, len) == len > ResponseAPDULimit(r)

\* segmentedResponsePayloadLimit: the first segment carries the service choice.
FirstLimit(r) == ResponseAPDULimit(r) - 5
ContinuationLimit(r) == ResponseAPDULimit(r) - 4

\* Mutant of SegmentCount: the header of the first segment is not counted.
SegmentCount_even(r, len) ==
    (len + ContinuationLimit(r) - 1) \div ContinuationLimit(r)

\* segmentedResponseSegmentCount, for a limit above 5 and a len above it
SegmentCount(r, len) ==
    1 + (len - FirstLimit(r) + ContinuationLimit(r) - 1) \div ContinuationLimit(r)

\* canSegmentResponse
CanSegment(r, type, len) ==
    /\ type = "ACK" /\ len > 0
    /\ LocalTransmit /\ r.accepts
    /\ ResponseAPDULimit(r) > 5
    /\ SegmentCount(r, len) \in 2 .. r.maxSegments

\* buildSegmentedComplexACKAPDUAt, over the whole payload: how many segments
\* there are from an offset on.
SegmentsFrom(r, len) ==
    LET count[offset \in 0 .. len] ==
            IF offset = len THEN 0
            ELSE 1 + count[Smaller(len,
                        offset + IF offset = 0 THEN FirstLimit(r) ELSE ContinuationLimit(r))]
    IN  count

\* resolveResponseKind
ResponseKind(type, len) ==
    IF type # "ACK" THEN type ELSE IF len > 0 THEN "ComplexACK" ELSE "SimpleACK"

\* encodeAPDU: a Reject or an Abort has room for a reason only.
Encodable(pdu) == pdu.type \in {"Reject", "Abort"} => pdu.len <= 1

-----------------------------------------------------------------------------
(* Confirmed requests *)

Goto(t, label) == pc' = [pc EXCEPT ![t] = label]

\* A fresh machine in AwaitResponse.
Serve(t, r) ==
    /\ req' = [req EXCEPT ![t] = r]
    /\ state' = [state EXCEPT ![t] = "AwaitResponse"]
    /\ Goto(t, "dispatch")

\* Mutant of InFlight: the check is missing.
InFlight_never(r) == FALSE

InFlight(r) == r.key \in inFlightServerRequests

\* handleUnsegmentedConfirmedRequest
ReceiveRequest(t, r) ==
    /\ pc[t] = "idle"
    /\ ~r.assembled /\ ~InFlight(r)
    /\ inFlightServerRequests' = inFlightServerRequests \cup {r.key}
    /\ Serve(t, r)
    /\ UNCHANGED <<tables, responding, out, err, answered>>

\* A duplicate while the handler runs changes nothing.
DropDuplicate(t, r) ==
    /\ pc[t] = "idle"
    /\ ~r.assembled /\ InFlight(r)
    /\ UNCHANGED vars

\* continueSegmentedReceive, once it has all segments
ReceiveAssembled(t, r) ==
    /\ pc[t] = "idle"
    /\ r.assembled
    /\ Serve(t, r)
    /\ UNCHANGED <<tables, inFlightServerRequests, responding, out, err, answered>>

\* The machine goes to state s and has chosen an answer to be sent.
Answer(t, s, pdu, e) ==
    /\ state' = [state EXCEPT ![t] = s]
    /\ out' = [out EXCEPT ![t] = pdu]
    /\ err' = [err EXCEPT ![t] = e]
    /\ Goto(t, "send")
    /\ UNCHANGED <<tables, inFlightServerRequests, responding, req, answered>>

\* dispatchToHandler
FindHandler(t) ==
    /\ pc[t] = "dispatch"
    /\ req[t].service \in confirmedHandlers
    /\ Goto(t, "handler")
    /\ UNCHANGED <<tables, inFlightServerRequests, responding, req, state, out, err, answered>>

NoHandler(t) ==
    /\ pc[t] = "dispatch"
    /\ req[t].service \notin confirmedHandlers
    /\ Answer(t, "Aborted", PDU("Reject", 0, 1), "handler not found")

HandlerFails(t) ==
    /\ pc[t] = "handler"
    /\ Answer(t, "Aborted", PDU("Error", 0, 1), "handler error")

\* Mutant of HandlerMisaddresses: the error is returned, the peer not told.
HandlerMisaddresses_silent(t) ==
    /\ pc[t] = "handler"
    /\ err' = [err EXCEPT ![t] = "invalid result"]
    /\ Goto(t, "return")
    /\ UNCHANGED <<tables, inFlightServerRequests, responding, req, state, out, answered>>

\* The result of the handler is for another invoke ID or destination.
HandlerMisaddresses(t) ==
    /\ pc[t] = "handler"
    /\ Answer(t, "Aborted", PDU("Reject", 0, 1), "invalid result")

Respond(t, type, len) ==
    /\ pc[t] = "handler"
    /\ type \in ResponseTypes
    /\ ~MaxAPDUSizeExceeded(req[t], len)
    /\ Answer(t, "Completed", PDU(ResponseKind(type, len), len, 1), "nil")

\* startSegmentedResponse
RespondSegmented(t, type, len) ==
    /\ pc[t] = "handler"
    /\ MaxAPDUSizeExceeded(req[t], len)
    /\ CanSegment(req[t], type, len)
    /\ Answer(t, "AwaitSegmentACK",
              PDU("ComplexACK", len, SegmentCount(req[t], len)), "nil")

RespondTooLong(t, type, len) ==
    /\ pc[t] = "handler"
    /\ MaxAPDUSizeExceeded(req[t], len)
    /\ ~CanSegment(req[t], type, len)
    /\ Answer(t, "Aborted", PDU("Abort", 1, 1), "segmentation not supported")

\* Handle refuses a response type it does not know; nothing is sent.
RespondUnknown(t, len) ==
    /\ pc[t] = "handler"
    /\ ~MaxAPDUSizeExceeded(req[t], len)
    /\ err' = [err EXCEPT ![t] = "invalid transition"]
    /\ Goto(t, "return")
    /\ UNCHANGED <<tables, inFlightServerRequests, responding, req, state, out, answered>>

\* sendConfirmedServerOutput, and syncSegmentedServerResponseEntry at its end.
\* dispatchToHandler then looks at the machine once more; should its response
\* have ended by now it returns ErrSegmentationNotSupported for nil.
Send(t) ==
    /\ pc[t] = "send"
    /\ Encodable(out[t])
    /\ answered' = [answered EXCEPT ![t] = TRUE]
    /\ responding' = IF state[t] = "AwaitSegmentACK" /\ ~closed
                       THEN responding \cup {req[t].key} ELSE responding \ {req[t].key}
    /\ Goto(t, "return")
    /\ UNCHANGED <<tables, inFlightServerRequests, req, state, out, err>>

EncodeFails(t) ==
    /\ pc[t] = "send"
    /\ ~Encodable(out[t])
    /\ err' = [err EXCEPT ![t] = "encode failure"]
    /\ Goto(t, "return")
    /\ UNCHANGED <<tables, inFlightServerRequests, responding, req, state, out, answered>>

\* SendNPDU fails, for a segment of the first window perhaps after others.
SendFails(t) ==
    /\ pc[t] = "send"
    /\ Encodable(out[t])
    /\ err' = [err EXCEPT ![t] = "transport failure"]
    /\ state' = [state EXCEPT ![t] = "Aborted"]
    /\ Goto(t, "return")
    /\ UNCHANGED <<tables, inFlightServerRequests, responding, req, out, answered>>

\* Mutants of Freed: also a request that made no mark takes it away; the mark
\* is only taken away after a success.
Freed_always(t) == {req[t].key}
Freed_onSuccess(t) == IF req[t].assembled \/ err[t] # "nil" THEN {} ELSE {req[t].key}

\* The key that the deferred function of handleUnsegmentedConfirmedRequest frees.
Freed(t) == IF req[t].assembled THEN {} ELSE {req[t].key}

Return(t) ==
    /\ pc[t] = "return"
    /\ inFlightServerRequests' = inFlightServerRequests \ Freed(t)
    /\ req' = [req EXCEPT ![t] = NoRequest]
    /\ state' = [state EXCEPT ![t] = "Idle"]
    /\ out' = [out EXCEPT ![t] = NoPDU]
    /\ err' = [err EXCEPT ![t] = "nil"]
    /\ answered' = [answered EXCEPT ![t] = FALSE]
    /\ Goto(t, "idle")
    /\ UNCHANGED <<tables, responding>>

-----------------------------------------------------------------------------
(* Unconfirmed requests, registration, and the end of segmented responses *)

\* handleUnconfirmedRequest; without a handler it returns at once.
ReceiveUnconfirmed(t, s) ==
    /\ pc[t] = "idle"
    /\ s \in unconfirmedHandlers
    /\ state' = [state EXCEPT ![t] = "AwaitResponse"]
    /\ Goto(t, "unconfirmed")
    /\ UNCHANGED <<tables, inFlightServerRequests, responding, req, out, err, answered>>

\* The handler returns; the machine is completed or aborted and given up.
UnconfirmedReturns(t) ==
    /\ pc[t] = "unconfirmed"
    /\ state' = [state EXCEPT ![t] = "Idle"]
    /\ Goto(t, "idle")
    /\ UNCHANGED <<tables, inFlightServerRequests, responding, req, out, err, answered>>

RegisterConfirmed(s) ==
    /\ s \notin confirmedHandlers
    /\ confirmedHandlers' = confirmedHandlers \cup {s}
    /\ UNCHANGED <<unconfirmedHandlers, closed, inFlightServerRequests, responding, pc, req, state, out, err, answered>>

RegisterUnconfirmed(s) ==
    /\ s \notin unconfirmedHandlers
    /\ unconfirmedHandlers' = unconfirmedHandlers \cup {s}
    /\ UNCHANGED <<confirmedHandlers, closed, inFlightServerRequests, responding, pc, req, state, out, err, answered>>

\* Acknowledged or timed out: see SegmentedTransmit.
ResponseEnds(k) ==
    /\ k \in responding
    /\ responding' = responding \ {k}
    /\ UNCHANGED <<tables, inFlightServerRequests, pc, req, state, out, err, answered>>

\* The server's part of Close: handlers go on and may still answer.
Close ==
    /\ ~closed
    /\ closed' = TRUE
    /\ responding' = {}
    /\ UNCHANGED <<confirmedHandlers, unconfirmedHandlers, inFlightServerRequests, pc, req, state, out, err, answered>>

-----------------------------------------------------------------------------

Receive(t) ==
    \/ \E r \in Requests : ReceiveRequest(t, r) \/ DropDuplicate(t, r) \/ ReceiveAssembled(t, r)
    \/ \E s \in Services : ReceiveUnconfirmed(t, s)

HandlerReturns(t) ==
    \/ HandlerFails(t) \/ HandlerMisaddresses(t)
    \/ \E len \in Lengths :
          \/ RespondUnknown(t, len)
          \/ \E type \in ResponseTypes \cup {Unknown} :
                Respond(t, type, len) \/ RespondSegmented(t, type, len) \/ RespondTooLong(t, type, len)

\* What a goroutine does without waiting for anything to arrive.
Runs(t) ==
    \/ FindHandler(t) \/ NoHandler(t) \/ HandlerReturns(t)
    \/ Send(t) \/ EncodeFails(t) \/ SendFails(t) \/ Return(t)
    \/ UnconfirmedReturns(t)

Next ==
    \/ \E t \in Threads : Receive(t) \/ Runs(t)
    \/ \E s \in Services : RegisterConfirmed(s) \/ RegisterUnconfirmed(s)
    \/ \E k \in Keys : ResponseEnds(k)
    \/ Close

Spec == Init /\ [][Next]_vars

\* Handlers return and goroutines run.
FairSpec == Spec /\ \A t \in Threads : WF_vars(Runs(t))

-----------------------------------------------------------------------------
(* Properties *)

Errors == {"nil", "handler not found", "handler error", "invalid result",
           "segmentation not supported", "invalid transition", "encode failure",
           "transport failure"}

PDUType ==
    [type : {"none", "SimpleACK", "ComplexACK", "Error", "Reject", "Abort"},
     len : Nat, segments : 0 .. 65]

\* Everything stays in its type; a response has no more than the 65 segments
\* SegmentedTransmit assumes.
TypeOK ==
    /\ confirmedHandlers \subseteq Services /\ unconfirmedHandlers \subseteq Services
    /\ closed \in BOOLEAN
    /\ inFlightServerRequests \subseteq Keys /\ responding \subseteq Keys
    /\ pc \in [Threads -> {"idle", "dispatch", "handler", "send", "return", "unconfirmed"}]
    /\ req \in [Threads -> RequestType \cup {NoRequest}]
    /\ state \in [Threads -> {"Idle", "AwaitResponse", "AwaitSegmentACK", "Completed", "Aborted"}]
    /\ out \in [Threads -> PDUType]
    /\ err \in [Threads -> Errors]
    /\ answered \in [Threads -> BOOLEAN]

Serving(t) == pc[t] \in {"dispatch", "handler", "send", "return"}
Marked(t) == Serving(t) /\ ~req[t].assembled

\* The duplicate check of handleUnsegmentedConfirmedRequest: of the goroutines
\* with an unsegmented request only one at a time serves a given source and
\* invoke ID, from the lookup of the handler to the answer.
OneAtATime ==
    \A t, u \in Threads : Marked(t) /\ Marked(u) /\ req[t].key = req[u].key => t = u

\* A key is marked as long as such a goroutine serves it and no longer, on
\* every path through errors, and whatever assembled requests with the same
\* key do: nothing is freed for another goroutine, nothing stays behind.
MarksExact == inFlightServerRequests = {req[t].key : t \in {u \in Threads : Marked(u)}}

\* A served request is answered, exactly when no failure to encode or to send
\* the answer is reported: the errors of the handler, a result for somebody
\* else or one that is too long are answered too, and Close changes nothing.
Answered ==
    \A t \in Threads : pc[t] = "return" =>
        (answered[t] <=>
           err[t] \notin {"invalid transition", "encode failure", "transport failure"})

\* segmentedResponseSegmentCount, by which a response is admitted, is the
\* number of segments that buildSegmentedComplexACKAPDUAt makes of it, and
\* the requester accepts that many.
SegmentsAsCounted ==
    \A t \in Threads : pc[t] = "send" /\ state[t] = "AwaitSegmentACK" =>
        /\ out[t].segments = SegmentsFrom(req[t], out[t].len)[0]
        /\ req[t].accepts /\ out[t].segments <= req[t].maxSegments

\* A source that repeats its request is not ignored for ever: a key that is
\* marked becomes free, if handlers return.
KeysFreed ==
    \A k \in Keys : k \in inFlightServerRequests ~> k \notin inFlightServerRequests

\* An unsegmented answer, with its header of three bytes, fits into the APDU
\* size that its requester accepts.
FitsRequester ==
    \A t \in Threads : pc[t] = "send" /\ out[t].segments = 1 =>
        3 + out[t].len <= req[t].maxAPDU
=============================================================================
