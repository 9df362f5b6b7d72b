------------------------ MODULE ServerDispatchProof ------------------------
(***************************************************************************)
(* Proofs about ServerDispatch, for any threads, keys, requests and sizes. *)
(***************************************************************************)
EXTENDS ServerDispatch, WellFoundedInduction, TLAPS

Failures == {"invalid transition", "encode failure", "transport failure"}

\* What a thread holds at each point of its program.
ThreadOK(t) ==
    /\ Serving(t) => req[t] \in RequestType
    /\ pc[t] \in {"idle", "dispatch", "handler", "send", "unconfirmed"} => ~answered[t]
    /\ pc[t] = "send" => err[t] \notin Failures

ThreadsOK == \A t \in Threads : ThreadOK(t)

\* OneAtATime and MarksExact, with the set of marks spelled out.
MarksOK ==
    /\ OneAtATime
    /\ \A k \in Keys :
          k \in inFlightServerRequests <=> \E t \in Threads : Marked(t) /\ req[t].key = k

\* The inductive invariant.
IInv == TypeOK /\ ThreadsOK /\ MarksOK /\ Answered

-----------------------------------------------------------------------------

\* The limits a request can name are at most 65 segments.
LEMMA LimitsSmall == \A r \in RequestType : r.maxSegments \in 0 .. 65 /\ r.key \in Keys
  BY DEF RequestType, SegmentLimits

\* A response that may be segmented (canSegmentResponse) has 2 to 65 segments.
LEMMA CountSmall ==
    ASSUME NEW r \in RequestType, NEW type, NEW len, CanSegment(r, type, len)
    PROVE  SegmentCount(r, len) \in 2 .. 65
  <1>1. SegmentCount(r, len) \in 2 .. r.maxSegments
    BY DEF CanSegment
  <1>2. r.maxSegments \in 0 .. 65
    BY LimitsSmall
  <1> HIDE DEF SegmentCount
  <1> QED
    BY <1>1, <1>2

\* The machine answers with a PDU (resolveResponseKind).
LEMMA KindOK ==
    ASSUME NEW type \in ResponseTypes, NEW len
    PROVE  ResponseKind(type, len) \in {"SimpleACK", "ComplexACK", "Error", "Reject", "Abort"}
  BY DEF ResponseTypes, ResponseKind

\* Choosing an answer keeps types and what threads hold.
LEMMA AnswerStep ==
    ASSUME TypeOK, ThreadsOK, NEW t \in Threads, NEW s, NEW pdu \in PDUType, NEW e \in Errors,
           s \in {"AwaitSegmentACK", "Completed", "Aborted"},
           pc[t] \in {"dispatch", "handler"}, e \notin Failures,
           Answer(t, s, pdu, e)
    PROVE  TypeOK' /\ ThreadsOK'
  <1>1. TypeOK'
    BY DEF TypeOK, Answer, Goto, tables
  <1>2. ASSUME NEW u \in Threads PROVE ThreadOK(u)'
    <2>1. CASE u = t
      BY <2>1 DEF TypeOK, ThreadsOK, ThreadOK, Serving, Answer, Goto
    <2>2. CASE u # t
      BY <2>2 DEF TypeOK, ThreadsOK, ThreadOK, Serving, Answer, Goto
    <2> QED BY <2>1, <2>2
  <1> QED BY <1>1, <1>2 DEF ThreadsOK

\* Threads that go on serving their requests keep the marks.
LEMMA MarksKept ==
    ASSUME MarksOK, inFlightServerRequests' = inFlightServerRequests,
           \A t \in Threads : Marked(t)' <=> Marked(t),
           \A t \in Threads : Marked(t) => req'[t] = req[t]
    PROVE  MarksOK'
  BY DEF MarksOK, OneAtATime

\* A step that takes no thread to its return keeps Answered.
LEMMA AnsweredKept ==
    ASSUME Answered,
           \A t \in Threads : pc'[t] = "return" =>
               pc[t] = "return" /\ answered'[t] = answered[t] /\ err'[t] = err[t]
    PROVE  Answered'
  BY DEF Answered

-----------------------------------------------------------------------------

\* What the actions between receiving and returning leave alone.
LEMMA SameMarks ==
    ASSUME IInv, NEW t \in Threads, pc[t] \in {"dispatch", "handler", "send"},
           NEW label \in {"handler", "send", "return"}, Goto(t, label),
           UNCHANGED <<req, inFlightServerRequests>>
    PROVE  MarksOK'
  <1>1. \A u \in Threads : Marked(u)' <=> Marked(u)
    BY DEF IInv, TypeOK, Goto, Marked, Serving
  <1> QED BY <1>1, MarksKept DEF IInv

\* Choosing an answer keeps the invariant.
LEMMA AnswerInv ==
    ASSUME IInv, NEW t \in Threads, NEW s, NEW pdu \in PDUType, NEW e \in Errors,
           s \in {"AwaitSegmentACK", "Completed", "Aborted"},
           pc[t] \in {"dispatch", "handler"}, e \notin Failures,
           Answer(t, s, pdu, e)
    PROVE  IInv'
  <1>1. TypeOK' /\ ThreadsOK'
    BY AnswerStep DEF IInv
  <1>2. MarksOK'
    BY SameMarks DEF Answer
  <1>3. Answered'
    <2>1. \A u \in Threads : pc'[u] = "return" =>
               pc[u] = "return" /\ answered'[u] = answered[u] /\ err'[u] = err[u]
      BY DEF IInv, TypeOK, Answer, Goto
    <2> QED BY <2>1, AnsweredKept DEF IInv
  <1> QED BY <1>1, <1>2, <1>3 DEF IInv

\* The answers of dispatchToHandler.
LEMMA HandlerInv ==
    ASSUME IInv, NEW t \in Threads, NoHandler(t) \/ HandlerReturns(t)
    PROVE  IInv'
  <1> DEFINE Fixed(type, len) == PDU(type, len, 1)
  <1>1. \A type \in {"Error", "Reject", "Abort", "SimpleACK", "ComplexACK"}, len \in Nat :
          Fixed(type, len) \in PDUType
    BY DEF PDU, PDUType
  <1>2. CASE NoHandler(t)
    <2>1. Answer(t, "Aborted", PDU("Reject", 0, 1), "handler not found")
      BY <1>2 DEF NoHandler
    <2>2. PDU("Reject", 0, 1) \in PDUType
      BY <1>1
    <2> QED BY <1>2, <2>1, <2>2, AnswerInv DEF NoHandler, Errors, Failures
  <1>3. CASE HandlerFails(t)
    <2>1. PDU("Error", 0, 1) \in PDUType
      BY <1>1
    <2> QED BY <1>3, <2>1, AnswerInv DEF HandlerFails, Errors, Failures
  <1>4. CASE HandlerMisaddresses(t)
    <2>1. PDU("Reject", 0, 1) \in PDUType
      BY <1>1
    <2> QED BY <1>4, <2>1, AnswerInv DEF HandlerMisaddresses, Errors, Failures
  <1>5. ASSUME NEW len \in Lengths, RespondUnknown(t, len)
        PROVE  IInv'
    <2>1. TypeOK'
      BY <1>5 DEF IInv, TypeOK, RespondUnknown, Goto, tables, Errors
    <2>2. ThreadsOK'
      <3> SUFFICES ASSUME NEW u \in Threads PROVE ThreadOK(u)'
        BY DEF ThreadsOK
      <3>1. ThreadOK(u) BY DEF IInv, ThreadsOK
      <3> QED BY <1>5, <3>1 DEF IInv, TypeOK, ThreadOK, Serving, RespondUnknown, Goto
    <2>3. MarksOK'
      BY <1>5, SameMarks DEF RespondUnknown
    <2>4. Answered'
      <3> SUFFICES ASSUME NEW u \in Threads, pc'[u] = "return"
                   PROVE  answered'[u] <=> err'[u] \notin Failures
        BY DEF Answered, Failures
      <3>1. CASE u = t
        BY <1>5, <3>1 DEF IInv, TypeOK, ThreadsOK, ThreadOK, RespondUnknown, Goto, Failures
      <3>2. CASE u # t
        BY <1>5, <3>2 DEF IInv, TypeOK, Answered, RespondUnknown, Goto, Failures
      <3> QED BY <3>1, <3>2
    <2> QED BY <2>1, <2>2, <2>3, <2>4 DEF IInv
  <1>6. ASSUME NEW len \in Lengths, NEW type, Respond(t, type, len)
        PROVE  IInv'
    <2>1. type \in ResponseTypes BY <1>6 DEF Respond
    <2>2. len \in Nat BY LengthsAssumption
    <2>3. PICK kind \in {"SimpleACK", "ComplexACK", "Error", "Reject", "Abort"} :
            kind = ResponseKind(type, len)
      BY <2>1, KindOK
    <2>4. PDU(kind, len, 1) \in PDUType
      BY <2>2, <1>1
    <2> QED BY <1>6, <2>3, <2>4, AnswerInv DEF Respond, Errors, Failures
  <1>7. ASSUME NEW len \in Lengths, NEW type, RespondSegmented(t, type, len)
        PROVE  IInv'
    <2>1. req[t] \in RequestType
      BY <1>7 DEF IInv, ThreadsOK, ThreadOK, Serving, RespondSegmented
    <2>2. PICK n \in 2 .. 65 : n = SegmentCount(req[t], len)
      BY <1>7, <2>1, CountSmall DEF RespondSegmented
    <2>3. len \in Nat BY LengthsAssumption
    <2>4. PDU("ComplexACK", len, n) \in PDUType
      BY <2>3 DEF PDU, PDUType
    <2>5. Answer(t, "AwaitSegmentACK", PDU("ComplexACK", len, n), "nil") /\ pc[t] = "handler"
      BY <1>7, <2>2 DEF RespondSegmented
    <2> QED BY <2>4, <2>5, AnswerInv DEF Errors, Failures
  <1>8. ASSUME NEW len \in Lengths, NEW type, RespondTooLong(t, type, len)
        PROVE  IInv'
    <2>1. PDU("Abort", 1, 1) \in PDUType
      BY <1>1
    <2> QED BY <1>8, <2>1, AnswerInv DEF RespondTooLong, Errors, Failures
  <1> QED
    BY <1>2, <1>3, <1>4, <1>5, <1>6, <1>7, <1>8 DEF HandlerReturns

\* The ends of sendConfirmedServerOutput.
LEMMA SendInv ==
    ASSUME IInv, NEW t \in Threads, Send(t) \/ EncodeFails(t) \/ SendFails(t)
    PROVE  IInv'
  <1>1. req[t] \in RequestType /\ req[t].key \in Keys /\ ThreadOK(t) /\ pc[t] = "send"
    BY LimitsSmall DEF IInv, ThreadsOK, ThreadOK, Serving, Send, EncodeFails, SendFails
  <1>2. TypeOK'
    <2>1. CASE Send(t)
      BY <1>1, <2>1 DEF IInv, TypeOK, Send, Goto, tables
    <2>2. CASE EncodeFails(t)
      BY <2>2 DEF IInv, TypeOK, EncodeFails, Goto, tables, Errors
    <2>3. CASE SendFails(t)
      BY <2>3 DEF IInv, TypeOK, SendFails, Goto, tables, Errors
    <2> QED BY <2>1, <2>2, <2>3
  <1>3. /\ Goto(t, "return")
        /\ UNCHANGED <<req, inFlightServerRequests>>
        /\ \A u \in Threads \ {t} :
              pc'[u] = pc[u] /\ answered'[u] = answered[u] /\ err'[u] = err[u]
    BY DEF IInv, TypeOK, Send, EncodeFails, SendFails, Goto
  <1>4. ThreadsOK'
    <2> SUFFICES ASSUME NEW u \in Threads PROVE ThreadOK(u)'
      BY DEF ThreadsOK
    <2>1. CASE u = t
      BY <1>1, <1>3, <2>1 DEF IInv, TypeOK, ThreadOK, Serving, Goto
    <2>2. CASE u # t
      BY <1>3, <2>2 DEF IInv, ThreadsOK, ThreadOK, Serving
    <2> QED BY <2>1, <2>2
  <1>5. MarksOK'
    BY <1>1, <1>3, SameMarks
  <1>6. Answered'
    <2> SUFFICES ASSUME NEW u \in Threads, pc'[u] = "return"
                 PROVE  answered'[u] <=> err'[u] \notin Failures
      BY DEF Answered, Failures
    <2>1. CASE u # t
      BY <1>3, <2>1 DEF IInv, Answered, Failures
    <2>2. CASE u = t /\ Send(t)
      BY <1>1, <2>2 DEF IInv, TypeOK, ThreadOK, Send
    <2>3. CASE u = t /\ EncodeFails(t)
      BY <1>1, <2>3 DEF IInv, TypeOK, ThreadOK, EncodeFails, Failures
    <2>4. CASE u = t /\ SendFails(t)
      BY <1>1, <2>4 DEF IInv, TypeOK, ThreadOK, SendFails, Failures
    <2> QED BY <2>1, <2>2, <2>3, <2>4
  <1> QED BY <1>2, <1>4, <1>5, <1>6 DEF IInv

\* The first and the last step of a request: marking and freeing its key.
LEMMA MarkInv ==
    ASSUME IInv, NEW t \in Threads,
           \/ \E r \in Requests : ReceiveRequest(t, r) \/ ReceiveAssembled(t, r)
           \/ Return(t)
    PROVE  IInv'
  <1>1. ASSUME NEW r \in Requests, ReceiveRequest(t, r) \/ ReceiveAssembled(t, r)
        PROVE  IInv'
    <2>1. r \in RequestType /\ r.key \in Keys
      BY RequestsAssumption, LimitsSmall
    <2>2. TypeOK'
      BY <1>1, <2>1 DEF IInv, TypeOK, ReceiveRequest, ReceiveAssembled, Serve, Goto, tables
    <2>3. /\ Serve(t, r) /\ pc[t] = "idle" /\ UNCHANGED <<out, err, answered>>
          /\ pc' = [pc EXCEPT ![t] = "dispatch"] /\ req' = [req EXCEPT ![t] = r]
      BY <1>1 DEF ReceiveRequest, ReceiveAssembled, Serve, Goto
    <2>4. ThreadsOK'
      <3> SUFFICES ASSUME NEW u \in Threads PROVE ThreadOK(u)'
        BY DEF ThreadsOK
      <3>1. ThreadOK(u) BY DEF IInv, ThreadsOK
      <3> QED BY <2>1, <2>3, <3>1 DEF IInv, TypeOK, ThreadOK, Serving, Serve
    <2>5. Answered'
      <3>1. \A u \in Threads : pc'[u] = "return" =>
               pc[u] = "return" /\ answered'[u] = answered[u] /\ err'[u] = err[u]
        BY <2>3 DEF IInv, TypeOK, Serve
      <3> QED BY <3>1, AnsweredKept DEF IInv
    <2>6. /\ ~Marked(t) /\ (Marked(t)' <=> ~r.assembled) /\ req'[t] = r
          /\ \A u \in Threads \ {t} : (Marked(u)' <=> Marked(u)) /\ req'[u] = req[u]
      BY <2>3 DEF IInv, TypeOK, Marked, Serving
    <2>7. MarksOK'
      <3>1. CASE ReceiveAssembled(t, r)
        BY <2>6, <3>1, MarksKept DEF IInv, ReceiveAssembled
      <3>2. CASE ReceiveRequest(t, r)
        <4>1. /\ ~r.assembled /\ r.key \notin inFlightServerRequests
              /\ inFlightServerRequests' = inFlightServerRequests \cup {r.key}
          BY <3>2 DEF ReceiveRequest, InFlight
        <4>2. \A u \in Threads \ {t} : Marked(u) => req[u].key # r.key
          BY <2>1, <4>1 DEF IInv, MarksOK
        <4>3. OneAtATime'
          BY <2>6, <4>1, <4>2 DEF IInv, MarksOK, OneAtATime
        <4>4. ASSUME NEW k \in Keys
              PROVE  k \in inFlightServerRequests' <=>
                        \E u \in Threads : Marked(u)' /\ req'[u].key = k
          <5>1. k \in inFlightServerRequests <=> \E u \in Threads : Marked(u) /\ req[u].key = k
            BY DEF IInv, MarksOK
          <5> QED BY <2>6, <4>1, <5>1
        <4> QED BY <4>3, <4>4 DEF MarksOK
      <3> QED BY <1>1, <3>1, <3>2
    <2> QED BY <2>2, <2>4, <2>5, <2>7 DEF IInv
  <1>2. CASE Return(t)
    <2>1. TypeOK'
      <3>1. NoPDU \in PDUType BY DEF NoPDU, PDU, PDUType
      <3> QED BY <1>2, <3>1 DEF IInv, TypeOK, Return, Goto, tables, Errors
    <2>2. ThreadsOK'
      <3> SUFFICES ASSUME NEW u \in Threads PROVE ThreadOK(u)'
        BY DEF ThreadsOK
      <3>1. ThreadOK(u) BY DEF IInv, ThreadsOK
      <3>2. CASE u = t
        BY <1>2, <3>1, <3>2 DEF IInv, TypeOK, ThreadOK, Serving, Return, Goto
      <3>3. CASE u # t
        BY <1>2, <3>1, <3>3 DEF IInv, TypeOK, ThreadOK, Serving, Return, Goto
      <3> QED BY <3>2, <3>3
    <2>3. Answered'
      <3>1. \A u \in Threads : pc'[u] = "return" =>
               pc[u] = "return" /\ answered'[u] = answered[u] /\ err'[u] = err[u]
        BY <1>2 DEF IInv, TypeOK, Return, Goto
      <3> QED BY <3>1, AnsweredKept DEF IInv
    <2>4. /\ ~Marked(t)' /\ (Marked(t) <=> ~req[t].assembled)
          /\ \A u \in Threads \ {t} : (Marked(u)' <=> Marked(u)) /\ req'[u] = req[u]
      BY <1>2 DEF IInv, TypeOK, Marked, Serving, Return, Goto
    <2>5. inFlightServerRequests' =
            inFlightServerRequests \ (IF Marked(t) THEN {req[t].key} ELSE {})
      BY <1>2, <2>4 DEF Return, Freed
    <2>6. OneAtATime'
      BY <2>4 DEF IInv, MarksOK, OneAtATime
    <2>7. ASSUME NEW k \in Keys
          PROVE  k \in inFlightServerRequests' <=>
                    \E u \in Threads : Marked(u)' /\ req'[u].key = k
      <3>1. k \in inFlightServerRequests <=> \E u \in Threads : Marked(u) /\ req[u].key = k
        BY DEF IInv, MarksOK
      <3>2. \A u \in Threads \ {t} : Marked(u) /\ Marked(t) => req[u].key # req[t].key
        BY DEF IInv, MarksOK, OneAtATime
      <3> QED BY <2>4, <2>5, <3>1, <3>2
    <2> QED BY <2>1, <2>2, <2>3, <2>6, <2>7 DEF IInv, MarksOK
  <1> QED BY <1>1, <1>2

\* The remaining actions.
LEMMA OtherInv ==
    ASSUME IInv,
           \/ \E t \in Threads :
                 \/ FindHandler(t) \/ UnconfirmedReturns(t)
                 \/ \E s \in Services : ReceiveUnconfirmed(t, s)
           \/ \E s \in Services : RegisterConfirmed(s) \/ RegisterUnconfirmed(s)
           \/ \E k \in Keys : ResponseEnds(k)
           \/ Close
           \/ UNCHANGED vars
    PROVE  IInv'
  <1>1. ASSUME NEW t \in Threads, FindHandler(t)
        PROVE  IInv'
    <2>1. TypeOK'
      BY <1>1 DEF IInv, TypeOK, FindHandler, Goto, tables
    <2>2. ThreadsOK'
      BY <1>1 DEF IInv, TypeOK, ThreadsOK, ThreadOK, Serving, FindHandler, Goto
    <2>3. MarksOK'
      BY <1>1, SameMarks DEF FindHandler
    <2>4. Answered'
      BY <1>1, AnsweredKept DEF IInv, TypeOK, FindHandler, Goto
    <2> QED BY <2>1, <2>2, <2>3, <2>4 DEF IInv
  <1>2. ASSUME NEW t \in Threads,
               UnconfirmedReturns(t) \/ \E s \in Services : ReceiveUnconfirmed(t, s)
        PROVE  IInv'
    <2>1. PICK a \in {"idle", "unconfirmed"}, b \in {"idle", "unconfirmed"} :
            /\ pc[t] = a /\ pc' = [pc EXCEPT ![t] = b]
            /\ UNCHANGED <<tables, inFlightServerRequests, responding, req, out, err, answered>>
            /\ \/ state' = [state EXCEPT ![t] = "Idle"]
               \/ state' = [state EXCEPT ![t] = "AwaitResponse"]
      BY <1>2 DEF UnconfirmedReturns, ReceiveUnconfirmed, Goto
    <2>2. TypeOK'
      BY <2>1 DEF IInv, TypeOK, tables
    <2>3. ThreadsOK'
      BY <2>1 DEF IInv, TypeOK, ThreadsOK, ThreadOK, Serving
    <2>4. MarksOK'
      <3>1. \A u \in Threads : Marked(u)' <=> Marked(u)
        BY <2>1 DEF IInv, TypeOK, Marked, Serving
      <3> QED BY <2>1, <3>1, MarksKept DEF IInv
    <2>5. Answered'
      <3>1. \A u \in Threads : pc'[u] = "return" =>
               pc[u] = "return" /\ answered'[u] = answered[u] /\ err'[u] = err[u]
        BY <2>1 DEF IInv, TypeOK
      <3> QED BY <3>1, AnsweredKept DEF IInv
    <2> QED BY <2>2, <2>3, <2>4, <2>5 DEF IInv
  <1>3. ASSUME UNCHANGED <<inFlightServerRequests, pc, req, state, out, err, answered>>, TypeOK'
        PROVE  IInv'
    <2>1. ThreadsOK' BY <1>3 DEF IInv, ThreadsOK, ThreadOK, Serving
    <2>2. MarksOK'
      BY <1>3, MarksKept DEF IInv, Marked, Serving
    <2>3. Answered' BY <1>3 DEF IInv, Answered
    <2> QED BY <1>3, <2>1, <2>2, <2>3 DEF IInv
  <1>4. ASSUME NEW s \in Services, RegisterConfirmed(s) \/ RegisterUnconfirmed(s)
        PROVE  IInv'
    <2>1. TypeOK'
      BY <1>4 DEF IInv, TypeOK, RegisterConfirmed, RegisterUnconfirmed
    <2> QED BY <1>3, <1>4, <2>1 DEF RegisterConfirmed, RegisterUnconfirmed
  <1>5. ASSUME NEW k \in Keys, ResponseEnds(k)
        PROVE  IInv'
    <2>1. TypeOK'
      BY <1>5 DEF IInv, TypeOK, ResponseEnds, tables
    <2> QED BY <1>3, <1>5, <2>1 DEF ResponseEnds
  <1>6. CASE UNCHANGED vars
    <2>1. TypeOK' BY <1>6 DEF IInv, TypeOK, vars, tables
    <2> QED BY <1>3, <1>6, <2>1 DEF vars
  <1>7. CASE Close
    <2>1. TypeOK' BY <1>7 DEF IInv, TypeOK, Close
    <2> QED BY <1>3, <1>7, <2>1 DEF Close
  <1> QED BY <1>1, <1>2, <1>4, <1>5, <1>6, <1>7

-----------------------------------------------------------------------------

\* IInv holds of every reachable state.
THEOREM Invariance == Spec => []IInv
  <1>1. Init => IInv
    <2> SUFFICES ASSUME Init PROVE IInv
      OBVIOUS
    <2>1. TypeOK
      <3>1. NoPDU \in PDUType BY DEF NoPDU, PDU, PDUType
      <3> QED BY <3>1 DEF Init, TypeOK, Errors
    <2>2. ThreadsOK /\ MarksOK /\ Answered
      BY DEF Init, ThreadsOK, ThreadOK, Serving, MarksOK, OneAtATime, Marked, Answered
    <2> QED BY <2>1, <2>2 DEF IInv
  <1>2. IInv /\ [Next]_vars => IInv'
    <2> SUFFICES ASSUME IInv, [Next]_vars PROVE IInv'
      OBVIOUS
    <2>1. ASSUME NEW t \in Threads, Receive(t) PROVE IInv'
      BY <2>1, MarkInv, OtherInv DEF Receive, DropDuplicate
    <2>2. ASSUME NEW t \in Threads, Runs(t) PROVE IInv'
      BY <2>2, HandlerInv, SendInv, MarkInv, OtherInv DEF Runs
    <2> QED BY <2>1, <2>2, OtherInv DEF Next
  <1> QED BY <1>1, <1>2, PTL DEF Spec

\* Types, and with them the limit of 65 segments that SegmentedTransmit assumes
\* of canSegmentResponse, for any sizes.
THEOREM TypeCorrect == Spec => []TypeOK
  <1>1. IInv => TypeOK BY DEF IInv
  <1> QED BY <1>1, Invariance, PTL

\* handleUnsegmentedConfirmedRequest never serves a key twice at a time.
THEOREM ServedOneAtATime == Spec => []OneAtATime
  <1>1. IInv => OneAtATime BY DEF IInv, MarksOK
  <1> QED BY <1>1, Invariance, PTL

\* inFlightServerRequests is exact on every path.
THEOREM MarksAreExact == Spec => []MarksExact
  <1>1. IInv => MarksExact
    <2> SUFFICES ASSUME IInv PROVE MarksExact
      OBVIOUS
    <2>1. \A t \in Threads : Marked(t) => req[t].key \in Keys
      BY LimitsSmall DEF IInv, ThreadsOK, ThreadOK, Marked
    <2>2. inFlightServerRequests \subseteq Keys BY DEF IInv, TypeOK
    <2>3. \A k \in Keys :
            k \in inFlightServerRequests <=> \E t \in Threads : Marked(t) /\ req[t].key = k
      BY DEF IInv, MarksOK
    <2> QED BY <2>1, <2>2, <2>3 DEF MarksExact
  <1> QED BY <1>1, Invariance, PTL

\* dispatchToHandler answers unless it reports that it could not.
THEOREM RequestsAnswered == Spec => []Answered
  <1>1. IInv => Answered BY DEF IInv
  <1> QED BY <1>1, Invariance, PTL

-----------------------------------------------------------------------------
(* The number of segments *)

\* A set of numbers that is not empty has a least one.
LEMMA LeastNumber ==
    ASSUME NEW T \in SUBSET Nat, T # {}
    PROVE  \E x \in T : \A y \in T : x <= y
  <1> DEFINE R == OpToRel(<, Nat)
  <1>1. IsWellFoundedOn(R, Nat)
    BY NatLessThanWellFounded
  <1>2. \A a, b \in Nat : a < b => <<a, b>> \in R
    BY DEF OpToRel
  <1> HIDE DEF R
  <1>3. PICK x \in T : \A y \in T : ~(<<y, x>> \in R)
    BY <1>1, WFMin
  <1>4. \A y \in T : ~(y < x)
    BY <1>2, <1>3
  <1> QED BY <1>4

\* Parts of a length: whole parts of size c, and one for a rest.
Parts(x, c) == (x + c - 1) \div c

\* A length is one part more than what is left of it without one.
LEMMA OnePartMore ==
    ASSUME NEW c \in Nat \ {0}, NEW x \in Nat \ {0}
    PROVE  /\ Parts(0, c) = 0
           /\ x <= c => Parts(x, c) = 1
           /\ x > c => Parts(x, c) = 1 + Parts(x - c, c)
  <1>1. Parts(0, c) = 0
    BY DEF Parts
  <1>2. x <= c => Parts(x, c) = 1
    BY DEF Parts
  <1>3. x > c => Parts(x, c) = 1 + Parts(x - c, c)
    BY DEF Parts
  <1> QED BY <1>1, <1>2, <1>3

\* The segments from an offset on, by division.
Closed(first, size, len, offset) ==
    IF offset = 0 THEN 1 + Parts(len - first, size) ELSE Parts(len - offset, size)

\* Where the next segment begins.
Following(first, size, len, offset) ==
    Smaller(len, offset + IF offset = 0 THEN first ELSE size)

\* The equation that SegmentsFrom solves.
Counts(f, first, size, len) ==
    f = [offset \in 0 .. len |->
           IF offset = len THEN 0 ELSE 1 + f[Following(first, size, len, offset)]]

\* Division solves the equation.
LEMMA ClosedStep ==
    ASSUME NEW first \in Nat \ {0}, NEW size \in Nat \ {0}, NEW len \in Nat, len > first,
           NEW offset \in 0 .. len, offset # len
    PROVE  /\ Following(first, size, len, offset) \in 1 .. len
           /\ Following(first, size, len, offset) > offset
           /\ Closed(first, size, len, offset)
                = 1 + Closed(first, size, len, Following(first, size, len, offset))
  <1> DEFINE next == Following(first, size, len, offset)
  <1>1. CASE offset = 0
    <2>1. next = first
      BY <1>1 DEF Following, Smaller
    <2> QED BY <1>1, <2>1 DEF Closed
  <1>2. CASE offset # 0
    <2> DEFINE rest == len - offset
    <2>1. rest \in Nat \ {0}
      OBVIOUS
    <2>2. CASE rest <= size
      <3>1. next = len
        BY <1>2, <2>2 DEF Following, Smaller
      <3>2. Parts(rest, size) = 1 /\ Parts(len - next, size) = 0
        BY <2>1, <2>2, <3>1, OnePartMore
      <3> QED BY <1>2, <3>1, <3>2 DEF Closed
    <2>3. CASE rest > size
      <3>1. next = offset + size /\ len - next = rest - size
        BY <1>2, <2>3 DEF Following, Smaller
      <3>2. Parts(rest, size) = 1 + Parts(rest - size, size)
        BY <2>1, <2>3, OnePartMore
      <3> QED BY <1>2, <2>3, <3>1, <3>2 DEF Closed
    <2> QED BY <2>1, <2>2, <2>3
  <1> QED BY <1>1, <1>2

\* Whatever solves the equation agrees with the division: were there offsets
\* where it does not, one of them would be the last.
LEMMA CountsClosed ==
    ASSUME NEW first \in Nat \ {0}, NEW size \in Nat \ {0}, NEW len \in Nat, len > first,
           NEW f, Counts(f, first, size, len)
    PROVE  f[0] = Closed(first, size, len, 0)
  <1> DEFINE T == {m \in 0 .. len : f[len - m] # Closed(first, size, len, len - m)}
  <1>0. \A offset \in 0 .. len :
          f[offset] = IF offset = len THEN 0 ELSE 1 + f[Following(first, size, len, offset)]
    BY DEF Counts
  <1>1. T = {}
    <2> SUFFICES ASSUME T # {} PROVE FALSE
      OBVIOUS
    <2>1. PICK m \in T : \A y \in T : m <= y
      <3>1. T \in SUBSET Nat
        OBVIOUS
      <3> HIDE DEF T
      <3> QED BY <3>1, LeastNumber
    <2>2. m \in 0 .. len /\ len - m \in 0 .. len
      OBVIOUS
    <2>3. CASE m = 0
      <3>1. Closed(first, size, len, len) = 0
        BY OnePartMore DEF Closed
      <3> QED BY <1>0, <2>2, <2>3, <3>1
    <2>4. CASE m # 0
      <3>1. PICK next \in 1 .. len :
              /\ next = Following(first, size, len, len - m) /\ next > len - m
              /\ Closed(first, size, len, len - m) = 1 + Closed(first, size, len, next)
        BY <2>2, <2>4, ClosedStep
      <3>2. f[len - m] = 1 + f[next]
        BY <1>0, <2>2, <2>4, <3>1
      <3>3. len - next \in 0 .. len /\ len - next < m /\ len - (len - next) = next
        BY <2>2, <3>1
      <3>4. len - next \notin T
        <4> HIDE DEF T
        <4> QED BY <2>1, <2>2, <3>3
      <3>5. f[next] = Closed(first, size, len, next)
        BY <3>3, <3>4
      <3> QED BY <2>1, <3>1, <3>2, <3>5
    <2> QED BY <2>3, <2>4
  <1>2. len \in 0 .. len /\ len - len = 0
    OBVIOUS
  <1> QED BY <1>1, <1>2

\* buildSegmentedComplexACKAPDUAt makes as many segments of a payload as
\* segmentedResponseSegmentCount says.
LEMMA CountRight ==
    ASSUME NEW r \in RequestType, NEW type, NEW len \in Nat,
           MaxAPDUSizeExceeded(r, len), CanSegment(r, type, len)
    PROVE  SegmentsFrom(r, len)[0] = SegmentCount(r, len)
  <1> DEFINE first == FirstLimit(r)
             size == ContinuationLimit(r)
  <1>1. ResponseAPDULimit(r) \in Nat
    BY LocalLimitAssumption DEF ResponseAPDULimit, Smaller, RequestType
  <1>2. first \in Nat \ {0} /\ size \in Nat \ {0} /\ len > first
    BY <1>1 DEF CanSegment, MaxAPDUSizeExceeded, FirstLimit, ContinuationLimit
  <1>3. SegmentCount(r, len) = Closed(first, size, len, 0)
    BY DEF SegmentCount, Closed, Parts
  <1>4. SegmentsFrom(r, len) = CHOOSE f : Counts(f, first, size, len)
    BY DEF SegmentsFrom, Counts, Following
  <1> HIDE DEF first, size
  <1>5. \E f : Counts(f, first, size, len)
    <2> DEFINE g == [offset \in 0 .. len |-> Closed(first, size, len, offset)]
    <2>1. ASSUME NEW offset \in 0 .. len
          PROVE  g[offset] = IF offset = len THEN 0
                             ELSE 1 + g[Following(first, size, len, offset)]
      <3>1. CASE offset = len
        <4>1. len # 0
          BY <1>2
        <4>2. Closed(first, size, len, len) = 0
          BY <1>2, <4>1, OnePartMore DEF Closed
        <4> QED BY <3>1, <4>2
      <3>2. CASE offset # len
        <4>1. PICK next \in 1 .. len :
                /\ next = Following(first, size, len, offset)
                /\ Closed(first, size, len, offset) = 1 + Closed(first, size, len, next)
          BY <1>2, <2>1, <3>2, ClosedStep
        <4>2. next \in 0 .. len
          OBVIOUS
        <4> QED BY <3>2, <4>1, <4>2
      <3> QED BY <3>1, <3>2
    <2>2. Counts(g, first, size, len)
      BY <2>1 DEF Counts
    <2> QED BY <2>2
  <1>6. Counts(SegmentsFrom(r, len), first, size, len)
    BY <1>4, <1>5
  <1> QED BY <1>2, <1>3, <1>6, CountsClosed

\* A response that is admitted because segmentedResponseSegmentCount is within
\* what the requester accepts is cut into exactly that many segments.
THEOREM SegmentsCounted == Spec => []SegmentsAsCounted
  <1> DEFINE Right(t) == pc[t] = "send" /\ state[t] = "AwaitSegmentACK" =>
                /\ out[t].segments = SegmentsFrom(req[t], out[t].len)[0]
                /\ req[t].accepts /\ out[t].segments <= req[t].maxSegments
  <1>1. Init => SegmentsAsCounted
    BY DEF Init, SegmentsAsCounted
  <1>2. IInv /\ SegmentsAsCounted /\ [Next]_vars => SegmentsAsCounted'
    <2> SUFFICES ASSUME IInv, SegmentsAsCounted, [Next]_vars, NEW t \in Threads
                 PROVE  Right(t)'
      BY DEF SegmentsAsCounted
    <2>1. Right(t)
      BY DEF SegmentsAsCounted
    <2>2. CASE \E len, type : len \in Lengths /\ RespondSegmented(t, type, len)
      <3>1. PICK len, type : len \in Lengths /\ RespondSegmented(t, type, len)
        BY <2>2
      <3>2. req[t] \in RequestType /\ len \in Nat
        BY <3>1, LengthsAssumption DEF IInv, ThreadsOK, ThreadOK, Serving, RespondSegmented
      <3>3. SegmentsFrom(req[t], len)[0] = SegmentCount(req[t], len)
        BY <3>1, <3>2, CountRight DEF RespondSegmented
      <3>4. /\ out'[t].segments = SegmentCount(req[t], len) /\ out'[t].len = len
            /\ req' = req
        BY <3>1 DEF RespondSegmented, Answer, PDU, IInv, TypeOK
      <3>5. req[t].accepts /\ SegmentCount(req[t], len) \in 2 .. req[t].maxSegments
        BY <3>1 DEF RespondSegmented, CanSegment
      <3> HIDE DEF SegmentCount
      <3>6. SegmentCount(req[t], len) <= req[t].maxSegments
        BY <3>5
      <3> QED BY <3>3, <3>4, <3>5, <3>6
    <2>3. CASE ~\E len, type : len \in Lengths /\ RespondSegmented(t, type, len)
      <3>1. \/ pc'[t] # "send" \/ state'[t] # "AwaitSegmentACK"
            \/ pc'[t] = pc[t] /\ state'[t] = state[t] /\ out'[t] = out[t] /\ req'[t] = req[t]
        <4> HIDE DEF Right
        <4>1. ASSUME NEW u \in Threads, Receive(u) PROVE <3>1!:
          BY <4>1 DEF Receive, ReceiveRequest, DropDuplicate, ReceiveAssembled, Serve,
             ReceiveUnconfirmed, Goto, IInv, TypeOK, vars
        <4>2. ASSUME NEW u \in Threads, Runs(u) PROVE <3>1!:
          BY <2>3, <4>2 DEF Runs, FindHandler, NoHandler, HandlerReturns, HandlerFails,
             HandlerMisaddresses, Respond, RespondSegmented, RespondTooLong, RespondUnknown,
             Answer, Send, EncodeFails, SendFails, Return, UnconfirmedReturns, Goto, IInv, TypeOK
        <4> QED BY <4>1, <4>2 DEF Next, RegisterConfirmed, RegisterUnconfirmed, ResponseEnds,
             Close, vars
      <3> QED BY <2>1, <3>1
    <2> QED BY <2>2, <2>3
  <1> QED BY <1>1, <1>2, Invariance, PTL DEF Spec
=============================================================================
