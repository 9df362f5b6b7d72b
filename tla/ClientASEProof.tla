--------------------------- MODULE ClientASEProof ---------------------------
(***************************************************************************)
(* Proofs about ClientASE, for every set of calls, every invoke-ID space,  *)
(* every limit and every retry count.  The properties of ClientASE are not *)
(* inductive; IInv below is.  Its parts say what each goroutine may rely   *)
(* on between two of its steps.                                            *)
(***************************************************************************)
EXTENDS ClientASE, FiniteSetTheorems, TLAPS

\* A transaction is registered under its own invoke ID, its call is neither
\* unborn nor gone, and nobody has answered it yet.
TableOK ==
    \A i \in InvokeIDs, c \in Calls :
        clientTransactions[i] = c =>
            /\ txID[c] = i
            /\ pc[c] \notin {"start", "returned"}
            /\ done[c] = Nothing

\* A call has an invoke ID from its start to its end, unless it was refused.
StartOK ==
    \A c \in Calls :
        /\ pc[c] = "start" => txID[c] = NoID /\ done[c] = Nothing
        /\ txID[c] = NoID => sent[c] = 0 /\ pc[c] \in {"start", "returned"}

\* What the receive loop knows of the transaction it took from the table.
RecvOK ==
    /\ rpc # "idle" => rin \in PDUs
    /\ rpc \in {"handle", "apply", "finish", "deliver"} =>
         /\ rtx \in Calls
         /\ txID[rtx] = rin.invokeID
         /\ ~closed => done[rtx] = Nothing
    /\ rpc = "deliver" => ~Registered(rtx)

\* Close runs after it has set closed, on a transaction it took.
CloseOK ==
    /\ ~closed => cpc = "open" /\ pending = {}
    /\ cpc \in {"apply", "deliver"} => ctx \in Calls /\ pc[ctx] # "start"
    /\ \A c \in pending : pc[c] # "start"

\* The transmissions a call has used up.
BudgetOK ==
    \A c \in Calls :
        /\ sent[c] <= retryCount[c] + 1
        /\ pc[c] = "send" => sent[c] <= retryCount[c]
        /\ pc[c] \in {"start", "handleSend"} => sent[c] = 0 /\ retryCount[c] = 0

Base == TypeOK /\ TableOK /\ StartOK /\ RecvOK /\ CloseOK /\ BudgetOK /\ ClosedTableEmpty

-----------------------------------------------------------------------------
(* Values and PDUs *)

\* What a call returns on its own is a value of the done channel's type.
LEMMA ValueFacts ==
    /\ Nothing \in Values
    /\ \A k \in Outcomes : Local(k) \in Values /\ Local(k) # Nothing
  BY DEF Nothing, Values, Outcomes, NoOutcome, Local, Value

\* Whatever the network delivers is a well-formed PDU.
LEMMA NetworkPDUs == ASSUME Base, NEW in \in Network PROVE in \in PDUs
  BY DEF Base, TypeOK, StartOK, Network, Answers, PeerTransactions, PDU, PDUs, InvokeIDs

\* The confirmation built from a PDU is a value, and not the empty slot.
LEMMA ConfirmFacts ==
    ASSUME NEW in \in PDUs PROVE Confirm(in) \in Values /\ Confirm(in) # Nothing
  BY PDUTypesAssumption DEF PDUs, Confirm, Value, Values, Outcomes, Nothing, NoOutcome

-----------------------------------------------------------------------------
(* Base is inductive *)

\* Base holds initially.
LEMMA InitBase == Init => Base
<1> SUFFICES ASSUME Init PROVE Base
    OBVIOUS
<1> USE CallsAssumption, NumIDsAssumption, MaxRetriesAssumption DEF Init
<1>1. TypeOK
  <2>1. 0 \in InvokeIDs
    BY DEF InvokeIDs
  <2>2. 0 \in 0 .. MaxRetries /\ 0 \in 0 .. MaxRetries + 1
    OBVIOUS
  <2>3. done \in [Calls -> Values] /\ result \in [Calls -> Values]
    BY ValueFacts
  <2> QED
    BY <2>1, <2>2, <2>3 DEF TypeOK, NoID, MachineStates
<1>2. TableOK
    BY DEF TableOK
<1>3. StartOK /\ RecvOK /\ CloseOK /\ BudgetOK
    BY DEF StartOK, RecvOK, CloseOK, BudgetOK
<1>4. ClosedTableEmpty
    BY DEF ClosedTableEmpty
<1> QED
    BY <1>1, <1>2, <1>3, <1>4 DEF Base

\* TypeOK is preserved by every step.
LEMMA TypeStep == Base /\ [Next]_vars => TypeOK'
<1> SUFFICES ASSUME Base, [Next]_vars PROVE TypeOK'
    OBVIOUS
<1> USE CallsAssumption, NumIDsAssumption, MaxRetriesAssumption DEF Base, TypeOK, MachineStates, BudgetOK, vars, tableVars, machineVars, callVars, recvVars, closeVars
<1>1. ASSUME NEW c \in Calls, RejectInvalid(c) PROVE TypeOK'
    BY <1>1, ValueFacts DEF RejectInvalid, ReturnNow, Goto, Outcomes
<1>2. ASSUME NEW c \in Calls, StartRefused(c) PROVE TypeOK'
    BY <1>2, ValueFacts DEF StartRefused, ReturnNow, Goto, Outcomes
<1>3. ASSUME NEW c \in Calls, StartTransaction(c) PROVE TypeOK'
    BY <1>3 DEF StartTransaction, MayStart, After, Goto, InUse, InvokeIDs
<1>4. ASSUME NEW c \in Calls, HandleSend(c) PROVE TypeOK'
    BY <1>4, ValueFacts DEF HandleSend, FinishWith, Goto, Outcomes
<1>5. ASSUME NEW c \in Calls, BuildFails(c) PROVE TypeOK'
    BY <1>5, ValueFacts DEF BuildFails, FinishWith, Goto, Outcomes
<1>6. ASSUME NEW c \in Calls, SendNPDU(c) PROVE TypeOK'
    BY <1>6 DEF SendNPDU, Goto
<1>7. ASSUME NEW c \in Calls, SendFails(c) PROVE TypeOK'
    BY <1>7, ValueFacts DEF SendFails, EnterHandle, FinishWith, Goto, Outcomes
<1>8. ASSUME NEW c \in Calls, ContextDone(c) PROVE TypeOK'
    BY <1>8, ValueFacts DEF ContextDone, EnterHandle, FinishWith, Goto, Outcomes
<1>9. ASSUME NEW c \in Calls, TimerFires(c) PROVE TypeOK'
    BY <1>9, ValueFacts DEF TimerFires, EnterHandle, FinishWith, Goto, Outcomes
<1>10. ASSUME NEW c \in Calls, ReceiveDone(c) PROVE TypeOK'
    BY <1>10, ValueFacts DEF ReceiveDone, Goto, Outcomes
<1>11. ASSUME NEW c \in Calls, HandleAbort(c) PROVE TypeOK'
    BY <1>11, ValueFacts DEF HandleAbort, FinishWith, Goto, Outcomes
<1>12. ASSUME NEW c \in Calls, HandleTimeout(c) PROVE TypeOK'
    BY <1>12, ValueFacts DEF HandleTimeout, MayRetry, FinishWith, Goto, Outcomes
<1>13. ASSUME NEW c \in Calls, CallerFinish(c) PROVE TypeOK'
    BY <1>13 DEF CallerFinish, Delete, Goto
<1>14. CASE CompleteTransaction
    BY <1>14, NetworkPDUs DEF CompleteTransaction, PDUs
<1>15. CASE HandleSegmentACK
    BY <1>15, NetworkPDUs DEF HandleSegmentACK
<1>16. CASE FailTransaction
    BY <1>16 DEF FailTransaction, Drop, RecvOK, PDUs
<1>17. CASE RecvEnterHandle
    BY <1>17 DEF RecvEnterHandle, Drop
<1>18. CASE RecvApply
    BY <1>18 DEF RecvApply, NextState, RecvOK
<1>19. CASE RecvFinish
    BY <1>19 DEF RecvFinish, Delete
<1>20. CASE RecvDeliver
    BY <1>20, ConfirmFacts DEF RecvDeliver, Drop, Confirm, RecvOK
<1>21. CASE Close
    BY <1>21 DEF Close, SetClosed
<1>22. CASE CloseEnterHandle
    BY <1>22 DEF CloseEnterHandle, AfterSwitch
<1>23. CASE CloseApply
    BY <1>23 DEF CloseApply, CloseOK
<1>24. CASE CloseDeliver
    BY <1>24, ValueFacts DEF CloseDeliver, Outcomes, CloseOK
<1>25. CASE CloseReturn
    BY <1>25 DEF CloseReturn
<1>26. CASE UNCHANGED vars
    BY <1>26
<1> QED
    BY <1>1, <1>2, <1>3, <1>4, <1>5, <1>6, <1>7, <1>8, <1>9, <1>10, <1>11, <1>12, <1>13, <1>14, <1>15, <1>16, <1>17, <1>18, <1>19, <1>20, <1>21, <1>22, <1>23, <1>24, <1>25, <1>26 DEF Next, Caller, CallerRuns, Receiver, Closer

\* TableOK is preserved by every step.
LEMMA TableStep == Base /\ [Next]_vars => TableOK'
<1> SUFFICES ASSUME Base, [Next]_vars PROVE TableOK'
    OBVIOUS
<1> USE CallsAssumption, NumIDsAssumption, MaxRetriesAssumption DEF Base, TypeOK, TableOK, StartOK, RecvOK, CloseOK, vars, tableVars, machineVars, callVars, recvVars, closeVars
<1>1. ASSUME NEW c \in Calls, RejectInvalid(c) PROVE TableOK'
    BY <1>1 DEF RejectInvalid, ReturnNow, Goto
<1>2. ASSUME NEW c \in Calls, StartRefused(c) PROVE TableOK'
    BY <1>2 DEF StartRefused, ReturnNow, Goto
<1>3. ASSUME NEW c \in Calls, StartTransaction(c) PROVE TableOK'
  <2>1. PICK id \in InvokeIDs :
            /\ clientTransactions' = [clientTransactions EXCEPT ![id] = c]
            /\ txID' = [txID EXCEPT ![c] = id]
    <3>1. \A k \in 0 .. NumIDs - 1 : (nextInvokeID + k) % NumIDs \in InvokeIDs
      BY DEF InvokeIDs
    <3> QED
      BY <1>3, <3>1 DEF StartTransaction
  <2>2. \A i \in InvokeIDs : clientTransactions[i] # c
    BY <1>3 DEF StartTransaction
  <2>3. pc' = [pc EXCEPT ![c] = "handleSend"] /\ UNCHANGED done
    BY <1>3 DEF StartTransaction, Goto
  <2>4. done[c] = Nothing
    BY <1>3 DEF StartTransaction
  <2> QED
    BY <2>1, <2>2, <2>3, <2>4
<1>4. ASSUME NEW c \in Calls, HandleSend(c) PROVE TableOK'
    BY <1>4 DEF HandleSend, FinishWith, Goto
<1>5. ASSUME NEW c \in Calls, BuildFails(c) PROVE TableOK'
    BY <1>5 DEF BuildFails, FinishWith, Goto
<1>6. ASSUME NEW c \in Calls, SendNPDU(c) PROVE TableOK'
    BY <1>6 DEF SendNPDU, Goto
<1>7. ASSUME NEW c \in Calls, SendFails(c) PROVE TableOK'
    BY <1>7 DEF SendFails, EnterHandle, FinishWith, Goto
<1>8. ASSUME NEW c \in Calls, ContextDone(c) PROVE TableOK'
    BY <1>8 DEF ContextDone, EnterHandle, FinishWith, Goto
<1>9. ASSUME NEW c \in Calls, TimerFires(c) PROVE TableOK'
    BY <1>9 DEF TimerFires, EnterHandle, FinishWith, Goto
<1>10. ASSUME NEW c \in Calls, ReceiveDone(c) PROVE TableOK'
    BY <1>10 DEF ReceiveDone, Goto
<1>11. ASSUME NEW c \in Calls, HandleAbort(c) PROVE TableOK'
    BY <1>11 DEF HandleAbort, FinishWith, Goto
<1>12. ASSUME NEW c \in Calls, HandleTimeout(c) PROVE TableOK'
    BY <1>12 DEF HandleTimeout, MayRetry, FinishWith, Goto
<1>13. ASSUME NEW c \in Calls, CallerFinish(c) PROVE TableOK'
    BY <1>13 DEF CallerFinish, Delete, Goto, Registered
<1>14. CASE CompleteTransaction
    BY <1>14 DEF CompleteTransaction
<1>15. CASE HandleSegmentACK
    BY <1>15 DEF HandleSegmentACK
<1>16. CASE FailTransaction
    BY <1>16 DEF FailTransaction, Drop
<1>17. CASE RecvEnterHandle
    BY <1>17 DEF RecvEnterHandle, Drop
<1>18. CASE RecvApply
    BY <1>18 DEF RecvApply, NextState
<1>19. CASE RecvFinish
    BY <1>19 DEF RecvFinish, Delete, Registered
<1>20. CASE RecvDeliver
    BY <1>20 DEF RecvDeliver, Drop, Confirm, Registered
<1>21. CASE Close
    BY <1>21 DEF Close, SetClosed
<1>22. CASE CloseEnterHandle
    BY <1>22 DEF CloseEnterHandle, AfterSwitch
<1>23. CASE CloseApply
    BY <1>23 DEF CloseApply
<1>24. CASE CloseDeliver
    BY <1>24 DEF CloseDeliver, ClosedTableEmpty, InUse
<1>25. CASE CloseReturn
    BY <1>25 DEF CloseReturn
<1>26. CASE UNCHANGED vars
    BY <1>26
<1> QED
    BY <1>1, <1>2, <1>3, <1>4, <1>5, <1>6, <1>7, <1>8, <1>9, <1>10, <1>11, <1>12, <1>13, <1>14, <1>15, <1>16, <1>17, <1>18, <1>19, <1>20, <1>21, <1>22, <1>23, <1>24, <1>25, <1>26 DEF Next, Caller, CallerRuns, Receiver, Closer

\* StartOK is preserved by every step.
LEMMA StartStep == Base /\ [Next]_vars => StartOK'
<1> SUFFICES ASSUME Base, [Next]_vars PROVE StartOK'
    OBVIOUS
<1> USE CallsAssumption, NumIDsAssumption, MaxRetriesAssumption DEF Base, TypeOK, StartOK, NoID, vars, tableVars, machineVars, callVars, recvVars, closeVars
<1>1. ASSUME NEW c \in Calls, RejectInvalid(c) PROVE StartOK'
    BY <1>1 DEF RejectInvalid, ReturnNow, Goto
<1>2. ASSUME NEW c \in Calls, StartRefused(c) PROVE StartOK'
    BY <1>2 DEF StartRefused, ReturnNow, Goto
<1>3. ASSUME NEW c \in Calls, StartTransaction(c) PROVE StartOK'
    BY <1>3 DEF StartTransaction, MayStart, After, Goto, InUse, InvokeIDs
<1>4. ASSUME NEW c \in Calls, HandleSend(c) PROVE StartOK'
    BY <1>4 DEF HandleSend, FinishWith, Goto
<1>5. ASSUME NEW c \in Calls, BuildFails(c) PROVE StartOK'
    BY <1>5 DEF BuildFails, FinishWith, Goto
<1>6. ASSUME NEW c \in Calls, SendNPDU(c) PROVE StartOK'
    BY <1>6 DEF SendNPDU, Goto
<1>7. ASSUME NEW c \in Calls, SendFails(c) PROVE StartOK'
    BY <1>7 DEF SendFails, EnterHandle, FinishWith, Goto
<1>8. ASSUME NEW c \in Calls, ContextDone(c) PROVE StartOK'
    BY <1>8 DEF ContextDone, EnterHandle, FinishWith, Goto
<1>9. ASSUME NEW c \in Calls, TimerFires(c) PROVE StartOK'
    BY <1>9 DEF TimerFires, EnterHandle, FinishWith, Goto
<1>10. ASSUME NEW c \in Calls, ReceiveDone(c) PROVE StartOK'
    BY <1>10 DEF ReceiveDone, Goto
<1>11. ASSUME NEW c \in Calls, HandleAbort(c) PROVE StartOK'
    BY <1>11 DEF HandleAbort, FinishWith, Goto
<1>12. ASSUME NEW c \in Calls, HandleTimeout(c) PROVE StartOK'
    BY <1>12 DEF HandleTimeout, MayRetry, FinishWith, Goto
<1>13. ASSUME NEW c \in Calls, CallerFinish(c) PROVE StartOK'
    BY <1>13 DEF CallerFinish, Delete, Goto
<1>14. CASE CompleteTransaction
    BY <1>14 DEF CompleteTransaction
<1>15. CASE HandleSegmentACK
    BY <1>15 DEF HandleSegmentACK
<1>16. CASE FailTransaction
    BY <1>16 DEF FailTransaction, Drop
<1>17. CASE RecvEnterHandle
    BY <1>17 DEF RecvEnterHandle, Drop
<1>18. CASE RecvApply
    BY <1>18 DEF RecvApply, NextState
<1>19. CASE RecvFinish
    BY <1>19 DEF RecvFinish, Delete
<1>20. CASE RecvDeliver
    BY <1>20 DEF RecvDeliver, Drop, Confirm, RecvOK, PDUs, InvokeIDs
<1>21. CASE Close
    BY <1>21 DEF Close, SetClosed
<1>22. CASE CloseEnterHandle
    BY <1>22 DEF CloseEnterHandle, AfterSwitch
<1>23. CASE CloseApply
    BY <1>23 DEF CloseApply
<1>24. CASE CloseDeliver
    BY <1>24 DEF CloseDeliver, CloseOK
<1>25. CASE CloseReturn
    BY <1>25 DEF CloseReturn
<1>26. CASE UNCHANGED vars
    BY <1>26
<1> QED
    BY <1>1, <1>2, <1>3, <1>4, <1>5, <1>6, <1>7, <1>8, <1>9, <1>10, <1>11, <1>12, <1>13, <1>14, <1>15, <1>16, <1>17, <1>18, <1>19, <1>20, <1>21, <1>22, <1>23, <1>24, <1>25, <1>26 DEF Next, Caller, CallerRuns, Receiver, Closer

\* CloseOK is preserved by every step.
LEMMA CloseStep == Base /\ [Next]_vars => CloseOK'
<1> SUFFICES ASSUME Base, [Next]_vars PROVE CloseOK'
    OBVIOUS
<1> USE CallsAssumption, NumIDsAssumption, MaxRetriesAssumption DEF Base, TypeOK, CloseOK, vars, tableVars, machineVars, callVars, recvVars, closeVars
<1>1. ASSUME NEW c \in Calls, RejectInvalid(c) PROVE CloseOK'
    BY <1>1 DEF RejectInvalid, ReturnNow, Goto
<1>2. ASSUME NEW c \in Calls, StartRefused(c) PROVE CloseOK'
    BY <1>2 DEF StartRefused, ReturnNow, Goto
<1>3. ASSUME NEW c \in Calls, StartTransaction(c) PROVE CloseOK'
    BY <1>3 DEF StartTransaction, MayStart, After, Goto, InUse, InvokeIDs
<1>4. ASSUME NEW c \in Calls, HandleSend(c) PROVE CloseOK'
    BY <1>4 DEF HandleSend, FinishWith, Goto
<1>5. ASSUME NEW c \in Calls, BuildFails(c) PROVE CloseOK'
    BY <1>5 DEF BuildFails, FinishWith, Goto
<1>6. ASSUME NEW c \in Calls, SendNPDU(c) PROVE CloseOK'
    BY <1>6 DEF SendNPDU, Goto
<1>7. ASSUME NEW c \in Calls, SendFails(c) PROVE CloseOK'
    BY <1>7 DEF SendFails, EnterHandle, FinishWith, Goto
<1>8. ASSUME NEW c \in Calls, ContextDone(c) PROVE CloseOK'
    BY <1>8 DEF ContextDone, EnterHandle, FinishWith, Goto
<1>9. ASSUME NEW c \in Calls, TimerFires(c) PROVE CloseOK'
    BY <1>9 DEF TimerFires, EnterHandle, FinishWith, Goto
<1>10. ASSUME NEW c \in Calls, ReceiveDone(c) PROVE CloseOK'
    BY <1>10 DEF ReceiveDone, Goto
<1>11. ASSUME NEW c \in Calls, HandleAbort(c) PROVE CloseOK'
    BY <1>11 DEF HandleAbort, FinishWith, Goto
<1>12. ASSUME NEW c \in Calls, HandleTimeout(c) PROVE CloseOK'
    BY <1>12 DEF HandleTimeout, MayRetry, FinishWith, Goto
<1>13. ASSUME NEW c \in Calls, CallerFinish(c) PROVE CloseOK'
    BY <1>13 DEF CallerFinish, Delete, Goto
<1>14. CASE CompleteTransaction
    BY <1>14 DEF CompleteTransaction
<1>15. CASE HandleSegmentACK
    BY <1>15 DEF HandleSegmentACK
<1>16. CASE FailTransaction
    BY <1>16 DEF FailTransaction, Drop
<1>17. CASE RecvEnterHandle
    BY <1>17 DEF RecvEnterHandle, Drop
<1>18. CASE RecvApply
    BY <1>18 DEF RecvApply, NextState
<1>19. CASE RecvFinish
    BY <1>19 DEF RecvFinish, Delete
<1>20. CASE RecvDeliver
    BY <1>20 DEF RecvDeliver, Drop, Confirm
<1>21. CASE Close
    BY <1>21 DEF Close, SetClosed, TableOK, Registered
<1>22. CASE CloseEnterHandle
    BY <1>22 DEF CloseEnterHandle, AfterSwitch
<1>23. CASE CloseApply
    BY <1>23 DEF CloseApply
<1>24. CASE CloseDeliver
    BY <1>24 DEF CloseDeliver
<1>25. CASE CloseReturn
    BY <1>25 DEF CloseReturn
<1>26. CASE UNCHANGED vars
    BY <1>26
<1> QED
    BY <1>1, <1>2, <1>3, <1>4, <1>5, <1>6, <1>7, <1>8, <1>9, <1>10, <1>11, <1>12, <1>13, <1>14, <1>15, <1>16, <1>17, <1>18, <1>19, <1>20, <1>21, <1>22, <1>23, <1>24, <1>25, <1>26 DEF Next, Caller, CallerRuns, Receiver, Closer

\* BudgetOK is preserved by every step.
LEMMA BudgetStep == Base /\ [Next]_vars => BudgetOK'
<1> SUFFICES ASSUME Base, [Next]_vars PROVE BudgetOK'
    OBVIOUS
<1> USE CallsAssumption, NumIDsAssumption, MaxRetriesAssumption DEF Base, TypeOK, BudgetOK, vars, tableVars, machineVars, callVars, recvVars, closeVars
<1>1. ASSUME NEW c \in Calls, RejectInvalid(c) PROVE BudgetOK'
    BY <1>1 DEF RejectInvalid, ReturnNow, Goto
<1>2. ASSUME NEW c \in Calls, StartRefused(c) PROVE BudgetOK'
    BY <1>2 DEF StartRefused, ReturnNow, Goto
<1>3. ASSUME NEW c \in Calls, StartTransaction(c) PROVE BudgetOK'
    BY <1>3 DEF StartTransaction, MayStart, After, Goto, InUse, InvokeIDs
<1>4. ASSUME NEW c \in Calls, HandleSend(c) PROVE BudgetOK'
    BY <1>4 DEF HandleSend, FinishWith, Goto
<1>5. ASSUME NEW c \in Calls, BuildFails(c) PROVE BudgetOK'
    BY <1>5 DEF BuildFails, FinishWith, Goto
<1>6. ASSUME NEW c \in Calls, SendNPDU(c) PROVE BudgetOK'
    BY <1>6 DEF SendNPDU, Goto
<1>7. ASSUME NEW c \in Calls, SendFails(c) PROVE BudgetOK'
    BY <1>7 DEF SendFails, EnterHandle, FinishWith, Goto
<1>8. ASSUME NEW c \in Calls, ContextDone(c) PROVE BudgetOK'
    BY <1>8 DEF ContextDone, EnterHandle, FinishWith, Goto
<1>9. ASSUME NEW c \in Calls, TimerFires(c) PROVE BudgetOK'
    BY <1>9 DEF TimerFires, EnterHandle, FinishWith, Goto
<1>10. ASSUME NEW c \in Calls, ReceiveDone(c) PROVE BudgetOK'
    BY <1>10 DEF ReceiveDone, Goto
<1>11. ASSUME NEW c \in Calls, HandleAbort(c) PROVE BudgetOK'
    BY <1>11 DEF HandleAbort, FinishWith, Goto
<1>12. ASSUME NEW c \in Calls, HandleTimeout(c) PROVE BudgetOK'
    BY <1>12 DEF HandleTimeout, MayRetry, FinishWith, Goto
<1>13. ASSUME NEW c \in Calls, CallerFinish(c) PROVE BudgetOK'
    BY <1>13 DEF CallerFinish, Delete, Goto
<1>14. CASE CompleteTransaction
    BY <1>14 DEF CompleteTransaction
<1>15. CASE HandleSegmentACK
    BY <1>15 DEF HandleSegmentACK
<1>16. CASE FailTransaction
    BY <1>16 DEF FailTransaction, Drop
<1>17. CASE RecvEnterHandle
    BY <1>17 DEF RecvEnterHandle, Drop
<1>18. CASE RecvApply
    BY <1>18 DEF RecvApply, NextState
<1>19. CASE RecvFinish
    BY <1>19 DEF RecvFinish, Delete
<1>20. CASE RecvDeliver
    BY <1>20 DEF RecvDeliver, Drop, Confirm
<1>21. CASE Close
    BY <1>21 DEF Close, SetClosed
<1>22. CASE CloseEnterHandle
    BY <1>22 DEF CloseEnterHandle, AfterSwitch
<1>23. CASE CloseApply
    BY <1>23 DEF CloseApply
<1>24. CASE CloseDeliver
    BY <1>24 DEF CloseDeliver
<1>25. CASE CloseReturn
    BY <1>25 DEF CloseReturn
<1>26. CASE UNCHANGED vars
    BY <1>26
<1> QED
    BY <1>1, <1>2, <1>3, <1>4, <1>5, <1>6, <1>7, <1>8, <1>9, <1>10, <1>11, <1>12, <1>13, <1>14, <1>15, <1>16, <1>17, <1>18, <1>19, <1>20, <1>21, <1>22, <1>23, <1>24, <1>25, <1>26 DEF Next, Caller, CallerRuns, Receiver, Closer

\* ClosedTableEmpty is preserved by every step.
LEMMA ClosedStep == Base /\ [Next]_vars => ClosedTableEmpty'
<1> SUFFICES ASSUME Base, [Next]_vars PROVE ClosedTableEmpty'
    OBVIOUS
<1> USE CallsAssumption, NumIDsAssumption, MaxRetriesAssumption DEF Base, TypeOK, ClosedTableEmpty, InUse, vars, tableVars, machineVars, callVars, recvVars, closeVars
<1>1. ASSUME NEW c \in Calls, RejectInvalid(c) PROVE ClosedTableEmpty'
    BY <1>1 DEF RejectInvalid, ReturnNow, Goto
<1>2. ASSUME NEW c \in Calls, StartRefused(c) PROVE ClosedTableEmpty'
    BY <1>2 DEF StartRefused, ReturnNow, Goto
<1>3. ASSUME NEW c \in Calls, StartTransaction(c) PROVE ClosedTableEmpty'
    BY <1>3 DEF StartTransaction, MayStart, After, Goto, InUse, InvokeIDs
<1>4. ASSUME NEW c \in Calls, HandleSend(c) PROVE ClosedTableEmpty'
    BY <1>4 DEF HandleSend, FinishWith, Goto
<1>5. ASSUME NEW c \in Calls, BuildFails(c) PROVE ClosedTableEmpty'
    BY <1>5 DEF BuildFails, FinishWith, Goto
<1>6. ASSUME NEW c \in Calls, SendNPDU(c) PROVE ClosedTableEmpty'
    BY <1>6 DEF SendNPDU, Goto
<1>7. ASSUME NEW c \in Calls, SendFails(c) PROVE ClosedTableEmpty'
    BY <1>7 DEF SendFails, EnterHandle, FinishWith, Goto
<1>8. ASSUME NEW c \in Calls, ContextDone(c) PROVE ClosedTableEmpty'
    BY <1>8 DEF ContextDone, EnterHandle, FinishWith, Goto
<1>9. ASSUME NEW c \in Calls, TimerFires(c) PROVE ClosedTableEmpty'
    BY <1>9 DEF TimerFires, EnterHandle, FinishWith, Goto
<1>10. ASSUME NEW c \in Calls, ReceiveDone(c) PROVE ClosedTableEmpty'
    BY <1>10 DEF ReceiveDone, Goto
<1>11. ASSUME NEW c \in Calls, HandleAbort(c) PROVE ClosedTableEmpty'
    BY <1>11 DEF HandleAbort, FinishWith, Goto
<1>12. ASSUME NEW c \in Calls, HandleTimeout(c) PROVE ClosedTableEmpty'
    BY <1>12 DEF HandleTimeout, MayRetry, FinishWith, Goto
<1>13. ASSUME NEW c \in Calls, CallerFinish(c) PROVE ClosedTableEmpty'
    BY <1>13 DEF CallerFinish, Delete, Goto
<1>14. CASE CompleteTransaction
    BY <1>14 DEF CompleteTransaction
<1>15. CASE HandleSegmentACK
    BY <1>15 DEF HandleSegmentACK
<1>16. CASE FailTransaction
    BY <1>16 DEF FailTransaction, Drop
<1>17. CASE RecvEnterHandle
    BY <1>17 DEF RecvEnterHandle, Drop
<1>18. CASE RecvApply
    BY <1>18 DEF RecvApply, NextState
<1>19. CASE RecvFinish
    BY <1>19 DEF RecvFinish, Delete
<1>20. CASE RecvDeliver
    BY <1>20 DEF RecvDeliver, Drop, Confirm
<1>21. CASE Close
    BY <1>21 DEF Close, SetClosed
<1>22. CASE CloseEnterHandle
    BY <1>22 DEF CloseEnterHandle, AfterSwitch
<1>23. CASE CloseApply
    BY <1>23 DEF CloseApply
<1>24. CASE CloseDeliver
    BY <1>24 DEF CloseDeliver
<1>25. CASE CloseReturn
    BY <1>25 DEF CloseReturn
<1>26. CASE UNCHANGED vars
    BY <1>26
<1> QED
    BY <1>1, <1>2, <1>3, <1>4, <1>5, <1>6, <1>7, <1>8, <1>9, <1>10, <1>11, <1>12, <1>13, <1>14, <1>15, <1>16, <1>17, <1>18, <1>19, <1>20, <1>21, <1>22, <1>23, <1>24, <1>25, <1>26 DEF Next, Caller, CallerRuns, Receiver, Closer

\* RecvOK is preserved by every step.
LEMMA RecvStep == Base /\ [Next]_vars => RecvOK'
<1> SUFFICES ASSUME Base, [Next]_vars PROVE RecvOK'
    OBVIOUS
<1> USE CallsAssumption, NumIDsAssumption, MaxRetriesAssumption DEF Base, TypeOK, TableOK, RecvOK, CloseOK, Registered, vars, tableVars, machineVars, callVars, recvVars, closeVars
<1>1. ASSUME NEW c \in Calls, RejectInvalid(c) PROVE RecvOK'
    BY <1>1 DEF RejectInvalid, ReturnNow, Goto
<1>2. ASSUME NEW c \in Calls, StartRefused(c) PROVE RecvOK'
    BY <1>2 DEF StartRefused, ReturnNow, Goto
<1>3. ASSUME NEW c \in Calls, StartTransaction(c) PROVE RecvOK'
    BY <1>3 DEF StartTransaction, MayStart, After, Goto, InUse, InvokeIDs, StartOK, NoID, PDUs
<1>4. ASSUME NEW c \in Calls, HandleSend(c) PROVE RecvOK'
    BY <1>4 DEF HandleSend, FinishWith, Goto
<1>5. ASSUME NEW c \in Calls, BuildFails(c) PROVE RecvOK'
    BY <1>5 DEF BuildFails, FinishWith, Goto
<1>6. ASSUME NEW c \in Calls, SendNPDU(c) PROVE RecvOK'
    BY <1>6 DEF SendNPDU, Goto
<1>7. ASSUME NEW c \in Calls, SendFails(c) PROVE RecvOK'
    BY <1>7 DEF SendFails, EnterHandle, FinishWith, Goto
<1>8. ASSUME NEW c \in Calls, ContextDone(c) PROVE RecvOK'
    BY <1>8 DEF ContextDone, EnterHandle, FinishWith, Goto
<1>9. ASSUME NEW c \in Calls, TimerFires(c) PROVE RecvOK'
    BY <1>9 DEF TimerFires, EnterHandle, FinishWith, Goto
<1>10. ASSUME NEW c \in Calls, ReceiveDone(c) PROVE RecvOK'
    BY <1>10 DEF ReceiveDone, Goto, StartOK
<1>11. ASSUME NEW c \in Calls, HandleAbort(c) PROVE RecvOK'
    BY <1>11 DEF HandleAbort, FinishWith, Goto
<1>12. ASSUME NEW c \in Calls, HandleTimeout(c) PROVE RecvOK'
    BY <1>12 DEF HandleTimeout, MayRetry, FinishWith, Goto
<1>13. ASSUME NEW c \in Calls, CallerFinish(c) PROVE RecvOK'
    BY <1>13 DEF CallerFinish, Delete, Goto
<1>14. CASE CompleteTransaction
    BY <1>14, NetworkPDUs DEF CompleteTransaction, PDUs
<1>15. CASE HandleSegmentACK
    BY <1>15, NetworkPDUs DEF HandleSegmentACK
<1>16. CASE FailTransaction
    BY <1>16 DEF FailTransaction, Drop, PDUs
<1>17. CASE RecvEnterHandle
    BY <1>17 DEF RecvEnterHandle, Drop
<1>18. CASE RecvApply
    BY <1>18 DEF RecvApply, NextState
<1>19. CASE RecvFinish
    BY <1>19 DEF RecvFinish, Delete, PDUs
<1>20. CASE RecvDeliver
    BY <1>20 DEF RecvDeliver, Drop, Confirm
<1>21. CASE Close
    BY <1>21 DEF Close, SetClosed
<1>22. CASE CloseEnterHandle
    BY <1>22 DEF CloseEnterHandle, AfterSwitch
<1>23. CASE CloseApply
    BY <1>23 DEF CloseApply
<1>24. CASE CloseDeliver
    BY <1>24 DEF CloseDeliver
<1>25. CASE CloseReturn
    BY <1>25 DEF CloseReturn
<1>26. CASE UNCHANGED vars
    BY <1>26
<1> QED
    BY <1>1, <1>2, <1>3, <1>4, <1>5, <1>6, <1>7, <1>8, <1>9, <1>10, <1>11, <1>12, <1>13, <1>14, <1>15, <1>16, <1>17, <1>18, <1>19, <1>20, <1>21, <1>22, <1>23, <1>24, <1>25, <1>26 DEF Next, Caller, CallerRuns, Receiver, Closer

\* Base is an invariant of ClientASE.
THEOREM BaseInvariant == Spec => []Base
<1>1. Base /\ [Next]_vars => Base'
    BY TypeStep, TableStep, StartStep, RecvStep, CloseStep, BudgetStep, ClosedStep DEF Base
<1> QED
    BY InitBase, <1>1, PTL DEF Spec

\* Type correctness: every variable of the client side stays in its range.
THEOREM TypeCorrect == Spec => []TypeOK
<1>1. Base => TypeOK
    BY DEF Base
<1> QED
    BY BaseInvariant, <1>1, PTL

\* No way out of BeginConfirmedServiceRequest leaves the transaction behind.
THEOREM CallsLeaveNothing == Spec => []NoLeak
<1>1. Base => NoLeak
    BY DEF Base, TableOK, NoLeak, Registered
<1> QED
    BY BaseInvariant, <1>1, PTL

\* After Close the table stays empty.
THEOREM CloseIsFinal == Spec => []ClosedTableEmpty
<1>1. Base => ClosedTableEmpty
    BY DEF Base
<1> QED
    BY BaseInvariant, <1>1, PTL

\* Until Close, the receive loop never waits for a caller to empty its channel.
THEOREM LoopNeverBlocks == Spec => []ReceiverNotBlocked
<1>1. Base => ReceiverNotBlocked
    BY DEF Base, RecvOK, ReceiverNotBlocked
<1> QED
    BY BaseInvariant, <1>1, PTL

-----------------------------------------------------------------------------
(* The limit on concurrent transactions *)

\* The set of invoke IDs in use is finite, and so are its subsets.
LEMMA InUseFinite == IsFiniteSet(InUse) /\ IsFiniteSet(InUse')
<1>1. IsFiniteSet(InvokeIDs)
    BY NumIDsAssumption, FS_Interval DEF InvokeIDs
<1> QED
    BY <1>1, FS_Subset DEF InUse

\* A step that registers nothing does not raise the count.
LEMMA FewerInUse ==
    ASSUME InUse' \subseteq InUse, InvokesBounded PROVE InvokesBounded'
  BY InUseFinite, FS_Subset, FS_CardinalityType, MaxInvokesAssumption DEF InvokesBounded

\* startTransaction keeps MaxConcurrentInvokes for every interleaving.
THEOREM InvokesStayBounded == Spec => []InvokesBounded
<1>1. Init => InvokesBounded
  <2> SUFFICES ASSUME Init PROVE InvokesBounded
    OBVIOUS
  <2>1. InUse = {}
    BY DEF Init, InUse
  <2> QED
    BY <2>1, FS_EmptySet, MaxInvokesAssumption DEF InvokesBounded
<1>2. Base /\ InvokesBounded /\ [Next]_vars => InvokesBounded'
  <2> SUFFICES ASSUME Base, InvokesBounded, [Next]_vars PROVE InvokesBounded'
    OBVIOUS
  <2> USE DEF Base, TypeOK, tableVars, vars
  <2>1. ASSUME NEW c \in Calls, StartTransaction(c) PROVE InvokesBounded'
    <3>1. PICK id : clientTransactions' = [clientTransactions EXCEPT ![id] = c]
      BY <2>1 DEF StartTransaction
    <3>2. InUse' \subseteq InUse \cup {id}
      BY <3>1 DEF InUse
    <3>3. /\ IsFiniteSet(InUse \cup {id})
          /\ Cardinality(InUse \cup {id}) <= Cardinality(InUse) + 1
      <4>1. Cardinality(InUse) \in Nat
        BY InUseFinite, FS_CardinalityType
      <4>2. /\ IsFiniteSet(InUse \cup {id})
            /\ \/ Cardinality(InUse \cup {id}) = Cardinality(InUse)
               \/ Cardinality(InUse \cup {id}) = Cardinality(InUse) + 1
        BY InUseFinite, FS_AddElement, Zenon
      <4> QED
        BY <4>1, <4>2
    <3>4. Cardinality(InUse') <= Cardinality(InUse \cup {id})
      BY <3>2, <3>3, FS_Subset
    <3>5. Cardinality(InUse) < MaxInvokes
      BY <2>1 DEF StartTransaction, MayStart
    <3> QED
      BY <3>3, <3>4, <3>5, InUseFinite, FS_CardinalityType, MaxInvokesAssumption
      DEF InvokesBounded
  <2>2. ASSUME NEW c \in Calls, CallerFinish(c) PROVE InvokesBounded'
    BY <2>2, FewerInUse DEF CallerFinish, Delete, InUse
  <2>3. CASE RecvFinish
    BY <2>3, FewerInUse DEF RecvFinish, Delete, InUse
  <2>4. CASE Close
    BY <2>4, FewerInUse DEF Close, InUse
  <2>5. CASE UNCHANGED clientTransactions
    BY <2>5, FewerInUse DEF InUse
  <2>6. \/ \E c \in Calls : StartTransaction(c) \/ CallerFinish(c)
        \/ RecvFinish \/ Close \/ UNCHANGED clientTransactions
    BY DEF Next, Caller, CallerRuns, Receiver, Closer, RejectInvalid, StartRefused,
           HandleSend, BuildFails, SendNPDU, SendFails, ContextDone, TimerFires, EnterHandle,
           ReceiveDone, HandleAbort, HandleTimeout, CompleteTransaction, HandleSegmentACK,
           FailTransaction, RecvEnterHandle, RecvApply, RecvDeliver,
           CloseEnterHandle, CloseApply, CloseDeliver, CloseReturn
  <2> QED
    BY <2>1, <2>2, <2>3, <2>4, <2>5, <2>6
<1> QED
    BY BaseInvariant, <1>1, <1>2, PTL DEF Spec

-----------------------------------------------------------------------------
(* No waiting call is forgotten *)

\* Somebody still holds call c and will answer it, or has.
Covers(c) ==
    \/ Registered(c)
    \/ done[c] # Nothing
    \/ rpc = "deliver" /\ rtx = c
    \/ c \in pending
    \/ cpc \in {"apply", "deliver"} /\ ctx = c

\* NeverOrphaned, for every place between the registration and the exits.
Covered ==
    FreshIDs =>
        \A c \in Calls : pc[c] \notin {"start", "finish", "returned"} => Covers(c)

\* Covered is preserved by every step.
LEMMA CoveredStep == Base /\ Covered /\ [Next]_vars => Covered'
<1> SUFFICES ASSUME Base, Covered, [Next]_vars PROVE Covered'
    OBVIOUS
<1> USE CallsAssumption, NumIDsAssumption, MaxRetriesAssumption DEF Base, TypeOK, StartOK, TableOK, RecvOK, CloseOK, Covered, FreshIDs, Covers, Registered, NoID, vars, tableVars, machineVars, callVars, recvVars, closeVars
<1>1. ASSUME NEW c \in Calls, RejectInvalid(c) PROVE Covered'
    BY <1>1 DEF RejectInvalid, ReturnNow, Goto
<1>2. ASSUME NEW c \in Calls, StartRefused(c) PROVE Covered'
    BY <1>2 DEF StartRefused, ReturnNow, Goto
<1>3. ASSUME NEW c \in Calls, StartTransaction(c) PROVE Covered'
  <2>1. PICK id \in InvokeIDs :
            /\ id \notin InUse
            /\ clientTransactions' = [clientTransactions EXCEPT ![id] = c]
            /\ txID' = [txID EXCEPT ![c] = id]
    <3>1. \A k \in 0 .. NumIDs - 1 : (nextInvokeID + k) % NumIDs \in InvokeIDs
      BY DEF InvokeIDs
    <3> QED
      BY <1>3, <3>1 DEF StartTransaction
  <2>2. /\ pc' = [pc EXCEPT ![c] = "handleSend"]
        /\ UNCHANGED <<done, rpc, rtx, pending, cpc, ctx>>
    BY <1>3 DEF StartTransaction, Goto
  <2>3. Registered(c)'
    BY <2>1
  <2>4. \A d \in Calls \ {c} : Registered(d) => Registered(d)'
    BY <2>1 DEF InUse
  <2>5. FreshIDs' => FreshIDs
    BY <1>3, <2>1 DEF StartTransaction
  <2> QED
    BY <2>2, <2>3, <2>4, <2>5
<1>4. ASSUME NEW c \in Calls, HandleSend(c) PROVE Covered'
    BY <1>4 DEF HandleSend, FinishWith, Goto
<1>5. ASSUME NEW c \in Calls, BuildFails(c) PROVE Covered'
    BY <1>5 DEF BuildFails, FinishWith, Goto
<1>6. ASSUME NEW c \in Calls, SendNPDU(c) PROVE Covered'
    BY <1>6 DEF SendNPDU, Goto
<1>7. ASSUME NEW c \in Calls, SendFails(c) PROVE Covered'
    BY <1>7 DEF SendFails, EnterHandle, FinishWith, Goto
<1>8. ASSUME NEW c \in Calls, ContextDone(c) PROVE Covered'
    BY <1>8 DEF ContextDone, EnterHandle, FinishWith, Goto
<1>9. ASSUME NEW c \in Calls, TimerFires(c) PROVE Covered'
    BY <1>9 DEF TimerFires, EnterHandle, FinishWith, Goto
<1>10. ASSUME NEW c \in Calls, ReceiveDone(c) PROVE Covered'
    BY <1>10 DEF ReceiveDone, Goto
<1>11. ASSUME NEW c \in Calls, HandleAbort(c) PROVE Covered'
    BY <1>11 DEF HandleAbort, FinishWith, Goto
<1>12. ASSUME NEW c \in Calls, HandleTimeout(c) PROVE Covered'
    BY <1>12 DEF HandleTimeout, MayRetry, FinishWith, Goto
<1>13. ASSUME NEW c \in Calls, CallerFinish(c) PROVE Covered'
    BY <1>13 DEF CallerFinish, Delete, Goto
<1>14. CASE CompleteTransaction
    BY <1>14 DEF CompleteTransaction
<1>15. CASE HandleSegmentACK
    BY <1>15 DEF HandleSegmentACK
<1>16. CASE FailTransaction
    BY <1>16 DEF FailTransaction, Drop
<1>17. CASE RecvEnterHandle
    BY <1>17 DEF RecvEnterHandle, Drop
<1>18. CASE RecvApply
    BY <1>18 DEF RecvApply, NextState
<1>19. CASE RecvFinish
    BY <1>19 DEF RecvFinish, Delete, PDUs
<1>20. CASE RecvDeliver
    BY <1>20, ConfirmFacts DEF RecvDeliver, Drop, Confirm, PDUs
<1>21. CASE Close
    BY <1>21 DEF Close, SetClosed
<1>22. CASE CloseEnterHandle
    BY <1>22 DEF CloseEnterHandle, AfterSwitch
<1>23. CASE CloseApply
    BY <1>23 DEF CloseApply
<1>24. CASE CloseDeliver
    BY <1>24, ValueFacts DEF CloseDeliver, Outcomes
<1>25. CASE CloseReturn
    BY <1>25 DEF CloseReturn
<1>26. CASE UNCHANGED vars
    BY <1>26
<1> QED
    BY <1>1, <1>2, <1>3, <1>4, <1>5, <1>6, <1>7, <1>8, <1>9, <1>10, <1>11, <1>12, <1>13, <1>14, <1>15, <1>16, <1>17, <1>18, <1>19, <1>20, <1>21, <1>22, <1>23, <1>24, <1>25, <1>26 DEF Next, Caller, CallerRuns, Receiver, Closer

\* While no invoke ID has been reused, every call that waits can be answered.
THEOREM NoCallOrphaned == Spec => []NeverOrphaned
<1>1. Init => Covered
    BY DEF Init, Covered
<1>2. Base /\ Covered => NeverOrphaned
    BY DEF Covered, Covers, NeverOrphaned
<1> QED
    BY BaseInvariant, CoveredStep, <1>1, <1>2, PTL DEF Spec

-----------------------------------------------------------------------------
(* Answers belong to the call that returns them *)

\* A PDU that names a service answers a request that was transmitted.
Origin(in) ==
    /\ CarriesServiceContext(in) => in.req # NoCall
    /\ in.req # NoCall =>
         /\ in.req \in Calls /\ sent[in.req] > 0
         /\ in.src = Peer[in.req] /\ in.service = Service[in.req]
         /\ in.invokeID = txID[in.req]

\* A value that call c has received or may receive.
Fits(c, v) ==
    v.kind \in {"ACK", "Error"} =>
        /\ v.req \in Calls /\ sent[v.req] > 0
        /\ Peer[v.req] = Peer[c] /\ Service[v.req] = Service[c]
        /\ txID[v.req] = txID[c]

AnswerOK ==
    /\ rpc # "idle" => Origin(rin)
    /\ rpc \in {"handle", "apply", "finish", "deliver"} => Matches(rtx, rin)
    /\ \A c \in Calls :
         /\ pc[c] = "start" => result[c] = Nothing
         /\ Fits(c, done[c])
         /\ Fits(c, result[c])

\* The network only makes up Segment-ACKs and Aborts.
LEMMA NetworkOrigin == ASSUME Base, NEW in \in Network PROVE Origin(in)
  BY CallsAssumption
  DEF Origin, Network, Answers, PeerTransactions, PDU, CarriesServiceContext

\* AnswerOK is preserved by every step.
LEMMA AnswerStep == Base /\ AnswerOK /\ [Next]_vars => AnswerOK'
<1> SUFFICES ASSUME Base, AnswerOK, [Next]_vars PROVE AnswerOK'
    OBVIOUS
<1> USE CallsAssumption, NumIDsAssumption, MaxRetriesAssumption DEF Base, TypeOK, StartOK, RecvOK, CloseOK, AnswerOK, Origin, Fits, vars, tableVars, machineVars, callVars, recvVars, closeVars
<1>1. ASSUME NEW c \in Calls, RejectInvalid(c) PROVE AnswerOK'
    BY <1>1, ValueFacts DEF RejectInvalid, ReturnNow, Goto, Outcomes, Local, Value
<1>2. ASSUME NEW c \in Calls, StartRefused(c) PROVE AnswerOK'
    BY <1>2, ValueFacts DEF StartRefused, ReturnNow, Goto, Outcomes, Local, Value
<1>3. ASSUME NEW c \in Calls, StartTransaction(c) PROVE AnswerOK'
  <2>1. PICK id : txID' = [txID EXCEPT ![c] = id]
    BY <1>3 DEF StartTransaction
  <2>2. /\ sent[c] = 0 /\ done[c] = Nothing /\ result[c] = Nothing
        /\ pc' = [pc EXCEPT ![c] = "handleSend"]
        /\ UNCHANGED <<sent, done, result, rpc, rin, rtx>>
    BY <1>3 DEF StartTransaction, Goto
  <2>3. rpc # "idle" => Origin(rin)'
    BY <2>1, <2>2
  <2>4. \A d \in Calls : Fits(d, done[d])' /\ Fits(d, result[d])'
    BY <2>1, <2>2 DEF Nothing, NoOutcome
  <2>5. rpc \in {"handle", "apply", "finish", "deliver"} => Matches(rtx, rin)'
    BY <2>2 DEF Matches
  <2> QED
    BY <2>2, <2>3, <2>4, <2>5
<1>4. ASSUME NEW c \in Calls, HandleSend(c) PROVE AnswerOK'
    BY <1>4, ValueFacts DEF HandleSend, FinishWith, Goto, Outcomes, Local, Value
<1>5. ASSUME NEW c \in Calls, BuildFails(c) PROVE AnswerOK'
    BY <1>5, ValueFacts DEF BuildFails, FinishWith, Goto, Outcomes, Local, Value
<1>6. ASSUME NEW c \in Calls, SendNPDU(c) PROVE AnswerOK'
    BY <1>6 DEF SendNPDU, Goto
<1>7. ASSUME NEW c \in Calls, SendFails(c) PROVE AnswerOK'
    BY <1>7, ValueFacts DEF SendFails, EnterHandle, FinishWith, Goto, Outcomes, Local, Value
<1>8. ASSUME NEW c \in Calls, ContextDone(c) PROVE AnswerOK'
    BY <1>8, ValueFacts DEF ContextDone, EnterHandle, FinishWith, Goto, Outcomes, Local, Value
<1>9. ASSUME NEW c \in Calls, TimerFires(c) PROVE AnswerOK'
    BY <1>9, ValueFacts DEF TimerFires, EnterHandle, FinishWith, Goto, Outcomes, Local, Value
<1>10. ASSUME NEW c \in Calls, ReceiveDone(c) PROVE AnswerOK'
    BY <1>10 DEF ReceiveDone, Goto, Nothing, NoOutcome
<1>11. ASSUME NEW c \in Calls, HandleAbort(c) PROVE AnswerOK'
    BY <1>11, ValueFacts DEF HandleAbort, FinishWith, Goto, Outcomes, Local, Value
<1>12. ASSUME NEW c \in Calls, HandleTimeout(c) PROVE AnswerOK'
    BY <1>12, ValueFacts DEF HandleTimeout, MayRetry, FinishWith, Goto, Outcomes, Local, Value
<1>13. ASSUME NEW c \in Calls, CallerFinish(c) PROVE AnswerOK'
    BY <1>13 DEF CallerFinish, Delete, Goto
<1>14. CASE CompleteTransaction
    BY <1>14, NetworkOrigin DEF CompleteTransaction, TableOK, Matches, CarriesServiceContext
<1>15. CASE HandleSegmentACK
    BY <1>15, NetworkOrigin DEF HandleSegmentACK
<1>16. CASE FailTransaction
    BY <1>16 DEF FailTransaction, Drop
<1>17. CASE RecvEnterHandle
    BY <1>17 DEF RecvEnterHandle, Drop
<1>18. CASE RecvApply
    BY <1>18 DEF RecvApply, NextState
<1>19. CASE RecvFinish
    BY <1>19 DEF RecvFinish, Delete
<1>20. CASE RecvDeliver
    BY <1>20 DEF RecvDeliver, Drop, Confirm, Value, Matches, CarriesServiceContext
<1>21. CASE Close
    BY <1>21 DEF Close, SetClosed
<1>22. CASE CloseEnterHandle
    BY <1>22 DEF CloseEnterHandle, AfterSwitch
<1>23. CASE CloseApply
    BY <1>23 DEF CloseApply
<1>24. CASE CloseDeliver
    BY <1>24, ValueFacts DEF CloseDeliver, Outcomes, Local, Value
<1>25. CASE CloseReturn
    BY <1>25 DEF CloseReturn
<1>26. CASE UNCHANGED vars
    BY <1>26
<1> QED
    BY <1>1, <1>2, <1>3, <1>4, <1>5, <1>6, <1>7, <1>8, <1>9, <1>10, <1>11, <1>12, <1>13, <1>14, <1>15, <1>16, <1>17, <1>18, <1>19, <1>20, <1>21, <1>22, <1>23, <1>24, <1>25, <1>26 DEF Next, Caller, CallerRuns, Receiver, Closer

\* An ACK or an Error that a call returns is from the peer, the service and the
\* invoke ID of the call, even when invoke IDs are reused.
THEOREM AnswersMatch == Spec => []AnswerMatches
<1>1. Init => AnswerOK
    BY DEF Init, AnswerOK, Fits, Nothing, NoOutcome
<1>2. Base /\ AnswerOK => AnswerMatches
    BY CallsAssumption DEF AnswerOK, Fits, AnswerMatches
<1> QED
    BY BaseInvariant, AnswerStep, <1>1, <1>2, PTL DEF Spec

-----------------------------------------------------------------------------
(* ClientASE implements ConfirmedService *)

\* The outcomes that each way out of a call can have.
KindOK ==
    \A c \in Calls :
        /\ pc[c] = "finish" =>
             result[c].kind \in {"SegmentationNotSupported", "Encode", "Transport",
                                 "Context", "InvalidTransition", "Timeout"}
        /\ \/ done[c] = Nothing
           \/ done[c].kind \in {"ACK", "Error", "Abort", "SegmentationNotSupported"}
           \/ done[c].kind = "ASEClosed" /\ closed

\* KindOK is preserved by every step.
LEMMA KindStep == Base /\ KindOK /\ [Next]_vars => KindOK'
<1> SUFFICES ASSUME Base, KindOK, [Next]_vars PROVE KindOK'
    OBVIOUS
<1> USE CallsAssumption, NumIDsAssumption, MaxRetriesAssumption DEF Base, TypeOK, RecvOK, CloseOK, KindOK, vars, tableVars, machineVars, callVars, recvVars, closeVars
<1>1. ASSUME NEW c \in Calls, RejectInvalid(c) PROVE KindOK'
    BY <1>1 DEF RejectInvalid, ReturnNow, Goto, Local, Value
<1>2. ASSUME NEW c \in Calls, StartRefused(c) PROVE KindOK'
    BY <1>2 DEF StartRefused, ReturnNow, Goto, Local, Value
<1>3. ASSUME NEW c \in Calls, StartTransaction(c) PROVE KindOK'
    BY <1>3 DEF StartTransaction, MayStart, After, Goto, InUse, InvokeIDs
<1>4. ASSUME NEW c \in Calls, HandleSend(c) PROVE KindOK'
    BY <1>4 DEF HandleSend, FinishWith, Goto, Local, Value
<1>5. ASSUME NEW c \in Calls, BuildFails(c) PROVE KindOK'
    BY <1>5 DEF BuildFails, FinishWith, Goto, Local, Value
<1>6. ASSUME NEW c \in Calls, SendNPDU(c) PROVE KindOK'
    BY <1>6 DEF SendNPDU, Goto
<1>7. ASSUME NEW c \in Calls, SendFails(c) PROVE KindOK'
    BY <1>7 DEF SendFails, EnterHandle, FinishWith, Goto, Local, Value
<1>8. ASSUME NEW c \in Calls, ContextDone(c) PROVE KindOK'
    BY <1>8 DEF ContextDone, EnterHandle, FinishWith, Goto, Local, Value
<1>9. ASSUME NEW c \in Calls, TimerFires(c) PROVE KindOK'
    BY <1>9 DEF TimerFires, EnterHandle, FinishWith, Goto, Local, Value
<1>10. ASSUME NEW c \in Calls, ReceiveDone(c) PROVE KindOK'
    BY <1>10 DEF ReceiveDone, Goto
<1>11. ASSUME NEW c \in Calls, HandleAbort(c) PROVE KindOK'
    BY <1>11 DEF HandleAbort, FinishWith, Goto, Local, Value
<1>12. ASSUME NEW c \in Calls, HandleTimeout(c) PROVE KindOK'
    BY <1>12 DEF HandleTimeout, MayRetry, FinishWith, Goto, Local, Value
<1>13. ASSUME NEW c \in Calls, CallerFinish(c) PROVE KindOK'
    BY <1>13 DEF CallerFinish, Delete, Goto
<1>14. CASE CompleteTransaction
    BY <1>14 DEF CompleteTransaction
<1>15. CASE HandleSegmentACK
    BY <1>15 DEF HandleSegmentACK
<1>16. CASE FailTransaction
    BY <1>16 DEF FailTransaction, Drop
<1>17. CASE RecvEnterHandle
    BY <1>17 DEF RecvEnterHandle, Drop
<1>18. CASE RecvApply
    BY <1>18 DEF RecvApply, NextState
<1>19. CASE RecvFinish
    BY <1>19 DEF RecvFinish, Delete
<1>20. CASE RecvDeliver
    BY <1>20, PDUTypesAssumption DEF RecvDeliver, Drop, Confirm, Value, PDUs
<1>21. CASE Close
    BY <1>21 DEF Close, SetClosed
<1>22. CASE CloseEnterHandle
    BY <1>22 DEF CloseEnterHandle, AfterSwitch
<1>23. CASE CloseApply
    BY <1>23 DEF CloseApply
<1>24. CASE CloseDeliver
    BY <1>24 DEF CloseDeliver, Local, Value
<1>25. CASE CloseReturn
    BY <1>25 DEF CloseReturn
<1>26. CASE UNCHANGED vars
    BY <1>26
<1> QED
    BY <1>1, <1>2, <1>3, <1>4, <1>5, <1>6, <1>7, <1>8, <1>9, <1>10, <1>11, <1>12, <1>13, <1>14, <1>15, <1>16, <1>17, <1>18, <1>19, <1>20, <1>21, <1>22, <1>23, <1>24, <1>25, <1>26 DEF Next, Caller, CallerRuns, Receiver, Closer

\* Every step of a goroutine is a step of ConfirmedService or leaves its
\* variables alone.
LEMMA RefinementStep ==
    Base /\ AnswerOK /\ KindOK /\ [Next]_vars => [Abstract!Next]_(Abstract!svars)
<1> SUFFICES ASSUME Base, AnswerOK, KindOK, [Next]_vars
             PROVE  [Abstract!Next]_(Abstract!svars)
    OBVIOUS
<1> USE DEF Base, TypeOK, vars, tableVars, machineVars, callVars, recvVars, closeVars
<1>1. ASSUME NEW c \in Calls, RejectInvalid(c) \/ StartRefused(c)
      PROVE  \E o \in Abstract!Refusals : Abstract!Refuse(c, o)
  <2>1. PICK o \in {"Invalid", "ASEClosed", "NoInvokeID"} :
            /\ pc[c] = "start"
            /\ o = "ASEClosed" => closed
            /\ ReturnNow(c, o)
            /\ UNCHANGED <<closed, sent>>
    BY <1>1 DEF RejectInvalid, StartRefused
  <2>2. Abstract!Refuse(c, o)
    BY <2>1 DEF ReturnNow, Goto, Local, Value, phase, outcome, Abstract!Refuse
  <2> QED
    BY <2>2 DEF Abstract!Refusals
<1>2. ASSUME NEW c \in Calls, StartTransaction(c) PROVE Abstract!Begin(c)
    BY <1>2 DEF StartTransaction, MayStart, Goto, phase, outcome, Abstract!Begin
<1>3. ASSUME NEW c \in Calls, SendNPDU(c) PROVE Abstract!Transmit(c)
    BY <1>3, MaxRetriesAssumption
    DEF SendNPDU, Goto, BudgetOK, phase, outcome, Abstract!Transmit
<1>4. ASSUME NEW c \in Calls, ReceiveDone(c)
      PROVE  \E o \in Abstract!ServiceAnswers \cup Abstract!Failures : Abstract!Return(c, o)
  <2>1. /\ done[c].kind \in Abstract!ServiceAnswers \cup Abstract!Failures
        /\ done[c].kind = "ASEClosed" => closed
    BY <1>4 DEF ReceiveDone, KindOK, Abstract!ServiceAnswers, Abstract!Failures
  <2>2. done[c].kind \in Abstract!ServiceAnswers =>
            \E d \in Calls : sent[d] > 0 /\ Peer[d] = Peer[c] /\ Service[d] = Service[c]
    BY DEF AnswerOK, Fits, Abstract!ServiceAnswers
  <2>3. Abstract!Return(c, done[c].kind)
    BY <1>4, <2>1, <2>2 DEF ReceiveDone, Goto, phase, outcome, Abstract!Return
  <2> QED
    BY <2>1, <2>3
<1>5. ASSUME NEW c \in Calls, CallerFinish(c)
      PROVE  \E o \in Abstract!ServiceAnswers \cup Abstract!Failures : Abstract!Return(c, o)
  <2>1. /\ result[c].kind \in Abstract!Failures \ {"ASEClosed"}
        /\ result[c].kind \notin Abstract!ServiceAnswers
    BY <1>5 DEF CallerFinish, KindOK, Abstract!ServiceAnswers, Abstract!Failures
  <2>2. Abstract!Return(c, result[c].kind)
    BY <1>5, <2>1 DEF CallerFinish, Goto, phase, outcome, Abstract!Return
  <2> QED
    BY <2>1, <2>2
<1>6. CASE Close
    BY <1>6 DEF Close, SetClosed, phase, outcome, Abstract!Next, Abstract!Close
<1>7. ASSUME NEW c \in Calls,
             \/ HandleSend(c) \/ BuildFails(c) \/ SendFails(c) \/ ContextDone(c)
             \/ TimerFires(c) \/ HandleAbort(c) \/ HandleTimeout(c)
      PROVE  UNCHANGED Abstract!svars
    BY <1>7 DEF HandleSend, BuildFails, SendFails, ContextDone, TimerFires, EnterHandle,
                HandleAbort, HandleTimeout, FinishWith, Goto, phase, outcome, Abstract!svars
<1>8. CASE Receiver
    BY <1>8 DEF Receiver, CompleteTransaction, HandleSegmentACK, FailTransaction,
                RecvEnterHandle, RecvApply, RecvFinish, RecvDeliver, phase, outcome, Abstract!svars
<1>9. CASE CloseEnterHandle \/ CloseApply \/ CloseDeliver \/ CloseReturn
    BY <1>9 DEF CloseEnterHandle, CloseApply, CloseDeliver, CloseReturn, phase, outcome,
                Abstract!svars
<1>10. CASE UNCHANGED vars
    BY <1>10 DEF phase, outcome, Abstract!svars
<1> QED
    BY <1>1, <1>2, <1>3, <1>4, <1>5, <1>6, <1>7, <1>8, <1>9, <1>10
    DEF Next, Caller, CallerRuns, Closer, Abstract!Next

\* Every behaviour of the client side, with its table, its unlocked machines and
\* its channels, is a behaviour of ConfirmedService: one outcome per call, at
\* most APDURetries retransmissions, and answers only from the peer and the
\* service that were asked.
THEOREM Refinement == Spec => ImplementsConfirmedService
<1>1. Init => Abstract!Init
    BY DEF Init, phase, outcome, Abstract!Init, Abstract!NoOutcome, NoOutcome
<1>2. Init => AnswerOK /\ KindOK
    BY DEF Init, AnswerOK, Fits, KindOK, Nothing, NoOutcome
<1> QED
    BY BaseInvariant, AnswerStep, KindStep, RefinementStep, <1>1, <1>2, PTL
    DEF Spec, ImplementsConfirmedService, Abstract!Spec

=============================================================================
