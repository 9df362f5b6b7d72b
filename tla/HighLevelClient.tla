---------------------------- MODULE HighLevelClient ---------------------------
(***************************************************************************)
(* A call on the high-level client (client.Client): Discover, Resolve, or  *)
(* an access to a device.  The target of an access is an address, or a     *)
(* device instance that Resolve looks up first (resolveTarget).            *)
(***************************************************************************)
EXTENDS Discovery, ObjectAccess

clientVars == <<vars, accessVars>>

\* The dispatcher of I-Ams has no part in an access by address: its first
\* state stands for all.
Untouched == req = {} /\ ~taken /\ ~iam.registered

\* resolveTarget, and the access that follows it.
BeginAccess ==
    /\ \E r \in Requests :
        IF r.instance = {} THEN Untouched /\ Begin(r, TRUE)
        ELSE /\ \E s \in req : s.op = "resolve" /\ s.low = r.instance
             /\ result # "none"
             /\ Begin(r, result = "devices" /\ Cardinality(found) = 1)
    /\ UNCHANGED vars

ClientInit == Init /\ AccessInit

ClientNext ==
    \/ BeginAccess
    \/ access.phase = "idle" /\ Next /\ UNCHANGED accessVars
    \/ AccessNext /\ UNCHANGED vars

\* The caller's goroutine runs on, and a request that is not answered ends with
\* its budget (requestBudget); for Discovery see Spec.
ClientSpec ==
    /\ ClientInit /\ [][ClientNext]_clientVars
    /\ WF_clientVars(Finish /\ UNCHANGED accessVars)
    /\ \A t \in AllTargets : WF_clientVars(Progress(t) /\ UNCHANGED accessVars)
    /\ WF_clientVars(Issue /\ UNCHANGED vars) /\ WF_clientVars(Unanswered /\ UNCHANGED vars)

(***************************************************************************)
(* Properties.                                                             *)
(***************************************************************************)
\* A call returns: a Discover or Resolve although indications keep arriving
\* and a context may end, unless the program has panicked, and an access
\* although the device changes or falls silent.
ClientReturns ==
    /\ DiscoverReturns
    /\ access.phase # "idle" ~> access.phase = "done"
===============================================================================
