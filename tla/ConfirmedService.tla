-------------------------- MODULE ConfirmedService --------------------------
(***************************************************************************)
(* What apdu.ASE promises to a goroutine that calls                        *)
(* BeginConfirmedServiceRequest, without invoke IDs, tables, channels or   *)
(* the goroutines that implement it.  A call is refused, or it is opened,  *)
(* transmitted a bounded number of times, and returns exactly one outcome. *)
(* An outcome that carries a service answer (ACK, Error) is the answer of  *)
(* the peer and the service the call was made to, and to a request that    *)
(* really was transmitted; ErrASEClosed is reported only after Close.      *)
(***************************************************************************)
EXTENDS Naturals

CONSTANTS
    Calls,        \* calls to BeginConfirmedServiceRequest, one per goroutine
    Peer,         \* the destination of each call
    Service,      \* the service choice of each call
    MaxRetries    \* ASEConfig.APDURetries

VARIABLES
    closed,          \* Close has been called
    phase,           \* new -> open -> returned
    transmissions,   \* how often the request was put on the network
    outcome          \* what the call returned

svars == <<closed, phase, transmissions, outcome>>

\* Outcomes that BeginConfirmedServiceRequest produces before it owns a transaction.
Refusals == {"Invalid", "NoInvokeID", "ASEClosed"}

\* Outcomes taken from a PDU of the peer that names the service.
ServiceAnswers == {"ACK", "Error"}

\* Every other outcome of an open call.
Failures == {"Abort", "SegmentationNotSupported", "Transport", "Encode",
             "Timeout", "Context", "InvalidTransition", "ASEClosed"}

NoOutcome == "none"

Init ==
    /\ closed = FALSE
    /\ phase = [c \in Calls |-> "new"]
    /\ transmissions = [c \in Calls |-> 0]
    /\ outcome = [c \in Calls |-> NoOutcome]

Begin(c) ==
    /\ phase[c] = "new"
    /\ ~closed
    /\ phase' = [phase EXCEPT ![c] = "open"]
    /\ UNCHANGED <<closed, transmissions, outcome>>

Refuse(c, o) ==
    /\ phase[c] = "new"
    /\ o = "ASEClosed" => closed
    /\ phase' = [phase EXCEPT ![c] = "returned"]
    /\ outcome' = [outcome EXCEPT ![c] = o]
    /\ UNCHANGED <<closed, transmissions>>

Transmit(c) ==
    /\ phase[c] = "open"
    /\ transmissions[c] <= MaxRetries
    /\ transmissions' = [transmissions EXCEPT ![c] = @ + 1]
    /\ UNCHANGED <<closed, phase, outcome>>

Return(c, o) ==
    /\ phase[c] = "open"
    /\ o \in ServiceAnswers =>
         \E d \in Calls : /\ transmissions[d] > 0
                          /\ Peer[d] = Peer[c]
                          /\ Service[d] = Service[c]
    /\ o = "ASEClosed" => closed
    /\ phase' = [phase EXCEPT ![c] = "returned"]
    /\ outcome' = [outcome EXCEPT ![c] = o]
    /\ UNCHANGED <<closed, transmissions>>

Close ==
    /\ closed' = TRUE
    /\ UNCHANGED <<phase, transmissions, outcome>>

Next ==
    \/ \E c \in Calls :
         \/ Begin(c)
         \/ Transmit(c)
         \/ \E o \in Refusals : Refuse(c, o)
         \/ \E o \in ServiceAnswers \cup Failures : Return(c, o)
    \/ Close

Spec == Init /\ [][Next]_svars
=============================================================================
