----------------------------- MODULE ForeignDevice ----------------------------
(***************************************************************************)
(* Foreign devices that register with a BBMD (device.go), over a network   *)
(* that delays, reorders and loses datagrams, and an administrator who     *)
(* reads and changes the tables of the BBMD.                               *)
(*                                                                         *)
(* The repository has the handlers of the BBMD but no program that reads a *)
(* socket and calls them; Serve stands for it.  A datagram to a device     *)
(* stays in the device's socket until a call reads it, however many calls  *)
(* have ended before.                                                      *)
(***************************************************************************)
EXTENDS BBMD

CONSTANTS
    Devices,       \* the devices
    Addr,          \* the address of each
    Seen,          \* the addresses the BBMD's socket may report for each: a
                   \* dual-stack socket gives the IPv4 address the IPv6 form
    Ttl,           \* the time to live each registers with
    WithDeadline,  \* the devices whose connection has SetReadDeadline
    Bbmd,          \* the address of the BBMD
    Noise,         \* other datagrams that reach a device: [to, from, data]
    WriteRequests, \* Write-Broadcast-Distribution-Table requests
    MaxCalls,      \* bound: calls of RegisterAsForeignDevice, per device
    MaxNoise       \* bound: other datagrams

ASSUME SeenAssumption == \A d \in Devices : Seen[d] \subseteq AddrPort
ASSUME WithDeadlineAssumption == WithDeadline \subseteq Devices
\* NewDeviceIp4 refuses a time to live of 0, and a TTL is a uint16.
ASSUME TtlAssumption == Ttl \in [Devices -> 1 .. MaxUint16]
ASSUME WriteRequestsAssumption == \A w \in WriteRequests : w.entries \in Seq(BdtEntries)
\* A BBMD sends a result in answer to a request only.
ASSUME NoiseAssumption ==
    \A n \in Noise : n.to \in Devices /\ (n.from = Bbmd => BVLCResultDecode(n.data) = {})

VARIABLES
    dev,       \* the call of each device: [pc, calls, result]
    requests,  \* registrations on their way to the BBMD: [src, data]
    inbox,     \* datagrams on their way to a device or in its socket
    noise,     \* how many other datagrams there were
    granted,   \* ghost: devices the BBMD registered during their present call
    failed     \* ghost: devices with a call that ended without its answer

devices == <<dev, requests, inbox, noise, granted, failed>>
vars == <<bdt, fdt, reading, ticks, lease, live, written, ack,
          dev, requests, inbox, noise, granted, failed>>

\* Mutant of supportsReadDeadline: the deadline is never set.
NoDeadline(d) == FALSE

supportsReadDeadline(d) == d \in WithDeadline

Return(d, result) == dev' = [dev EXCEPT ![d].pc = "idle", ![d].result = result]

\* RegisterAsForeignDevice up to the loop.  NewDeviceIp4 refused a time to
\* live of 0, so that a request can be built; the write, or then setting the
\* deadline, may fail.
RegisterAsForeignDevice(d) ==
    /\ dev[d].pc = "idle" /\ dev[d].calls < MaxCalls[d]
    /\ granted' = granted \ {d}
    /\ \E req \in NewRegister(Ttl[d]) : \E data \in RegisterEncode(req) :
        \/ /\ dev' = [dev EXCEPT ![d].pc = "read", ![d].calls = @ + 1, ![d].result = "none"]
           /\ requests' = requests \cup {[src |-> d, data |-> data, call |-> dev[d].calls + 1]}
           /\ UNCHANGED failed
        \/ /\ dev' = [dev EXCEPT ![d].calls = @ + 1, ![d].result = "error"]
           /\ UNCHANGED <<requests, failed>>
        \/ /\ supportsReadDeadline(d)
           /\ dev' = [dev EXCEPT ![d].calls = @ + 1, ![d].result = "error"]
           /\ requests' = requests \cup {[src |-> d, data |-> data, call |-> dev[d].calls + 1]}
           /\ failed' = failed \cup {d}
    /\ ack' = {}
    /\ UNCHANGED <<bdt, fdt, reading, ticks, lease, live, written, inbox, noise>>

\* Mutant of Outcome: the sender of the result is not looked at.
OutcomeOfAnybody(d, r) ==
    LET skip == IF supportsReadDeadline(d) THEN "again" ELSE "error"
        results == BVLCResultDecode(r.data)
    IN  IF results = {} THEN skip
        ELSE IF The(results).resultCode = CodeSuccess THEN "nil" ELSE "rejected"

\* What the loop makes of a datagram: it reads on or the call returns.
Outcome(d, r) ==
    LET skip == IF supportsReadDeadline(d) THEN "again" ELSE "error"
        results == BVLCResultDecode(r.data)
    IN  IF r.from # Bbmd \/ results = {} THEN skip
        ELSE IF The(results).resultCode = CodeSuccess THEN "nil" ELSE "rejected"

Read(d) ==
    /\ dev[d].pc = "read"
    /\ \E r \in {x \in inbox : x.to = d} :
        /\ IF Outcome(d, r) = "again" THEN UNCHANGED <<dev, failed>>
           ELSE /\ Return(d, Outcome(d, r))
                /\ failed' = IF Outcome(d, r) = "error" THEN failed \cup {d} ELSE failed
        /\ inbox' = inbox \ {r}
    /\ ack' = {}
    /\ UNCHANGED <<bdt, fdt, reading, ticks, lease, live, written, requests, noise, granted>>

\* The read fails: the deadline of 5 seconds has passed, or the socket has an error.
ReadFails(d) ==
    /\ dev[d].pc = "read"
    /\ Return(d, "error")
    /\ failed' = failed \cup {d}
    /\ ack' = {}
    /\ UNCHANGED <<bdt, fdt, reading, ticks, lease, live, written, requests, inbox, noise, granted>>

(***************************************************************************)
(* The network and the program around the handlers.                        *)
(***************************************************************************)
Serve ==
    /\ \E q \in requests : \E src \in Seen[q.src] : \E req \in RegisterDecode(q.data) :
        /\ HandleRegisterForeignDevice(src, req)
        /\ requests' = requests \ {q}
        /\ granted' = IF RegisterCode(src) = CodeSuccess /\ dev[q.src].pc = "read"
                            /\ dev[q.src].calls = q.call
                      THEN granted \cup {q.src} ELSE granted
        /\ \E r \in NewBVLCResult(RegisterCode(src)) : \E data \in BVLCResultEncode(r) :
            inbox' = inbox \cup {[to |-> q.src, from |-> Bbmd, data |-> data, call |-> q.call]}
    /\ UNCHANGED <<dev, noise, failed>>

Other ==
    /\ noise < MaxNoise
    /\ \E n \in Noise :
        inbox' = inbox \cup {[to |-> n.to, from |-> n.from, data |-> n.data, call |-> 0]}
    /\ noise' = noise + 1 /\ ack' = {}
    /\ UNCHANGED <<bdt, fdt, reading, ticks, lease, live, written, dev, requests, granted, failed>>

Lose ==
    /\ \/ \E q \in requests : requests' = requests \ {q} /\ UNCHANGED inbox
       \/ \E r \in inbox : inbox' = inbox \ {r} /\ UNCHANGED requests
    /\ ack' = {}
    /\ UNCHANGED <<bdt, fdt, reading, ticks, lease, live, written, dev, noise, granted, failed>>

\* The administrator's requests to the tables.
AdminDelete ==
    /\ \E d \in Devices : \E e \in NewFdtEntry(Addr[d], Ttl[d]) :
        \E m \in NewDeleteFDTEntry(e) : \E data \in DeleteFDTEntryEncode(m) :
            \E req \in DeleteFDTEntryDecode(data) : HandleDeleteForeignDeviceTableEntry(req)
    /\ UNCHANGED devices

AdminPurge == PurgeFDT /\ UNCHANGED devices
AdminBuild == BuildFDT /\ UNCHANGED devices

AdminWrite ==
    /\ \E req \in WriteRequests : HandleWriteBroadcastDistributionTable(req)
    /\ UNCHANGED devices

AdminReadBDT == HandleReadBroadcastDistributionTable /\ UNCHANGED devices

Clock == Tick /\ UNCHANGED devices

Init ==
    /\ TablesInit
    /\ dev = [d \in Devices |-> [pc |-> "idle", calls |-> 0, result |-> "none"]]
    /\ requests = {} /\ inbox = {} /\ noise = 0
    /\ granted = {} /\ failed = {}

Next ==
    \/ \E d \in Devices : RegisterAsForeignDevice(d) \/ Read(d) \/ ReadFails(d)
    \/ Serve \/ Other \/ Lose
    \/ AdminDelete \/ AdminPurge \/ AdminBuild \/ AdminWrite \/ AdminReadBDT
    \/ Clock

\* A deadline passes, where there is one.
Fairness == \A d \in {x \in Devices : supportsReadDeadline(x)} : WF_vars(ReadFails(d))

Spec == Init /\ [][Next]_vars /\ Fairness

(***************************************************************************)
(* Properties.                                                             *)
(***************************************************************************)
\* A call that returns nil was registered by the BBMD while it ran, whatever
\* else the device received, unless an earlier call of the device had given up
\* waiting: the answer it left in the socket is taken for the new one
\* (RegisterAsForeignDevice, the checks of the loop against Serve).
NilMeansRegistered ==
    \A d \in Devices :
        dev[d].result = "nil" /\ dev[d].pc = "idle" => d \in granted \/ d \in failed

\* A call on a connection with a read deadline returns, although its request
\* or its answer is lost and other datagrams keep arriving.
RegisterReturns == \A d \in WithDeadline : dev[d].pc = "read" ~> dev[d].pc = "idle"
===============================================================================
