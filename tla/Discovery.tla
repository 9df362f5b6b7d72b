------------------------------- MODULE Discovery ------------------------------
(***************************************************************************)
(* Device discovery: Discover and Resolve of client/discover.go, which run *)
(* one Discover of apdu/client_discovery.go per broadcast target at once,  *)
(* and the dispatcher of I-Am indications they subscribe to.               *)
(*                                                                         *)
(* An indication is [id, src]: the instance of the device and the address  *)
(* it was heard from (network, B/IP address and MAC).  The receive loop    *)
(* handles one indication at a time.  The slices of results are sets:      *)
(* their order is that of arrival, and Discover sorts by instance.         *)
(***************************************************************************)
EXTENDS Octets, FiniteSets, SequencesExt

CONSTANTS
    Scenarios,  \* [op, low, high, cfg, iams]: what the client is asked, where op is
                \* "discover" or "resolve" and low and high are {} or a limit; its
                \* broadcast configuration; the indications that can be heard
    Capacity    \* capacity of a subscriber's channel (16 in the code)

ASSUME CapacityAssumption == Capacity \in Nat \ {0}
\* An indication has no other fields.
ASSUME IAmsAssumption == \A r \in Scenarios : \A i \in r.iams : i = [id |-> i.id, src |-> i.src]

VARIABLES
    taken,    \* another handler for I-Am is registered with the user element
    iam,      \* the dispatcher: [registered, user], user a registered IAmHandler
    req,      \* {} or the request of the client
    call,     \* the Discover of each target: [pc, out, err]
    chan,     \* the channel of each target: [open, queue]
    ctx,      \* whether the context of collect is done
    inbound,  \* {} or the indication being dispatched and the channels left
    panicked, \* whether a send on a closed channel ended the program
    found,    \* collect: what the calls that ended have reported
    anyOK,    \* collect: whether one of them ended well
    result,   \* "none", "error", or "devices" of found
    heard     \* ghost: per target, the indications its channel took

vars == <<taken, iam, req, call, chan, ctx, inbound, panicked, found, anyOK, result, heard>>

(***************************************************************************)
(* The targets of a Who-Is.                                                *)
(***************************************************************************)
\* ip | ^mask, octet by octet, of a mask whose ones come first.
directedBroadcast(ip, mask) ==
    [i \in 1 .. 4 |-> ip[i] - (ip[i] % (256 - mask[i])) + (255 - mask[i])]

\* An interface has [up, broadcast, loopback, nets], a net [ip, mask]; want is
\* {} or the address to keep to.
detectBroadcasts(ifaces, want) ==
    UNION {{directedBroadcast(n.ip, n.mask) :
                n \in {m \in f.nets : Len(m.ip) = 4 /\ want \subseteq {m.ip}}} :
            f \in {g \in ifaces : g.up /\ g.broadcast /\ ~g.loopback}}

\* broadcastTargets; {} is an error.
broadcastTargets(cfg) ==
    LET detected == detectBroadcasts(cfg.interfaces, cfg.interface)
    IN  IF cfg.broadcast # {} THEN {b \in cfg.broadcast : Len(b) = 4}
        ELSE IF detected = {} THEN {<<255, 255, 255, 255>>} ELSE detected

MaxInstanceNumber == 4194303
NewDeviceInstance(n) == When(n <= MaxInstanceNumber, n)
NewWhoIsRequestWithLimits(low, high) == When(low <= high, [low |-> {low}, high |-> {high}])

\* buildWhoIs of Discover and the request of Resolve; low and high are {} or a limit.
buildWhoIs(r) ==
    IF r.op = "discover" /\ r.low = {} /\ r.high = {} THEN {[low |-> {}, high |-> {}]}
    ELSE IF r.low = {} \/ r.high = {} THEN {}
    ELSE UNION {NewWhoIsRequestWithLimits(lo, hi) :
                    lo \in NewDeviceInstance(The(r.low)), hi \in NewDeviceInstance(The(r.high))}

\* The instance collect keeps to; 0 stands for all.
wantInstance(r) == IF r.op = "resolve" THEN The(r.low) ELSE 0

Targets == DOMAIN call

(***************************************************************************)
(* Discover of a target.                                                   *)
(***************************************************************************)
\* Client.Discover or Client.Resolve up to collect's goroutines.
Start ==
    /\ req = {}
    /\ \E r \in Scenarios :
        LET ts == broadcastTargets(r.cfg)
        IN  /\ req' = {r}
            /\ IF buildWhoIs(r) = {} \/ ts = {}
               THEN result' = "error" /\ UNCHANGED <<call, chan, heard>>
               ELSE /\ call' = [t \in ts |-> [pc |-> "subscribe", out |-> {}, err |-> FALSE]]
                    /\ chan' = [t \in ts |-> [open |-> FALSE, queue |-> <<>>]]
                    /\ heard' = [t \in ts |-> {}]
                    /\ UNCHANGED result
    /\ UNCHANGED <<taken, iam, ctx, inbound, panicked, found, anyOK>>

Failing(t) == call' = [call EXCEPT ![t].pc = "collect", ![t].err = TRUE]

\* Subscribe; ensureRegisteredLocked fails when I-Am is handled elsewhere.
Subscribe(t) ==
    /\ ~panicked /\ call[t].pc = "subscribe"
    /\ IF taken THEN Failing(t) /\ UNCHANGED <<iam, chan>>
       ELSE /\ iam' = [iam EXCEPT !.registered = TRUE]
            /\ chan' = [chan EXCEPT ![t].open = TRUE]
            /\ call' = [call EXCEPT ![t].pc = "whois"]
    /\ UNCHANGED <<taken, req, ctx, inbound, panicked, found, anyOK, result, heard>>

\* The Who-Is is sent, or it cannot be and Discover returns its error.
WhoIs(t) ==
    /\ ~panicked /\ call[t].pc = "whois"
    /\ \/ call' = [call EXCEPT ![t].pc = "loop"]
       \/ call' = [call EXCEPT ![t].pc = "unsubscribe", ![t].err = TRUE]
    /\ UNCHANGED <<taken, iam, req, chan, ctx, inbound, panicked, found, anyOK, result, heard>>

\* Mutant of discoverDedupKey: devices are told apart by their instance alone.
dedupByInstance(i) == i.id

discoverDedupKey(i) == <<i.id, i.src>>

\* The select of Discover: an indication, ...
Collect(t) ==
    /\ ~panicked /\ call[t].pc = "loop" /\ chan[t].queue # <<>>
    /\ LET i == Head(chan[t].queue)
           seen == \E j \in call[t].out : discoverDedupKey(j) = discoverDedupKey(i)
       IN  call' = IF seen THEN call ELSE [call EXCEPT ![t].out = @ \cup {i}]
    /\ chan' = [chan EXCEPT ![t].queue = Tail(@)]
    /\ UNCHANGED <<taken, iam, req, ctx, inbound, panicked, found, anyOK, result, heard>>

\* Mutant of WindowEnds: a waiting indication goes first, always.
WindowEndsWhenQuiet(t) ==
    /\ ~panicked /\ call[t].pc = "loop" /\ chan[t].queue = <<>>
    /\ call' = [call EXCEPT ![t].pc = "unsubscribe"]
    /\ UNCHANGED <<taken, iam, req, chan, ctx, inbound, panicked, found, anyOK, result, heard>>

\* ... the end of the window, or of the context; the channel may hold more.
WindowEnds(t) ==
    /\ ~panicked /\ call[t].pc = "loop"
    /\ call' = [call EXCEPT ![t].pc = "unsubscribe"]
    /\ UNCHANGED <<taken, iam, req, chan, ctx, inbound, panicked, found, anyOK, result, heard>>

ContextEnds(t) ==
    /\ ~panicked /\ call[t].pc = "loop" /\ ctx
    /\ call' = [call EXCEPT ![t].pc = "unsubscribe", ![t].err = TRUE]
    /\ UNCHANGED <<taken, iam, req, chan, ctx, inbound, panicked, found, anyOK, result, heard>>

\* The deferred Unsubscribe: the channel is closed.
Unsubscribe(t) ==
    /\ ~panicked /\ call[t].pc = "unsubscribe"
    /\ chan' = [chan EXCEPT ![t].open = FALSE]
    /\ call' = [call EXCEPT ![t].pc = "collect"]
    /\ UNCHANGED <<taken, iam, req, ctx, inbound, panicked, found, anyOK, result, heard>>

(***************************************************************************)
(* collect and what Discover and Resolve make of it.                       *)
(***************************************************************************)
\* Mutant of Wanted: the range of the Who-Is is trusted.
WantedAny(i) == TRUE

Wanted(i) == \E r \in req : wantInstance(r) \in {0, i.id}

\* The goroutine of a target merges what its Discover returned.
Merge(t) ==
    /\ ~panicked /\ call[t].pc = "collect"
    /\ found' = IF call[t].err THEN found
                ELSE found \cup {i \in call[t].out : Wanted(i)}
    /\ anyOK' = (anyOK \/ ~call[t].err)
    /\ call' = [call EXCEPT ![t].pc = "done"]
    /\ UNCHANGED <<taken, iam, req, chan, ctx, inbound, panicked, result, heard>>

\* After wg.Wait: Resolve wants exactly one device.
Finish ==
    /\ ~panicked /\ result = "none" /\ Targets # {} /\ \A t \in Targets : call[t].pc = "done"
    /\ result' = IF ~anyOK \/ (\E r \in req : r.op = "resolve" /\ Cardinality(found) # 1)
                 THEN "error" ELSE "devices"
    /\ UNCHANGED <<taken, iam, req, call, chan, ctx, inbound, panicked, found, anyOK, heard>>

\* The context of the caller, or the timeout collect adds to it.
Cancel ==
    /\ ~ctx /\ req # {}
    /\ ctx' = TRUE
    /\ UNCHANGED <<taken, iam, req, call, chan, inbound, panicked, found, anyOK, result, heard>>

(***************************************************************************)
(* The dispatcher.                                                         *)
(***************************************************************************)
\* RegisterIAmHandler.
RegisterHandler ==
    /\ ~iam.user /\ ~taken
    /\ iam' = [registered |-> TRUE, user |-> TRUE]
    /\ UNCHANGED <<taken, req, call, chan, ctx, inbound, panicked, found, anyOK, result, heard>>

\* onInbound up to the user's handler: the channels subscribed now are copied.
\* Without a channel the rest of it changes nothing.
OnInbound ==
    /\ ~panicked /\ inbound = {} /\ iam.registered
    /\ \E t \in Targets : chan[t].open
    /\ \E i \in UNION {r.iams : r \in req} :
        inbound' = {[iam |-> i, to |-> {t \in Targets : chan[t].open},
                     user |-> iam.user, stage |-> "user"]}
    /\ UNCHANGED <<taken, iam, req, call, chan, ctx, panicked, found, anyOK, result, heard>>

\* The user's handler; its error keeps the indication from every subscriber.
UserHandler ==
    /\ ~panicked
    /\ \E m \in inbound :
        /\ m.stage = "user"
        /\ \/ inbound' = {[m EXCEPT !.stage = "send"]}
           \/ m.user /\ inbound' = {}
    /\ UNCHANGED <<taken, iam, req, call, chan, ctx, panicked, found, anyOK, result, heard>>

\* One channel of the copy: a send on a closed channel panics, and a full one
\* is passed over.
Send(t) ==
    /\ ~panicked
    /\ \E m \in inbound :
        /\ m.stage = "send" /\ t \in m.to
        /\ IF ~chan[t].open THEN panicked' = TRUE /\ UNCHANGED <<chan, heard, inbound>>
           ELSE /\ IF Len(chan[t].queue) < Capacity
                   THEN /\ chan' = [chan EXCEPT ![t].queue = Append(@, m.iam)]
                        /\ heard' = [heard EXCEPT ![t] = @ \cup {m.iam}]
                   ELSE UNCHANGED <<chan, heard>>
                /\ inbound' = IF m.to = {t} THEN {} ELSE {[m EXCEPT !.to = @ \ {t}]}
                /\ UNCHANGED panicked
    /\ UNCHANGED <<taken, iam, req, call, ctx, found, anyOK, result>>

Init ==
    /\ taken \in BOOLEAN
    /\ iam = [registered |-> FALSE, user |-> FALSE]
    /\ req = {} /\ call = <<>> /\ chan = <<>> /\ heard = <<>>
    /\ ctx = FALSE /\ inbound = {} /\ panicked = FALSE
    /\ found = {} /\ anyOK = FALSE /\ result = "none"

OfTarget(t) ==
    \/ Subscribe(t) \/ WhoIs(t) \/ Collect(t) \/ WindowEnds(t) \/ ContextEnds(t)
    \/ Unsubscribe(t) \/ Merge(t) \/ Send(t)

Next ==
    \/ Start \/ Finish \/ Cancel \/ RegisterHandler \/ OnInbound \/ UserHandler
    \/ \E t \in Targets : OfTarget(t)

\* The goroutines of collect are scheduled and the timer of a window fires.
AllTargets == UNION {broadcastTargets(r.cfg) : r \in Scenarios}
Progress(t) ==
    t \in Targets /\ (Subscribe(t) \/ WhoIs(t) \/ WindowEnds(t) \/ Unsubscribe(t) \/ Merge(t))

Spec ==
    /\ Init /\ [][Next]_vars
    /\ WF_vars(Finish) /\ \A t \in AllTargets : WF_vars(Progress(t))

(***************************************************************************)
(* Properties.                                                             *)
(***************************************************************************)
Asked(i) == \E r \in req : r.op = "resolve" => r.low = {i.id}

\* Every indication that the channel of a target took, if its Discover ended
\* well, is in the result, unless the window ended before it was read: devices
\* that share an instance are told apart, and a target that fails takes nothing
\* from the others (Discover, collect).
HeardIsReported ==
    result = "devices" =>
        \A t \in Targets : ~call[t].err =>
            {i \in heard[t] : Asked(i)} \subseteq found \cup ToSet(chan[t].queue)

\* The result has only devices that were heard by a target that ended well,
\* and Resolve gives the one device with the instance it was asked for, however
\* many other devices announce themselves meanwhile (Resolve, collect).  Not so
\* Resolve(0): collect takes a wanted instance of 0 for none, and keeps them all.
ResultRight ==
    result = "devices" =>
        /\ \A i \in found : Asked(i) /\ \E t \in Targets : ~call[t].err /\ i \in heard[t]
        /\ \A r \in req : r.op = "resolve" => Cardinality(found) = 1

\* A Discover or Resolve returns although indications keep arriving and a
\* context may end, unless the program has panicked.
DiscoverReturns == (req # {}) ~> (result # "none" \/ panicked)

\* No indication is sent on the channel of a Discover that has returned:
\* discoveries may run concurrently and end at any time (onInbound sends on
\* the copy it made, Unsubscribe closes the channel).
NoSendOnClosed == ~panicked
===============================================================================
