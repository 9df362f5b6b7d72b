# A verification project for the BACnet library

The library under `src/` is a BACnet stack in Go: a confirmed-service client and
server (`apdu`), the network layer with a router (`npdu`, `npdu/router`),
BACnet/IP with BBMD tables (`bip`), value encoding (`encoding`), and a
high-level client (`client`, `client_runtime.go`). This directory holds TLA+
modules for these layers from the datagram to the calls of the high-level client,
TLC configurations for small instances, and proofs checked by TLAPS.
`PROJECT.json` lists components, runs, mutants, the map from definitions to source
lines, findings, hazards and theorems.

## 1. The system: inventory

| Component | State | Operations | Hard because |
|---|---|---|---|
| Client transactions (`apdu/ase.go`, `state_machine_client.go`) | `clientTransactions` (invoke ID → transaction), `nextInvokeID`, `closed`; per transaction a machine and a one-slot `done` channel | `BeginConfirmedServiceRequest`, `completeTransaction`, `failTransaction`, `Close` | caller, receive loop and `Close` act on the same transaction; the machine has no lock; timer against answer; invoke IDs wrap and are reused |
| Reception of segmented requests (`ase.go`, `state_machine_server.go`) | `inboundSegmentedServerEntries`, per entry a machine with buffer, window and duplicate counters, a deadline | `startSegmentedReceive`, `continueSegmentedReceive`, `timedOutCollector`, `Close` | loss, duplication, reordering; 8-bit sequence numbers; failed sends between `Handle` and the table update; the collector |
| Transmission of segmented responses (same files) | `outboundSegmentedServerEntries`, per entry a machine with offsets, numbers, window, retries | `dispatchToHandler`, `handleSegmentACK`, `handleSegmentedServerResponseACK`, `syncSegmentedServerResponseEntry`, `timedOutCollector`, `Close` | receive loop and collector drive the same machine; windows change under way; late Segment-ACKs |
| Server dispatch | handler tables, `inFlight` | `handleConfirmedRequest`, `dispatchToHandler`, the unconfirmed machines | duplicates while a handler runs; handlers run inside the receive loop |
| Router (`npdu/router`) | routes: network → port → record with expiry | add, learn, remove, look up, `Evaluate` | lazy expiry, loop suppression, preference between routes |
| BACnet/IP stack, transport, client runtime (`bip/stack.go`, `transport.go`, `client_runtime.go`) | socket, context, receive loop and the goroutine that watches the context | `Run`, `dispatchFrame`, `SendNPDU`, `Close` | which errors end the loop; shutdown from two sides; buffer sizes |
| Devices and BBMD tables (`bip/device.go`, `bbmd.go`) | broadcast distribution and foreign-device tables; a registration under way | register, read, write, delete, purge | expiry under saturating time, late answers, deadlines |
| Codecs: APDU, NPDU and network-layer messages, BVLC | none | encode, decode, constructors | flags, lengths, fields that depend on each other across three layers |
| Discovery (`apdu/client_discovery.go`, `client/discover.go`) | subscriptions and their bounded channels, the registered handler | `Discover`, `Resolve`, the I-Am dispatcher | one goroutine per subnet, a callback from the receive loop into channels that are closed |
| Reading and writing (`client/read.go`, `client/write.go`, the typed services of `apdu`) | none across calls | `ReadMultiple`, `ReadObjectList`, `WritePropertiesMultiple`, … | calls made of many requests; devices that lack ReadPropertyMultiple; repeated writes |
| COV, device control, value encoding, common types, command-line tool, examples | one COV handler | conversions, printing | – |

Interactions: `bip.Stack.Run` reads frames and calls `ASE.OnInboundNPDU` in one
goroutine, the *receive loop*; it runs `completeTransaction` and the confirmed
and unconfirmed handlers, the I-Am dispatcher among them. Every call of
`BeginConfirmedServiceRequest` is a goroutine of the application. `NewASE` starts one
more, `timedOutCollector`; `Stack.Run` starts one that closes the socket when the
context ends; a `Discover` of the high-level client starts one per broadcast
address. `Close` may be called from anywhere. They share the tables under `ASE.mu`,
but release it before they call `Handle`, send, or write to a channel.

What makes each component correct, in one line: a call returns exactly once with
an answer that is its own and leaves nothing behind; a handler is given a whole
request or nothing; a response that the server thinks complete was received, and
no response is forgotten; a router never forwards by a route that has expired and
never back where the packet came from; what a peer meant is what the receiver's
application gets, and its answer goes back to where it came from; nothing inside a frame
ends the receive loop, and a cancelled context always closes the socket; a foreign device
is listed for as long as its lease runs and no longer; a discovery reports every
device it heard once and nothing else; what a read returns the device had at the
time, for that very property, and a write that reports success was made.

## 2. Modules

| Module | Models |
|---|---|
| `ConfirmedService` | abstract: what the ASE promises a caller |
| `ClientASE` | client transactions and `confirmedClientMachine` |
| `SegmentedReceive` | reassembly of segmented requests |
| `SegmentedTransmit` | segmented ComplexACKs |
| `ServerDispatch` | serving of requests: handlers, duplicates, answers |
| `Router` | routing table and forwarding decisions |
| `Octets` | octet strings and optional results, used by all codecs |
| `BVLC`, `BVLCFunctions` | BVLC header, frame, table entries; the twelve functions |
| `NetworkMessages`, `NPDU` | network-layer messages; NPDUs |
| `APDUCodec` | the eight PDU types |
| `BIPStack` | receive loop, sending, shutdown; composes the codecs |
| `BBMD` | the two tables of a BBMD |
| `ForeignDevice` | devices that register with a BBMD; composes with `BBMD` and the BVLC codec |
| `Discovery` | `Discover`, `Resolve`, the I-Am dispatcher |
| `ObjectAccess` | reading and writing the properties of a device |
| `HighLevelClient` | composes `Discovery` and `ObjectAccess`: a target is resolved, then accessed |
| `ClientASEProof`, `SegmentedReceiveProof`, `SegmentedTransmitProof`, `ServerDispatchProof`, `RouterProof`, `ForeignDeviceProof`, `HighLevelClientProof`, `BIPStackProof` | theorems and proofs |
| `MC...` | the instances for TLC, one per composed module |

### ConfirmedService and ClientASE

`ConfirmedService` knows calls and outcomes only: a call is refused, or opened,
transmitted at most `MaxRetries + 1` times, and returns one outcome; a service
answer (ACK, Error) presupposes a transmitted request to the same peer and
service, and `ErrASEClosed` presupposes `Close`.

`ClientASE` has one program counter per call (`pc`), one for the receive loop
(`rpc`) and one for `Close` (`cpc`). A step is what happens between two points
where another goroutine can act: taking and releasing `ASE.mu`, reading the state
in the `switch` of `Handle`, assigning it, writing to `done`, reading it. Because
`confirmedClientMachine` has no lock, `Handle` is two steps (the switch on
`m.state`, and the assignment), so the caller, the loop and `Close` can all have
seen `AwaitResponse` before one of them leaves it. `done` is a slot: a sender
blocks while it is taken. `finishClientTransaction` deletes by invoke ID,
whichever transaction holds the ID by then. The network delivers any answer to a
request that was transmitted at any time and any number of times, and also
Segment-ACKs and Aborts of transactions in which the peer is the client.
`ImplementsConfirmedService` maps a call to *open* from registration to return and
the number of transmissions to `sent`.

### SegmentedReceive

One key (source, invoke ID). `Receive` is a lookup and `Handle` (which locks the
server machine): a new entry, a duplicate first segment, a continuation, or an
entry past its deadline. `Post` sends the Segment-ACK and then stores, refreshes or
deletes the entry; `SendFails` is the early return in between, which leaves the
table as it was. `Dispatch` hands the buffer to the handler. `Expire`, `Collect` and
`Close` come in between. A segment is a request and an index; its number on the
wire is the index modulo `SeqSpace`. The requester, external, keeps within the
window and may reuse its invoke ID (`NumRequests`).

### SegmentedTransmit

One key again, with `NumResponses` request PDUs answered under it, each by a machine
of its own. The receive loop and the collector are two *drivers* of the same
steps: look up (`ReceiveACK`, `Collect`), `Handle` (`HandleACK`, `CollectorHandle`),
send (`Send`, `SendFails`), bring the table in line with the machine (`Sync`). Payload
offsets are counted in segments; sequence numbers are not reduced modulo 256
because `canSegmentResponse` limits a response to 65 segments.

### ServerDispatch

The goroutines in `OnInboundNPDU` (`Threads`; `bip.Stack` has one, a program that
calls it itself may have more, as `apdu/ase_test.go:1881` does) with a program
counter each. `ReceiveRequest` checks and marks the key in one step under `ASE.mu`,
`DropDuplicate` is its early return, and `ReceiveAssembled` takes over from
`SegmentedReceive`, without a mark. `FindHandler` reads the handler table; the
handler then returns whatever it likes: an error, a result for someone else, a
response of any type, known or not, and length. The machine chooses the answer
(`Answer`), `Send`, `EncodeFails` and `SendFails` are the ends of
`sendConfirmedServerOutput`, and `Return` runs the deferred function that frees the
key. Sizes are real: `SegmentCount` is the arithmetic of
`segmentedResponseSegmentCount`, `SegmentsFrom` the cutting of the payload. The entry
of a segmented response (`responding`) is ended by `ResponseEnds`, which stands for
`SegmentedTransmit`, or by `Close`.

### Router

`routes` maps network and port to a record, `now` is the injected clock, and `reply` is
what the last call returned until the caller takes it (`Return`), so that invariants
can compare an answer with the table it was taken from. The router has no lock and
one caller; a call reads the clock once. Expired routes stay in `routes` until a
call prunes it, as in the code. A packet is its destination network, hop count,
source network and whether it is a network-layer message; the layouts of forwarded
and rejected NPDUs are reduced to port, kind and hop count. `Scan` is the loop of
`bestRouteLocked` in some order of the map, `Best` what it should find, `First` the
head of `LookupAll`'s sorted list.

### The codecs

Octets are numbers from 0 to 255 and messages sequences of them. An operation that
may fail returns a set of at most one result, `{}` for an error; a pointer that may
be nil is a set of at most one. Each message has its `Valid`, `Encode`, `Decode` and
constructor as in Go, with what they check and what they do not: a BVLC function
keeps the length of its header, and `Encode` allocates that many octets while `Decode`
never compares it with what it was given (only `DecodeFrame` does); so
`RegisterEncode` panics on a header length of 4 or 5 (`Panic`). `BVLCLength` is modulo
2^16, since some constructors convert without a check. `maxAPDUCodeForLength` rounds a
length up to the next code. The codecs have no state and no run of their own:
`BIPStack` sends through all of them and compares the two ends.

### BIPStack

The socket holds one datagram (`sock`, taken by `Receive` into the buffer of
`MaxDatagram` octets, which cuts what is longer); `conn` is whether it is open. `run` is
the receive loop, `watcher` the goroutine of `Stack.Run` that closes the socket once
the context is done, `closer` a call of `Client.Close` in its three steps (cancel the
context, close the ASE, close the transport). `Dispatch` is `dispatchFrame`: decode the
frame, take the NPDU out of the function, strip the NPCI, find the source, decode the
APDU; a failure of any of them is logged and skipped. A failure of `Receive` ends `Run`: a
closed socket, but also a datagram that `DecodeFrame` refuses, malformed or cut by the buffer.
`Answer` sends a reply to the source of what came last through `buildOutboundNPDU` and
`SendNPDU`. Peers, external, use the same encoders: directly, by broadcast, through a
router (with a source specifier), through a BBMD (Forwarded-NPDU), or as network-layer
messages; faulty senders cut, extend and alter datagrams (`Malformed`). A ghost field
says what the sender meant. The assumptions of the module say what a peer can send: an APDU
in the form both ends know (`Normal`: what a PDU type has no room for is zero; a request that
`encodeAPDU` refuses is none), from an address and by a way of wrapping it (`Sender`), or
a network-layer message that a constructor makes (`Constructed`). A message that `Encode`
refuses is not sent, so nothing is assumed of its validity.

### BBMD and ForeignDevice

An entry of the foreign-device table keeps the half seconds left until `expiresAt`;
half seconds, because `remainingTTL` rounds to whole ones. Each handler holds the
mutex throughout and is one step, but the clock moves between the purge and the
listing of a read (`PurgeFDT`, `BuildFDT`). The ghost `lease` records when each device
last registered, apart from the table. A device has a program counter
(`RegisterAsForeignDevice` sends, `Read` takes a datagram of its socket and may go on
waiting, `ReadFails` is the read deadline or an error of the socket) and an `inbox` that keeps datagrams across
calls. The grace period saturates at 65535 seconds, as the code does (`bbmd.go:136`,
`bvlc_functions.go:159,240`); the comments at `bbmd.go:78,82` say `ttl + 30` without the
cap. The repository has the handlers of a BBMD but no loop that calls them; `Serve`
stands for one, and `Admin…` for a program that reads and changes the tables.

### Discovery, ObjectAccess and HighLevelClient

`Discovery` has a program counter per broadcast target (`Subscribe`, `WhoIs`,
`Collect`, `WindowEnds` or `ContextEnds`, `Unsubscribe`, `Merge`), the caller (`Start`,
`Finish`) and the receive loop, which copies the subscriptions under the lock
(`OnInbound`), runs the user's handler, and sends to each copy in turn (`Send`): a
full channel drops the indication, a closed one panics. `broadcastTargets` is computed
from interfaces, masks and flags. A Who-Is range is checked as in
`NewDeviceInstance` and `NewWhoIsRequestWithLimits`.

`ObjectAccess` is one call: a list of requests still to be made (`todo`), the request
under way (`ask`), the answers on the network, and the device, external, with its
properties, its object list and its treatment of ReadPropertyMultiple. A request is
performed up to `MaxAttempts` times, a copy of a write even after its answer; others
change the device between requests. `AfterRead`, `AfterMultiple`, … are what the call
does with an answer: go on, fall back from ReadPropertyMultiple to single reads
(`rpmUnusable`), match results with references (`mapRPMResults`), stop or go on at an
error (`onError`), or read back. `HighLevelClient` lets a call whose target is an
instance begin when the Resolve of `Discovery` has found it; one whose target is an
address has no part in discovery and begins from its first state.

## 3. Runs

Deadlock is checked in `router`, whose table is never finished, and nowhere else: a
system in which all calls have returned and everything is closed has stopped, as it
should.

| Run | Instance | Shows |
|---|---|---|
| `client_reuse` | two calls for two services, one invoke ID, one retry, all kinds of PDU | no call leaves its transaction behind; the table stays empty after `Close`; before `Close` the loop never blocks; answers are only given to the right peer, service and ID |
| `client_live` | two calls, two IDs, a limit of one transaction, one retry | no waiting call is orphaned while IDs are fresh; every call returns; refinement of `ConfirmedService` |
| `close_hangs` | one call, one ID | **violated**: `Close` may never return |
| `receive` | two requests of four segments under one invoke ID, eight numbers, windows up to three, two duplicates | full sets of segments in order only; sound acknowledgements; entries leave the table |
| `transmit` | five segments, window two, announced windows 0, 1 and 3, so that it shrinks and grows again, one retry | numbering; completion only in the last window; the response is never lost; progress on full acknowledgements exactly when they announce no smaller window than was sent; it ends |
| `dispatch` | two goroutines, two keys, whole and assembled requests, limits of 50 and 60 bytes, payloads at the edge of one, two and three segments | one goroutine per key; exact duplicate marks; answered or reported; segments as counted; keys become free |
| `router` | three ports, two networks, routes that live one or three ticks, two ticks | live routes only; no echo; answers find their way back; every packet accounted for; no dependence on the order of the map |
| `stack` | messages of all PDU types, wrapped in every way, network-layer messages, control frames, malformed datagrams, answers as long as the buffer and longer; the code's sizes, 1476 octets announced and 1476 received | the application gets what was meant, from where it came; answers go back there; decoding and encoding again gives the same octets; network-layer messages survive; nothing inside a frame and no datagram of a peer that fits the buffer ends the loop; a cancelled context closes the socket, and a closed socket ends the loop unless `dispatchFrame` never returns |
| `stack_full` | the same sizes, an answer as long as is announced | **violated**: it ends the loop |
| `foreign` | two devices (time to live 1 with a read deadline, 65520 without), one seen in the IPv4-in-IPv6 form; jumps of half a second and of 30.5 seconds | reads of both tables are exact; the table matches the leases; `nil` means registered; a call with a deadline returns |
| `client_calls` | Discover and Resolve on no, one and two subnets with up to three indications, two of one instance, channels of one; reads and writes of a device with two or three objects, four kinds of devices, one change by others, two copies of a request | what was heard is reported once, and only what was asked for; results are of the device and of the property they are given for; an unchanged object list is read in full and in order; every call returns |
| `discover_panic` | two subnets, channels of 16 | **violated**: a send on a closed channel |

Bounds, and why they are enough. Two calls and one ID are the smallest instance in
which an ID is reused while a late goroutine still holds it; a third call adds
no new pair of actors on the same transaction. With two IDs and a limit of one, the
limit, not the ID space, refuses the second call. Four segments with a window of
three (five with a window of two) give a full window, a partial last one, and segments of an earlier
window that arrive late. Eight numbers stand for 256: the request fits, and number
comparison by subtraction still wraps. One retry separates the first attempt, a
repetition and the last failure. Two goroutines are enough for a race on one key,
and with assembled requests beside whole ones for one goroutine to free what another
has marked. Three ports give a packet an ingress, a way on and a second way that is
the source's or a worse route; within two ticks a route is learned, refreshed, and
expires in the very instant of a call. The theorems of section 4 lift these bounds
for the safety properties.

In `stack` one datagram is under way at a time: `dispatchFrame` keeps nothing from one to
the next, so more of them add only interleavings with the shutdown, which each meets
already. In `foreign`, `MaxTicks` of two lets a lease run out in one jump (a time to live
of one second and 30 of grace) and the clock move between the steps of a read; 65520 is
above the 65505 from which the grace period saturates. `MaxCalls` of two for the device with a
deadline is what a late answer needs to meet the next call. In `client_calls` a
channel of one instead of 16 fills up with two indications; three indications tell
apart equal instances and equal addresses; `MaxChanges` and `MaxAttempts` give one change
between two requests and one repetition, and each behaviour makes one access.

Fairness. `FairSpec` of `ClientASE`: a goroutine that can run is run, and an armed
timer fires; nothing is assumed of contexts, of `Close`, or of the network. `FairSpec`
of the two segmentation modules: the goroutines finish what they began, deadlines pass
and the collector's ticker ticks while the ASE is open. `BIPStack`: the receive loop
reads, the watcher runs, and a `Close` that has got past the ASE closes the socket; nobody
must send or cancel. `Dispatch` and `CloseASE` are not fair: handlers run inside
`dispatchFrame`, and after `Close` it may wait for ever to hand over an answer
(`ase.go:1250,1292`), as `ASE.Close` may (run `close_hangs`). `RunStops` is stated accordingly.
`ForeignDevice`: the read deadline of a device that has one fires; the network owes
nothing. `HighLevelClient`: the goroutines of a discovery run and its window ends; a
call goes on after an answer, and a request without an answer comes to its timeout
(the `CallsReturn` of `ClientASE`). All of these are promises of the Go runtime. `FairSpec` of
`ServerDispatch` assumes besides that handlers and `SendNPDU` return, which is up to the
application and the transport.

### Findings

- `close_hangs`: `Close` sends to `done` unconditionally (`ase.go:305`). A transaction
  that the receive loop looked up before `Close` emptied the table and completed
  afterwards has a full slot; when its caller has left by timeout, nobody reads it.
- `stack_full`: the receive buffer (`transport.go:120`) is as long as the longest APDU the
  client announces, 1476 octets, so an answer of that size with its NPCI and BVLC header,
  1482 octets, is cut, is no frame, and ends `Stack.Run`; `ici.go:146` and `stack.go:72`
  promise otherwise.
- The same `return` makes every malformed datagram end the loop
  (`MCBIPStack_malformed.cfg` below). `stack.go:72-73` says that frame-level errors, an unrecognised BVLC function
  among them, are skipped "so that a single bad datagram does not kill the loop".
  `ReceiveFrame` returns the error of `DecodeFrame` (too short, unknown type or function, wrong
  length) like a read error, and `Run` returns (`stack.go:90-95`). Only what fails after
  `DecodeFrame` is skipped, which is what `FramesKeepRun` of run `stack` says.
- `discover_panic`: the dispatcher sends on a copy of the subscriptions
  (`client_discovery.go:207`), one of which may have been closed meanwhile, while
  `client/client.go:101` calls the client safe for concurrent use.

### Further configurations

These are kept beside the runs, each with one property that fails. They show where
the properties above stop.

| Configuration | Property | Shows |
|---|---|---|
| `MCSegmentedReceive_wrap.cfg` (five segments, four numbers) | `Reassembled` | every segment numbered 0 is taken for a first segment (`ase.go:790`), also when the number has wrapped |
| `MCSegmentedReceive_reuse.cfg` (two requests, one invoke ID) | `Reassembled` | a first segment under a known key counts as a duplicate (`ase.go:807`): a request made of two |
| `MCSegmentedTransmit_partial.cfg` (four segments, window two) | `CompletedMeansReceived` | a positive Segment-ACK anywhere in the window counts for all of it |
| `MCBIPStack_malformed.cfg` (one letter, made malformed in every way) | `BadDatagramsSkipped` | a datagram that is no frame ends the receive loop (`stack.go:90-95`), against `stack.go:72-73` |
| `MCServerDispatch_oversize.cfg` (payloads of 47 and 48 bytes) | `FitsRequester` | the limit is compared with the payload alone (`state_machine_server.go:835`), while the client counts the header (`ase.go:1154`): an APDU of 51 bytes for a limit of 50 |

### Visible in the models

- The window a Segment-ACK announces replaces the old one before its number is compared
  (`state_machine_server.go:850-853`), so an acknowledgement of everything sent that announces
  a smaller window is answered by a retransmission, or by an Abort when no retry is left.
  `FullAckAdvances` says exactly when.
- `NeverStranded` needs `NumResponses = 1`. With two request PDUs under one key, the `Sync`
  of one machine displaces the entry of the other (`ase.go:647-655`), which then is neither
  retransmitted nor aborted.
- Several goroutines enter `Handle` of the same client machine
  (`state_machine_client.go:166`), which `apdu/README.md:22` asks to avoid; the safety
  properties and the refinement hold nevertheless.
- Requests that came in segments are never entered in `inFlightServerRequests`, although
  the comment on it (`ase.go:117`) speaks of every handler that is running: `OneAtATime`
  holds of unsegmented requests only.
- A handler that answers with a Reject or an Abort and more than one byte of payload, or
  with an unknown response type, leaves the requester without an answer (`EncodeFails`,
  `RespondUnknown`).
- `Client.Close` cancels the context and then closes the socket, which the watcher closes
  too: whichever comes second gets an error, so that `Close` returns one at random.
- `RegisterAsForeignDevice` sets its deadline of five seconds only on connections that have
  `SetReadDeadline`; those of `NewDatagramConn` have not, and a lost answer blocks the
  call for ever (`RegisterReturns` is about `WithDeadline` only). A late answer to a call
  that was given up is taken for that of the next one, so `NilMeansRegistered` says
  that the BBMD registered the device during the call only while no earlier call has failed.
- A dual-stack socket reports an IPv4 sender in the IPv6 form, which
  `HandleRegisterForeignDevice` refuses.
- A user handler that returns an error keeps an I-Am from every subscriber; `Resolve(0)`
  accepts the I-Am of any device, since 0 stands for "no instance wanted" (`discover.go:247`).
- `readProperty` does not compare object, property and index of an answer with the request
  (invoke ID, peer and service are compared below it); `ObjectAccess` relies on
  `AnswerMatches` of `ClientASE` here, which an invoke ID that is reused while an old answer is
  under way does not give.
- If the object list changes during `ReadObjectList`, an object that was in it all the time
  may be missed or reported twice; `ObjectListRight` is about lists that stay. The zero
  value of `ObjectListOptions.Device` is device 0, not the wildcard 4194303.

## 4. Theorems

Everything is proved for arbitrary values of the constants, under the named
assumptions of the modules.

`ClientASEProof`. `Base` is inductive: types; a registered transaction is held under
the ID of its call, which has begun and has not returned (`TableOK`); a call has an
ID exactly once it has started (`StartOK`); what the loop and `Close` hold is
consistent with their program counters, and before `Close` a transaction that is to be
answered has an empty slot (`RecvOK`, `CloseOK`); transmissions are bounded by
retries (`BudgetOK`); and the table is empty after `Close`. From it follow
`TypeCorrect`, `CallsLeaveNothing`, `CloseIsFinal` and `LoopNeverBlocks`.
`InvokesStayBounded` adds a cardinality argument, `NoCallOrphaned` the invariant
`Covered` (who owes a waiting call its answer), `AnswersMatch` the provenance of every
PDU and channel value (`AnswerOK`), and `Refinement` the outcomes a call may be about
to return (`KindOK`).

`SegmentedReceiveProof`, under `Fits` (no more segments than numbers, without which
`receive_wrap` is a counterexample): the buffer holds segments 0, 1, 2, … in order, the
next expected number is its length, and the window starts where the last acknowledged
one ended (`MachineOK`); a machine with all segments has exactly `Segments` of them
(`CompleteOK`). `AcksAreSound`, `WindowStaysOK`, `DispatchedInOrder` and, with a single
request per invoke ID, `RequestsReassembled` follow.

`SegmentedTransmitProof`: sequence numbers equal payload offsets in every machine
(`NumbersOK`), in every outbound list and on the network (`WireOK`). `NumbersAlwaysMatch`
follows for any number of responses. With a single request PDU per key,
`CompletionReachesLastWindow` (and with a window of one `SingleWindowCompletes`) uses that a
Segment-ACK names a segment the requester has (`AckOK`), and `NothingStranded` that
the driver that takes an entry out puts it back. `FullAcksAdvance` holds for any number of
responses and any announced windows: a machine that waits has sent at least one segment of its
window and no more than the window holds (`WindowInv`), so that the last segment sent lies in
the window announced exactly when that covers what was sent.

`ServerDispatchProof`: `IInv` adds to types that a goroutine that serves holds a request
and has not answered before it sends (`ThreadsOK`), and that a key is marked if and only
if a goroutine serves it, of which there is one (`MarksOK`): each of the two halves
needs the other, since freeing a key is only right when nobody else serves it.
`ServedOneAtATime`, `MarksAreExact`, `RequestsAnswered` and `TypeCorrect` follow, the
last with the bound of 65 segments that `SegmentedTransmit` assumes. `SegmentsCounted`
compares the cutting of a payload (`SegmentsFrom`) with the arithmetic of `SegmentCount`: by
induction on the offset, the rest of a payload is cut into as many segments as the division
says.

`RouterProof`: `IInv` is `TypeOK`, `ForwardsLive` and `Accounted`; lemmas say what pruning,
upserting and learning leave in a table and that each decision is of its type and uses
a route that survived the pruning. The action properties `ConnectedRoutesStay`,
`NothingEchoed` and `ReadsAreExact` follow from it, and `BestUnique` and `BestIsFirst` compare
the two orders on routes. `AnswersFindTheirWay` needs besides that no route was seen in the
future (`SeenOK`), so that a route learned from a packet is live when the packet goes on.
`LookupDeterministic` shows that the scan of `bestRouteLocked` gives the same route in
whatever order the map is read: by induction on the ports read, what the scan holds is the
best of them, and the best is unique.

`ForeignDeviceProof`: an entry of the foreign-device table has exactly the time left that
the last registration of its address gave it, no address is listed twice, and a lease that
has not run out is in the table (`TablesOK`); a request under way is the encoding of its
device's time to live and belongs to a call that has begun, and an answer of success in an
inbox belongs to a registration of the same device (`CallsOK`). `TableKeepsLeases` and
`NilOnlyIfRegistered` follow for any devices, times to live and clocks; they need that the
codec of the messages exchanged gives back what was encoded, which the lemmas prove octet by
octet. `ReadsAreExact` (of both tables) assumes `TablesFit`: no more entries than the 16-bit
length of a BVLC header can announce, 6553 in both tables. Beyond that
`NewReadForeignDeviceTableAck` and `NewReadBroadcastDistributionTableAck` convert without a check.

`HighLevelClientProof` has an invariant for each half. `DiscoveryOK`: what a channel took waits in it
or was collected (`NothingLost`), and what was found is what the targets that ended well have
merged (`FoundOK`). `NothingHeardIsLost` and `OnlyHeardIsReported` follow; the latter assumes
`InstancesNonzero`, since `collect` takes a wanted instance of 0 for "any" (`discover.go:247`)
although device 0 is a legal argument of `Resolve`. `AccessOK`: every answer under way is one
the device gave to this very request (`AskOK`); the results so far, together with the
references still to be read, are those of the request in its order (`PhaseOK`); all
values the device has are among those seen since the call began (`DeviceOK`). `CallsReflectDevice`
and `ObjectListsRight` follow for any objects, requests, kinds of devices and changes; the latter
by induction on the elements read.

`BIPStackProof` proves that each codec gives back what it was given, from the inside out: what
becomes of the pieces of an octet string (`Concatenation`, `PieceOctets`, `Split`), the frame
(`FrameBack`), the NPDU part by part (`NPDULayout` says where each part stands, `NPDUBack` that
`NPDUDecode` reads it there), the APDU type by type (`APDUBack`, which puts the fields of a blank
APDU one after the other), and the network-layer messages (`ConstructedBack`); a routing table,
whose entries have various lengths, goes by induction on the entries (`Prefixes`, `TableBack`).
`LoopInv` then says of every datagram that waits or is dispatched that `dispatchFrame` makes of it
what its sender meant, of what was handed up that it was that, and of every answer that it is read as
it was said. `LettersArriveAsMeant`, `AnswersFindSenders` and `EveryMessageSurvives` follow. The
converse, for every octet string, well-formed or not, is that what a decoder accepts is encoded
to the octets it was read from (`FrameCanonical`, `ReencodedSame` for the twelve functions,
`NPDUCanonical`); `OctetsAreCanonical` follows from it. `RunGoesOn` says what ends
the receive loop, for every buffer: by `LoopInv` the datagrams of peers are frames, so that one
that fits the buffer is none of it. The assumptions of `BIPStack` are those of section 2; TLC evaluates them.

`TypeCorrect` (of each module), `InvokesStayBounded`, `WindowStaysOK`, `RequestsReassembled`,
`SingleWindowCompletes`, `ConnectedRoutesStay`, the `ReadsAreExact` of the router, `BestUnique` and
`BestIsFirst` are not repeated as properties of a run: the theorem says more. The inductive
invariants were checked with TLC on the instances of the runs before they were proved.

The library's induction theorems take an operator, which the provers cannot instantiate. Where
a proof goes by induction, it takes a least counterexample instead: `WFMin` with
`NatLessThanWellFounded` gives the smallest number that violates the claim.

Only model-checked: the liveness properties `CallsReturn`, `EntriesGoAway`,
`ResponsesEnd`, `KeysFreed`, `RunStops`, `RegisterReturns` and `ClientReturns` (fairness is out of
the proof system's reach). Every invariant and every action property of the passing runs is stated
by a theorem, under the conditions named above.

## 5. Not modelled

- The tags and values of application data (`encoding`, the service parameters in `apdu`):
  sequential conversions without state, long recursive byte grammars for which unit tests
  are the better tool; the modules above carry values and service payloads whole.
- COV and device control: each is one confirmed request (`ClientASE`) around an encoding; the
  registration of the notification handler is that of `ServerDispatch`.
- `ReadRange`, Who-Has, time synchronization and the sending of unconfirmed requests: a single
  send without state.
- ICI types, errors and their texts, common types, logging, the command-line tool and the
  examples.
- Handlers of the application, peers, devices, the socket and its loop in a BBMD are
  external: modelled by all they can do to the code, not by code.
- `withGlobalBroadcast` stamps a network number on a broadcast address, which `Discovery` does
  not use; the check for an object without values in `WritePropertiesMultiple` is that
  of the empty list, since a write is one reference and value here. Limits and device numbers
  beyond 2147483647 are left out, of which `uint32` would cut those from 2^32 on. A device of
  `ObjectAccess` answers with values of the right type, so the "unexpected type" errors of
  `readArrayCount` and `readObjectListElement` do not occur.

## 6. Plan

1. A handler that makes a confirmed request itself: `ServerDispatch` with `ClientASE`.
2. COV subscriptions beside reads and writes in `ObjectAccess`.
