------------------------- MODULE HighLevelClientProof -------------------------
(***************************************************************************)
(* Proofs about the calls on the high-level client: what Discover and      *)
(* Resolve report, for any subnets, devices and channel capacity, and what *)
(* reading and writing return, for any device, requests and changes.       *)
(***************************************************************************)
EXTENDS HighLevelClient, SequenceTheorems, NaturalsInduction, WellFoundedInduction, TLAPS

-----------------------------------------------------------------------------
(* Discovery: the inductive invariant *)

Indications == UNION {r.iams : r \in Scenarios}

DiscoverCall ==
    [pc : {"subscribe", "whois", "loop", "unsubscribe", "collect", "done"},
     out : SUBSET Indications, err : BOOLEAN]
Channel == [open : BOOLEAN, queue : Seq(Indications)]
Message == [iam : Indications, to : SUBSET Targets, user : BOOLEAN, stage : {"user", "send"}]

\* What the goroutine of a target has merged.
Merged(t) == IF call[t].pc = "done" /\ ~call[t].err
             THEN {i \in call[t].out : Wanted(i)} ELSE {}

TypesOK ==
    /\ req \subseteq Scenarios
    /\ call \in [Targets -> DiscoverCall]
    /\ chan \in [Targets -> Channel]
    /\ heard \in [Targets -> SUBSET Indications]
    /\ iam \in [registered : BOOLEAN, user : BOOLEAN]
    /\ inbound \subseteq Message

\* What a channel took is waiting in it or was collected.
NothingLost == \A t \in Targets : heard[t] = call[t].out \cup ToSet(chan[t].queue)

FoundOK == found = UNION {Merged(t) : t \in Targets}

StagesOK ==
    /\ req = {} => Targets = {} /\ result = "none" /\ inbound = {}
    /\ result = "devices" =>
        /\ \A t \in Targets : call[t].pc = "done"
        /\ \A r \in req : r.op = "resolve" => Cardinality(found) = 1

DiscoveryOK == TypesOK /\ NothingLost /\ FoundOK /\ StagesOK

-----------------------------------------------------------------------------
(* Lemmas *)

\* The elements of a queue.
LEMMA QueueElements ==
    ASSUME NEW S, NEW q \in Seq(S)
    PROVE  /\ \A x \in S : /\ Append(q, x) \in Seq(S)
                           /\ ToSet(Append(q, x)) = ToSet(q) \cup {x}
           /\ q # <<>> => /\ Head(q) \in S /\ Tail(q) \in Seq(S)
                          /\ ToSet(q) = {Head(q)} \cup ToSet(Tail(q))
<1>1. ASSUME NEW x \in S
      PROVE  Append(q, x) \in Seq(S) /\ ToSet(Append(q, x)) = ToSet(q) \cup {x}
  <2>1. /\ Append(q, x) \in Seq(S) /\ Len(Append(q, x)) = Len(q) + 1
        /\ \A i \in 1 .. Len(q) : Append(q, x)[i] = q[i]
        /\ Append(q, x)[Len(q) + 1] = x
    BY AppendProperties
  <2>2. DOMAIN q = 1 .. Len(q) /\ DOMAIN Append(q, x) = 1 .. Len(Append(q, x)) /\ Len(q) \in Nat
    BY <2>1
  <2> QED BY <2>1, <2>2 DEF ToSet
<1>2. ASSUME q # <<>>
      PROVE  Head(q) \in S /\ Tail(q) \in Seq(S) /\ ToSet(q) = {Head(q)} \cup ToSet(Tail(q))
  <2>1. /\ Head(q) \in S /\ Tail(q) \in Seq(S) /\ Len(Tail(q)) = Len(q) - 1
        /\ \A i \in 1 .. Len(Tail(q)) : Tail(q)[i] = q[i + 1]
        /\ Head(q) = q[1] /\ Len(q) \in Nat /\ Len(q) # 0
    BY <1>2, HeadTailProperties, EmptySeq
  <2>2. DOMAIN q = 1 .. Len(q) /\ DOMAIN Tail(q) = 1 .. Len(q) - 1
    BY <2>1
  <2>3. ASSUME NEW i \in DOMAIN q PROVE q[i] \in {Head(q)} \cup ToSet(Tail(q))
    <3>1. CASE i = 1
      BY <2>1, <3>1
    <3>2. CASE i # 1
      <4>1. i - 1 \in DOMAIN Tail(q) /\ Tail(q)[i - 1] = q[i]
        BY <2>1, <2>2, <3>2
      <4> QED BY <4>1 DEF ToSet
    <3> QED BY <3>1, <3>2
  <2>4. ASSUME NEW i \in DOMAIN Tail(q) PROVE Tail(q)[i] \in ToSet(q)
    <3>1. i + 1 \in DOMAIN q /\ Tail(q)[i] = q[i + 1]
      BY <2>1, <2>2
    <3> QED BY <3>1 DEF ToSet
  <2>5. Head(q) \in ToSet(q)
    <3>1. 1 \in DOMAIN q
      BY <2>1, <2>2
    <3> QED BY <2>1, <3>1 DEF ToSet
  <2> QED BY <2>1, <2>3, <2>4, <2>5 DEF ToSet
<1> QED BY <1>1, <1>2

\* Indications with the same key are the same.
LEMMA KeyOfIndication ==
    ASSUME NEW i \in Indications, NEW j \in Indications, discoverDedupKey(i) = discoverDedupKey(j)
    PROVE  i = j
<1>1. i = [id |-> i.id, src |-> i.src] /\ j = [id |-> j.id, src |-> j.src]
    BY IAmsAssumption DEF Indications
<1>2. i.id = j.id /\ i.src = j.src
    BY DEF discoverDedupKey
<1> QED BY <1>1, <1>2

\* Which indications are wanted depends on the request alone.
LEMMA WantedStays ==
    ASSUME UNCHANGED req
    PROVE  \A i : Wanted(i)' = Wanted(i)
BY DEF Wanted

\* A step of the goroutine of a target that neither collects nor merges.
LEMMA QuietStep ==
    ASSUME DiscoveryOK, NEW t \in Targets, NEW c \in DiscoverCall, NEW h \in Channel,
           call[t].pc # "done", c.pc # "done", c.out = call[t].out, h.queue = chan[t].queue,
           call' = [call EXCEPT ![t] = c], chan' = [chan EXCEPT ![t] = h],
           iam' \in [registered : BOOLEAN, user : BOOLEAN],
           UNCHANGED <<req, inbound, found, result, heard>>
    PROVE  DiscoveryOK'
<1>0. TypesOK /\ NothingLost /\ FoundOK /\ StagesOK
    BY DEF DiscoveryOK
<1>1. /\ Targets' = Targets /\ call' \in [Targets -> DiscoverCall] /\ chan' \in [Targets -> Channel]
      /\ call'[t] = c /\ chan'[t] = h
      /\ \A u \in Targets \ {t} : call'[u] = call[u] /\ chan'[u] = chan[u]
    BY <1>0 DEF TypesOK, Targets
<1>2. TypesOK'
    BY <1>0, <1>1 DEF TypesOK, Message
<1>3. NothingLost'
    BY <1>0, <1>1 DEF NothingLost
<1>4. \A u \in Targets : Merged(u)' = Merged(u)
    BY <1>1, WantedStays DEF Merged
<1>5. FoundOK'
    BY <1>0, <1>1, <1>4 DEF FoundOK
<1>6. StagesOK'
    BY <1>0, <1>1 DEF StagesOK
<1> QED BY <1>2, <1>3, <1>5, <1>6 DEF DiscoveryOK

\* The steps of a target around its loop.
LEMMA QuietSteps ==
    ASSUME DiscoveryOK, NEW t \in Targets,
           Subscribe(t) \/ WhoIs(t) \/ WindowEnds(t) \/ ContextEnds(t) \/ Unsubscribe(t)
    PROVE  DiscoveryOK'
<1>1. call[t] \in DiscoverCall /\ chan[t] \in Channel /\ iam \in [registered : BOOLEAN, user : BOOLEAN]
      /\ call \in [Targets -> DiscoverCall] /\ chan \in [Targets -> Channel]
    BY DEF DiscoveryOK, TypesOK
<1>2. chan = [chan EXCEPT ![t] = chan[t]]
    BY <1>1
<1>3. ASSUME NEW p \in {"whois", "loop", "unsubscribe", "collect"}, NEW e \in BOOLEAN
      PROVE  /\ [call[t] EXCEPT !.pc = p, !.err = e] \in DiscoverCall
             /\ [call[t] EXCEPT !.pc = p, !.err = e].pc = p
             /\ [call[t] EXCEPT !.pc = p, !.err = e].out = call[t].out
             /\ [call[t] EXCEPT !.pc = p] = [call[t] EXCEPT !.pc = p, !.err = call[t].err]
    BY <1>1 DEF DiscoverCall
<1>4. ASSUME NEW b \in BOOLEAN
      PROVE  /\ [chan[t] EXCEPT !.open = b] \in Channel
             /\ [chan[t] EXCEPT !.open = b].queue = chan[t].queue
    BY <1>1 DEF Channel
<1>5. call[t].err \in BOOLEAN
    BY <1>1 DEF DiscoverCall
<1> DEFINE Moved(p, e) == [call[t] EXCEPT !.pc = p, !.err = e]
<1>6. ASSUME NEW p \in {"whois", "loop", "unsubscribe", "collect"}, NEW e \in BOOLEAN,
             NEW h \in Channel, h.queue = chan[t].queue, call[t].pc # "done",
             call' = [call EXCEPT ![t] = Moved(p, e)], chan' = [chan EXCEPT ![t] = h],
             iam' \in [registered : BOOLEAN, user : BOOLEAN],
             UNCHANGED <<req, inbound, found, result, heard>>
      PROVE  DiscoveryOK'
  <2>1. Moved(p, e) \in DiscoverCall /\ Moved(p, e).pc # "done" /\ Moved(p, e).out = call[t].out
    BY <1>1 DEF DiscoverCall
  <2> HIDE DEF Moved
  <2> QED BY <1>6, <2>1, QuietStep
<1>7. ASSUME NEW p \in {"whois", "loop", "unsubscribe", "collect"}
      PROVE  /\ [call EXCEPT ![t].pc = p] = [call EXCEPT ![t] = Moved(p, call[t].err)]
             /\ \A e \in BOOLEAN :
                   [call EXCEPT ![t].pc = p, ![t].err = e] = [call EXCEPT ![t] = Moved(p, e)]
  <2>1. [call EXCEPT ![t].pc = p] = [call EXCEPT ![t] = [call[t] EXCEPT !.pc = p]]
    OBVIOUS
  <2>2. [call[t] EXCEPT !.pc = p] = Moved(p, call[t].err)
    BY <1>3, <1>5
  <2>3. ASSUME NEW e \in BOOLEAN
        PROVE  [call EXCEPT ![t].pc = p, ![t].err = e] = [call EXCEPT ![t] = Moved(p, e)]
    <3> DEFINE c == [call EXCEPT ![t].pc = p]
               k == [call[t] EXCEPT !.pc = p]
    <3>1. c = [call EXCEPT ![t] = k] /\ [k EXCEPT !.err = e] = Moved(p, e)
      OBVIOUS
    <3>2. [call EXCEPT ![t].pc = p, ![t].err = e] = [c EXCEPT ![t] = [c[t] EXCEPT !.err = e]]
      OBVIOUS
    <3> HIDE DEF c, k, Moved
    <3>3. c[t] = k /\ [c EXCEPT ![t] = [k EXCEPT !.err = e]] = [call EXCEPT ![t] = [k EXCEPT !.err = e]]
      BY <1>1, <3>1
    <3> QED BY <3>1, <3>2, <3>3
  <2> QED BY <2>1, <2>2, <2>3
<1> DEFINE Open(b) == [chan[t] EXCEPT !.open = b]
<1>8. \A b \in BOOLEAN : /\ Open(b) \in Channel /\ Open(b).queue = chan[t].queue
                         /\ [chan EXCEPT ![t].open = b] = [chan EXCEPT ![t] = Open(b)]
    BY <1>1, <1>4
<1> HIDE DEF Moved, Open
<1>9. CASE Subscribe(t)
  <2>1. CASE taken
    <3>1. call' = [call EXCEPT ![t] = Moved("collect", TRUE)] /\ chan' = [chan EXCEPT ![t] = chan[t]]
      BY <1>2, <1>7, <1>9, <2>1 DEF Subscribe, Failing
    <3> QED BY <1>1, <1>6, <1>9, <2>1, <3>1 DEF Subscribe
  <2>2. CASE ~taken
    <3>1. call' = [call EXCEPT ![t] = Moved("whois", call[t].err)] /\ chan' = [chan EXCEPT ![t] = Open(TRUE)]
      BY <1>7, <1>8, <1>9, <2>2 DEF Subscribe
    <3>2. iam' \in [registered : BOOLEAN, user : BOOLEAN]
      BY <1>1, <1>9, <2>2 DEF Subscribe
    <3> QED BY <1>5, <1>6, <1>8, <1>9, <3>1, <3>2 DEF Subscribe
  <2> QED BY <2>1, <2>2
<1>10. CASE WhoIs(t)
  <2>1. \/ call' = [call EXCEPT ![t] = Moved("loop", call[t].err)]
        \/ call' = [call EXCEPT ![t] = Moved("unsubscribe", TRUE)]
    BY <1>7, <1>10 DEF WhoIs
  <2> QED BY <1>1, <1>2, <1>5, <1>6, <1>10, <2>1 DEF WhoIs
<1>11. CASE WindowEnds(t)
  <2>1. call' = [call EXCEPT ![t] = Moved("unsubscribe", call[t].err)]
    BY <1>7, <1>11 DEF WindowEnds
  <2> QED BY <1>1, <1>2, <1>5, <1>6, <1>11, <2>1 DEF WindowEnds
<1>12. CASE ContextEnds(t)
  <2>1. call' = [call EXCEPT ![t] = Moved("unsubscribe", TRUE)]
    BY <1>7, <1>12 DEF ContextEnds
  <2> QED BY <1>1, <1>2, <1>6, <1>12, <2>1 DEF ContextEnds
<1>13. CASE Unsubscribe(t)
  <2>1. call' = [call EXCEPT ![t] = Moved("collect", call[t].err)] /\ chan' = [chan EXCEPT ![t] = Open(FALSE)]
    BY <1>7, <1>8, <1>13 DEF Unsubscribe
  <2> QED BY <1>1, <1>5, <1>6, <1>8, <1>13, <2>1 DEF Unsubscribe
<1> QED BY <1>9, <1>10, <1>11, <1>12, <1>13

\* An indication is taken from the channel.
LEMMA CollectStep ==
    ASSUME DiscoveryOK, NEW t \in Targets, Collect(t)
    PROVE  DiscoveryOK'
<1>0. TypesOK /\ NothingLost /\ FoundOK /\ StagesOK
    BY DEF DiscoveryOK
<1> DEFINE q == chan[t].queue
           i == Head(q)
           old == call[t].out
<1>1. /\ call[t] \in DiscoverCall /\ chan[t] \in Channel /\ q \in Seq(Indications) /\ q # <<>>
      /\ old \subseteq Indications /\ call[t].pc = "loop"
    BY <1>0 DEF TypesOK, DiscoverCall, Channel, Collect
<1>2. i \in Indications /\ Tail(q) \in Seq(Indications) /\ ToSet(q) = {i} \cup ToSet(Tail(q))
    BY <1>1, QueueElements
<1>3. PICK new \in SUBSET Indications :
            /\ new = old \cup {i}
            /\ call' = [call EXCEPT ![t] = [call[t] EXCEPT !.out = new]]
  <2>1. CASE \E j \in old : discoverDedupKey(j) = discoverDedupKey(i)
    <3>1. i \in old
      BY <1>1, <1>2, <2>1, KeyOfIndication
    <3>2. call' = call
      BY <2>1 DEF Collect
    <3>3. call = [call EXCEPT ![t] = [call[t] EXCEPT !.out = old]]
      BY <1>0, <1>1 DEF TypesOK, DiscoverCall
    <3>4. old \in SUBSET Indications /\ old = old \cup {i}
      BY <1>1, <3>1
    <3> HIDE DEF old, i
    <3> QED BY <3>2, <3>3, <3>4
  <2>2. CASE ~\E j \in old : discoverDedupKey(j) = discoverDedupKey(i)
    <3>1. call' = [call EXCEPT ![t].out = @ \cup {i}]
      BY <2>2 DEF Collect
    <3>2. [call EXCEPT ![t].out = @ \cup {i}] = [call EXCEPT ![t] = [call[t] EXCEPT !.out = old \cup {i}]]
      OBVIOUS
    <3> QED BY <1>1, <1>2, <3>1, <3>2
  <2> QED BY <2>1, <2>2
<1>4. chan' = [chan EXCEPT ![t] = [chan[t] EXCEPT !.queue = Tail(q)]]
    BY DEF Collect
<1>5. UNCHANGED <<iam, req, inbound, found, result, heard>>
    BY DEF Collect
<1> HIDE DEF q, i, old
<1> DEFINE c == [call[t] EXCEPT !.out = new]
           h == [chan[t] EXCEPT !.queue = Tail(q)]
<1>6. /\ c \in DiscoverCall /\ c.out = new /\ c.pc = "loop"
      /\ h \in Channel /\ h.queue = Tail(q)
    BY <1>1, <1>2, <1>3 DEF DiscoverCall, Channel
<1> HIDE DEF c, h
<1>7. /\ Targets' = Targets /\ call' \in [Targets -> DiscoverCall] /\ chan' \in [Targets -> Channel]
      /\ call'[t] = c /\ chan'[t] = h
      /\ \A u \in Targets \ {t} : call'[u] = call[u] /\ chan'[u] = chan[u]
  <2>1. call' = [call EXCEPT ![t] = c] /\ chan' = [chan EXCEPT ![t] = h]
    BY <1>3, <1>4 DEF c, h
  <2> QED BY <1>0, <1>6, <2>1 DEF TypesOK, Targets
<1>8. TypesOK'
    BY <1>0, <1>5, <1>7 DEF TypesOK, Message
<1>9. NothingLost'
  <2>1. heard'[t] = call'[t].out \cup ToSet(chan'[t].queue)
    <3>1. heard[t] = old \cup ToSet(q)
      BY <1>0 DEF NothingLost, old, q
    <3> QED BY <1>2, <1>3, <1>5, <1>6, <1>7, <3>1
  <2>2. ASSUME NEW u \in Targets \ {t} PROVE heard'[u] = call'[u].out \cup ToSet(chan'[u].queue)
    BY <1>0, <1>5, <1>7 DEF NothingLost
  <2> QED BY <1>7, <2>1, <2>2 DEF NothingLost
<1>10. \A u \in Targets : Merged(u)' = Merged(u)
    BY <1>1, <1>5, <1>6, <1>7, WantedStays DEF Merged
<1>11. FoundOK'
    BY <1>0, <1>5, <1>7, <1>10 DEF FoundOK
<1>12. StagesOK'
    BY <1>0, <1>1, <1>5, <1>6, <1>7 DEF StagesOK
<1> QED BY <1>8, <1>9, <1>11, <1>12 DEF DiscoveryOK

\* The goroutine of a target merges what it collected.
LEMMA MergeStep ==
    ASSUME DiscoveryOK, NEW t \in Targets, Merge(t)
    PROVE  DiscoveryOK'
<1>0. TypesOK /\ NothingLost /\ FoundOK /\ StagesOK
    BY DEF DiscoveryOK
<1>1. call[t] \in DiscoverCall /\ call[t].pc = "collect"
    BY <1>0 DEF TypesOK, Merge
<1>2. UNCHANGED <<iam, req, chan, inbound, result, heard>>
    BY DEF Merge
<1> DEFINE c == [call[t] EXCEPT !.pc = "done"]
<1>3. c \in DiscoverCall /\ c.out = call[t].out /\ c.pc = "done" /\ c.err = call[t].err
    BY <1>1 DEF DiscoverCall
<1>4. call' = [call EXCEPT ![t] = c]
    BY DEF Merge
<1> HIDE DEF c
<1>5. /\ Targets' = Targets /\ call' \in [Targets -> DiscoverCall] /\ call'[t] = c
      /\ \A u \in Targets \ {t} : call'[u] = call[u]
    BY <1>0, <1>3, <1>4 DEF TypesOK, Targets
<1>6. TypesOK'
    BY <1>0, <1>2, <1>5 DEF TypesOK, Message
<1>7. NothingLost'
    BY <1>0, <1>2, <1>3, <1>5 DEF NothingLost
<1>8. \A u \in Targets \ {t} : Merged(u)' = Merged(u)
    BY <1>2, <1>5, WantedStays DEF Merged
<1>9. Merged(t) = {} /\ found' = found \cup Merged(t)'
  <2>1. Merged(t) = {}
    BY <1>1 DEF Merged
  <2>2. Merged(t)' = IF call[t].err THEN {} ELSE {i \in call[t].out : Wanted(i)}
    BY <1>2, <1>3, <1>5, WantedStays DEF Merged
  <2>3. found' = IF call[t].err THEN found ELSE found \cup {i \in call[t].out : Wanted(i)}
    BY DEF Merge
  <2> QED BY <2>1, <2>2, <2>3
<1>10. FoundOK'
    BY <1>0, <1>5, <1>8, <1>9 DEF FoundOK
<1>11. StagesOK'
    BY <1>0, <1>1, <1>2, <1>5 DEF StagesOK
<1> QED BY <1>6, <1>7, <1>10, <1>11 DEF DiscoveryOK

\* An indication is sent to a channel, which may be closed or full.
LEMMA SendStep ==
    ASSUME DiscoveryOK, NEW t \in Targets, Send(t)
    PROVE  DiscoveryOK'
<1>0. TypesOK /\ NothingLost /\ FoundOK /\ StagesOK
    BY DEF DiscoveryOK
<1>1. UNCHANGED <<iam, req, call, found, result>>
    BY DEF Send
<1>2. PICK m \in inbound :
        IF ~chan[t].open THEN UNCHANGED <<chan, heard, inbound>>
        ELSE /\ IF Len(chan[t].queue) < Capacity
                THEN /\ chan' = [chan EXCEPT ![t].queue = Append(@, m.iam)]
                     /\ heard' = [heard EXCEPT ![t] = @ \cup {m.iam}]
                ELSE UNCHANGED <<chan, heard>>
             /\ inbound' = IF m.to = {t} THEN {} ELSE {[m EXCEPT !.to = @ \ {t}]}
    BY DEF Send
<1>3. m \in Message
    BY <1>0 DEF TypesOK
<1>4. m.iam \in Indications /\ [m EXCEPT !.to = @ \ {t}] \in Message
    BY <1>3 DEF Message
<1>5. Targets' = Targets /\ \A u \in Targets : Merged(u)' = Merged(u)
    BY <1>1, WantedStays DEF Targets, Merged
<1>6. inbound' \subseteq Message /\ req # {}
    BY <1>0, <1>2, <1>4 DEF TypesOK, StagesOK
<1>7. FoundOK' /\ StagesOK'
    BY <1>0, <1>1, <1>5, <1>6 DEF FoundOK, StagesOK
<1>8. Message' = Message
    BY <1>5 DEF Message
<1>9. CASE UNCHANGED <<chan, heard>>
    BY <1>0, <1>1, <1>5, <1>6, <1>7, <1>8, <1>9 DEF DiscoveryOK, TypesOK, NothingLost
<1>10. CASE /\ chan' = [chan EXCEPT ![t].queue = Append(@, m.iam)]
            /\ heard' = [heard EXCEPT ![t] = @ \cup {m.iam}]
  <2> DEFINE q == chan[t].queue
             h == [chan[t] EXCEPT !.queue = Append(q, m.iam)]
  <2>1. chan[t] \in Channel /\ q \in Seq(Indications)
    BY <1>0 DEF TypesOK, Channel
  <2>2. Append(q, m.iam) \in Seq(Indications) /\ ToSet(Append(q, m.iam)) = ToSet(q) \cup {m.iam}
    BY <1>4, <2>1, QueueElements
  <2>3. h \in Channel /\ h.queue = Append(q, m.iam)
    BY <2>1, <2>2 DEF Channel
  <2>4. chan' = [chan EXCEPT ![t] = h]
    BY <1>10
  <2> HIDE DEF h, q
  <2>5. /\ chan' \in [Targets -> Channel] /\ chan'[t] = h
        /\ \A u \in Targets \ {t} : chan'[u] = chan[u]
    BY <1>0, <2>3, <2>4 DEF TypesOK
  <2>6. /\ heard' \in [Targets -> SUBSET Indications] /\ heard'[t] = heard[t] \cup {m.iam}
        /\ \A u \in Targets \ {t} : heard'[u] = heard[u]
    BY <1>0, <1>4, <1>10 DEF TypesOK
  <2>7. TypesOK'
    BY <1>0, <1>1, <1>5, <1>6, <1>8, <2>5, <2>6 DEF TypesOK
  <2>8. heard'[t] = call'[t].out \cup ToSet(chan'[t].queue)
    <3>1. heard[t] = call[t].out \cup ToSet(q)
      BY <1>0 DEF NothingLost, q
    <3> QED BY <1>1, <2>2, <2>3, <2>5, <2>6, <3>1
  <2>9. NothingLost'
    BY <1>0, <1>1, <1>5, <2>5, <2>6, <2>8 DEF NothingLost
  <2> QED BY <1>7, <2>7, <2>9 DEF DiscoveryOK
<1> QED BY <1>2, <1>9, <1>10

\* A request begins.
LEMMA StartStep ==
    ASSUME DiscoveryOK, Start
    PROVE  DiscoveryOK'
<1>0. TypesOK /\ NothingLost /\ FoundOK /\ StagesOK
    BY DEF DiscoveryOK
<1>1. req = {} /\ Targets = {} /\ result = "none" /\ inbound = {} /\ found = {}
    BY <1>0 DEF Start, StagesOK, FoundOK
<1>2. PICK r \in Scenarios :
        /\ req' = {r}
        /\ IF buildWhoIs(r) = {} \/ broadcastTargets(r.cfg) = {}
           THEN result' = "error" /\ UNCHANGED <<call, chan, heard>>
           ELSE /\ call' = [t \in broadcastTargets(r.cfg) |->
                              [pc |-> "subscribe", out |-> {}, err |-> FALSE]]
                /\ chan' = [t \in broadcastTargets(r.cfg) |-> [open |-> FALSE, queue |-> <<>>]]
                /\ heard' = [t \in broadcastTargets(r.cfg) |-> {}]
                /\ UNCHANGED result
    BY Zenon DEF Start
<1>3. UNCHANGED <<iam, inbound, found>>
    BY DEF Start
<1> DEFINE ts == broadcastTargets(r.cfg)
<1> HIDE DEF ts
<1>4. CASE result' = "error" /\ UNCHANGED <<call, chan, heard>>
  <2>1. Targets' = {}
    BY <1>1, <1>4 DEF Targets
  <2>2. TypesOK'
    BY <1>0, <1>1, <1>2, <1>3, <1>4, <2>1 DEF TypesOK
  <2>3. NothingLost' /\ FoundOK'
    BY <1>1, <1>3, <2>1 DEF NothingLost, FoundOK
  <2>4. StagesOK'
    BY <1>2, <1>4 DEF StagesOK
  <2> QED BY <2>2, <2>3, <2>4 DEF DiscoveryOK
<1>5. CASE /\ call' = [t \in ts |-> [pc |-> "subscribe", out |-> {}, err |-> FALSE]]
           /\ chan' = [t \in ts |-> [open |-> FALSE, queue |-> <<>>]]
           /\ heard' = [t \in ts |-> {}]
           /\ UNCHANGED result
  <2>1. Targets' = ts
    BY <1>5 DEF Targets
  <2>2. /\ [pc |-> "subscribe", out |-> {}, err |-> FALSE] \in DiscoverCall
        /\ [open |-> FALSE, queue |-> <<>>] \in Channel
    BY DEF DiscoverCall, Channel
  <2>3. TypesOK'
    BY <1>0, <1>1, <1>2, <1>3, <1>5, <2>1, <2>2 DEF TypesOK
  <2>4. \A t \in ts : heard'[t] = {} /\ call'[t].out = {} /\ call'[t].pc = "subscribe"
                     /\ chan'[t].queue = <<>>
    BY <1>5
  <2>5. ToSet(<<>>) = {}
    BY DEF ToSet
  <2>6. NothingLost'
    BY <2>1, <2>4, <2>5 DEF NothingLost
  <2>7. FoundOK'
    BY <1>1, <1>3, <2>1, <2>4 DEF FoundOK, Merged
  <2>8. StagesOK'
    BY <1>1, <1>2, <1>5 DEF StagesOK
  <2> QED BY <2>3, <2>6, <2>7, <2>8 DEF DiscoveryOK
<1> QED BY <1>2, <1>4, <1>5 DEF ts

\* The other steps change neither the calls of the targets nor their channels.
LEMMA RestSteps ==
    ASSUME DiscoveryOK,
           Finish \/ Cancel \/ RegisterHandler \/ OnInbound \/ UserHandler \/ UNCHANGED vars
    PROVE  DiscoveryOK'
<1>0. TypesOK /\ NothingLost /\ FoundOK /\ StagesOK
    BY DEF DiscoveryOK
<1>1. UNCHANGED <<req, call, chan, found, heard>>
  <2>1. CASE Finish \/ Cancel
    BY <2>1 DEF Finish, Cancel
  <2>2. CASE RegisterHandler \/ OnInbound
    BY <2>2 DEF RegisterHandler, OnInbound
  <2>3. CASE UserHandler \/ UNCHANGED vars
    BY <2>3 DEF UserHandler, vars
  <2> QED BY <2>1, <2>2, <2>3
<1>2. Targets' = Targets /\ Message' = Message /\ \A u \in Targets : Merged(u)' = Merged(u)
    BY <1>1, WantedStays DEF Targets, Merged, Message
<1>3. NothingLost' /\ FoundOK'
    BY <1>0, <1>1, <1>2 DEF NothingLost, FoundOK
<1>4. iam' \in [registered : BOOLEAN, user : BOOLEAN]
  <2>1. UNCHANGED iam \/ iam' = [registered |-> TRUE, user |-> TRUE]
    BY DEF Finish, Cancel, RegisterHandler, OnInbound, UserHandler, vars
  <2>2. [registered |-> TRUE, user |-> TRUE] \in [registered : BOOLEAN, user : BOOLEAN]
    OBVIOUS
  <2>3. iam \in [registered : BOOLEAN, user : BOOLEAN]
    BY <1>0 DEF TypesOK
  <2> QED BY <2>1, <2>2, <2>3, Zenon
<1>5. inbound' \subseteq Message /\ (req = {} => inbound' = {})
  <2>1. CASE OnInbound
    <3>1. PICK i \in UNION {r.iams : r \in req} :
            inbound' = {[iam |-> i, to |-> {t \in Targets : chan[t].open},
                         user |-> iam.user, stage |-> "user"]}
      BY <2>1 DEF OnInbound
    <3>2. i \in Indications /\ req # {}
      BY <1>0 DEF TypesOK, Indications
    <3>3. iam.user \in BOOLEAN
      BY <1>0 DEF TypesOK
    <3> QED BY <3>1, <3>2, <3>3 DEF Message
  <2>2. CASE UserHandler
    <3>1. PICK m \in inbound : inbound' = {[m EXCEPT !.stage = "send"]} \/ inbound' = {}
      BY <2>2 DEF UserHandler
    <3>2. m \in Message
      BY <1>0 DEF TypesOK
    <3>3. [m EXCEPT !.stage = "send"] \in Message
      BY <3>2 DEF Message
    <3> QED BY <1>0, <3>1, <3>3 DEF StagesOK
  <2>3. CASE UNCHANGED inbound
    BY <1>0, <2>3 DEF TypesOK, StagesOK
  <2> QED BY <2>1, <2>2, <2>3 DEF Finish, Cancel, RegisterHandler, vars
<1>6. TypesOK'
    BY <1>0, <1>1, <1>2, <1>4, <1>5 DEF TypesOK
<1>7. StagesOK'
  <2>1. CASE Finish
    <3>1. req # {}
      BY <1>0, <2>1 DEF StagesOK, Finish
    <3>2. /\ \A t \in Targets : call[t].pc = "done"
          /\ result' = IF ~anyOK \/ (\E r \in req : r.op = "resolve" /\ Cardinality(found) # 1)
                       THEN "error" ELSE "devices"
      BY <2>1 DEF Finish
    <3> QED BY <1>1, <1>2, <3>1, <3>2 DEF StagesOK
  <2>2. CASE UNCHANGED result
    BY <1>0, <1>1, <1>2, <1>5, <2>2 DEF StagesOK
  <2> QED BY <2>1, <2>2 DEF Cancel, RegisterHandler, OnInbound, UserHandler, vars
<1> QED BY <1>3, <1>6, <1>7 DEF DiscoveryOK

-----------------------------------------------------------------------------
(* Discovery: theorems *)

\* The inductive invariant holds, whatever accesses follow.
THEOREM DiscoveryInvariance == ClientSpec => []DiscoveryOK
<1>1. ClientInit => DiscoveryOK
  <2> SUFFICES ASSUME ClientInit PROVE DiscoveryOK
    OBVIOUS
  <2>1. Targets = {} /\ req = {} /\ inbound = {} /\ found = {} /\ result = "none"
    BY DEF ClientInit, Init, Targets
  <2>2. call \in [{} -> DiscoverCall] /\ chan \in [{} -> Channel] /\ heard \in [{} -> SUBSET Indications]
    BY DEF ClientInit, Init
  <2>3. iam \in [registered : BOOLEAN, user : BOOLEAN]
    BY DEF ClientInit, Init
  <2> QED BY <2>1, <2>2, <2>3 DEF DiscoveryOK, TypesOK, NothingLost, FoundOK, StagesOK
<1>2. DiscoveryOK /\ [ClientNext]_clientVars => DiscoveryOK'
  <2> SUFFICES ASSUME DiscoveryOK, [ClientNext]_clientVars PROVE DiscoveryOK'
    OBVIOUS
  <2>1. CASE UNCHANGED vars
    BY <2>1, RestSteps
  <2>2. CASE Next
    <3>1. ASSUME NEW t \in Targets, OfTarget(t) PROVE DiscoveryOK'
      BY <3>1, QuietSteps, CollectStep, MergeStep, SendStep DEF OfTarget
    <3> QED BY <2>2, <3>1, StartStep, RestSteps DEF Next
  <2> QED BY <2>1, <2>2 DEF ClientNext, BeginAccess, clientVars
<1> QED BY <1>1, <1>2, PTL DEF ClientSpec

\* Nothing a channel took is lost between the dispatcher and the result, unless
\* the window ended before it was read: devices that share an instance are told
\* apart, and a target that fails takes nothing from the others.
THEOREM NothingHeardIsLost == ClientSpec => []HeardIsReported
<1>1. DiscoveryOK => HeardIsReported
  <2> SUFFICES ASSUME DiscoveryOK, result = "devices", NEW t \in Targets, ~call[t].err,
                      NEW i \in heard[t], Asked(i)
               PROVE  i \in found \cup ToSet(chan[t].queue)
    BY DEF HeardIsReported
  <2>1. TypesOK /\ NothingLost /\ FoundOK /\ StagesOK
    BY DEF DiscoveryOK
  <2>2. Wanted(i)
    <3>1. PICK r \in req : r.op = "resolve" => r.low = {i.id}
      BY DEF Asked
    <3>2. wantInstance(r) \in {0, i.id}
      <4>1. The({i.id}) = i.id
        BY DEF The
      <4> QED BY <3>1, <4>1 DEF wantInstance
    <3> QED BY <3>2 DEF Wanted
  <2>3. CASE i \in call[t].out
    <3>1. i \in Merged(t)
      BY <2>1, <2>2, <2>3 DEF Merged, StagesOK
    <3> QED BY <2>1, <3>1 DEF FoundOK
  <2> QED BY <2>1, <2>3 DEF NothingLost
<1> QED BY <1>1, DiscoveryInvariance, PTL

\* Resolve is asked for one instance, and not for instance 0, which collect
\* takes for "any".
InstancesNonzero ==
    \A r \in Scenarios : r.op = "resolve" => \E n \in Nat \ {0} : r.low = {n}

\* Discover reports only devices a target that ended well has heard, and Resolve
\* the one device with the instance it was asked for, if that is not 0.
THEOREM OnlyHeardIsReported ==
    ASSUME InstancesNonzero
    PROVE  ClientSpec => []ResultRight
<1>1. DiscoveryOK => ResultRight
  <2> SUFFICES ASSUME DiscoveryOK, result = "devices" PROVE ResultRight
    BY DEF ResultRight
  <2>1. TypesOK /\ NothingLost /\ FoundOK /\ StagesOK
    BY DEF DiscoveryOK
  <2>2. ASSUME NEW i \in found
        PROVE  Asked(i) /\ \E t \in Targets : ~call[t].err /\ i \in heard[t]
    <3>1. PICK t \in Targets : i \in Merged(t)
      BY <2>1 DEF FoundOK
    <3>2. ~call[t].err /\ i \in call[t].out /\ Wanted(i)
      BY <3>1 DEF Merged
    <3>3. i \in heard[t]
      BY <2>1, <3>2 DEF NothingLost
    <3>4. PICK r \in req : wantInstance(r) \in {0, i.id}
      BY <3>2 DEF Wanted
    <3>5. ASSUME r.op = "resolve" PROVE r.low = {i.id}
      <4>1. PICK n \in Nat \ {0} : r.low = {n}
        BY <2>1, <3>5 DEF TypesOK, InstancesNonzero
      <4>2. wantInstance(r) = n
        <5>1. The({n}) = n
          BY DEF The
        <5> QED BY <3>5, <4>1, <5>1 DEF wantInstance
      <4> QED BY <3>4, <4>1, <4>2
    <3> QED BY <3>2, <3>3, <3>5 DEF Asked
  <2> QED BY <2>1, <2>2 DEF ResultRight, StagesOK
<1> QED BY <1>1, DiscoveryInvariance, PTL

-----------------------------------------------------------------------------
(* Access: the inductive invariant *)

BatchOps == {"ReadMultiple", "ReadPropertiesMultiple"}
ReadOps == BatchOps \cup {"ReadProperty", "ReadProperties", "ReadObjectNames", "ReadObjectList"}

\* A finite sequence.
IsSeq(s) == s \in Seq(ToSet(s))

IsCall(c) == c = [r |-> c.r, phase |-> c.phase, todo |-> c.todo, out |-> c.out,
                  skipped |-> c.skipped, err |-> c.err]

\* A result that the device justifies.
Good(o) ==
    /\ o.err = "none" => [ref |-> o.ref, val |-> o.val] \in seen
    /\ o.err = "unknown-property" => [ref |-> o.ref, val |-> {}] \in seen

\* The results so far and the properties still to be read make up the request.
Mirrors(out, todo, refs) ==
    /\ Len(refs) = Len(out) + Len(todo)
    /\ \A k \in 1 .. Len(out) : out[k].ref = refs[k]
    /\ \A k \in 1 .. Len(todo) : todo[k] = refs[Len(out) + k]

\* What is left to read after i of n elements.
Rest(r, i, n) == [j \in 1 .. n - i |-> ListElement(r, i + j)]

MultipleOK(r) ==
    /\ r.op \in BatchOps
    /\ access.todo = WantedRefs(r.specs) /\ access.todo # <<>> /\ access.out = <<>>

EachOK(r) ==
    /\ r.op # "ReadObjectList" /\ access.todo \in Seq(DOMAIN Store) /\ access.todo # <<>>
    /\ \A k \in DOMAIN access.out : Good(access.out[k])
    /\ r.op \in Batches => Mirrors(access.out, access.todo, WantedRefs(r.specs))
    /\ r.writes # <<>> \/ copies # {} => applied

CountOK(r) ==
    /\ r.op = "ReadObjectList" /\ access.todo = <<ListElement(r, 0)>>
    /\ access.out = <<>> /\ access.skipped = {}

ElementOK(r) ==
    /\ r.op = "ReadObjectList"
    /\ \A k \in DOMAIN access.out : \E s \in listed : access.out[k] \in ToSet(s)
    /\ \E n, i \in Nat :
        /\ i < n /\ access.todo = Rest(r, i, n) /\ access.skipped \subseteq 1 .. i
        /\ \A s \in listed : listed = {s} =>
              n = Bound(r, s) /\ Listing(access.out, s, (1 .. i) \ access.skipped)

WriteOK(r) ==
    /\ r.op \notin ReadOps /\ r.writes # <<>>
    /\ access.todo = <<>> /\ access.out = <<>>

DoneOK(r) == copies # {} /\ ~applied => access.out = <<>>

PhaseOK(r) ==
    /\ access.phase # "done" /\ r.op \notin {"ReadProperty", "WriteAndReadBack"} =>
          access.err = "none"
    /\ access.phase = "multiple" => MultipleOK(r)
    /\ access.phase = "each" => EachOK(r)
    /\ access.phase = "count" => CountOK(r)
    /\ access.phase = "element" => ElementOK(r)
    /\ access.phase = "write" => WriteOK(r)
    /\ access.phase = "done" => DoneOK(r)

CallOK ==
    /\ IsCall(access) /\ IsSeq(access.out)
    /\ access.phase = "idle" => access.r = {} /\ ask = {} /\ copies = {}
    /\ access.phase # "idle" => \E r \in Requests : access.r = {r}
    /\ \A r \in access.r : PhaseOK(r) /\ (copies # {} => r.writes # <<>>)
    /\ access.phase \in {"idle", "multiple", "each", "count", "element", "write", "done"}

\* The entries of an answer to a ReadPropertyMultiple.
AckOK(ack) ==
    /\ IsSeq(ack)
    /\ \A j \in DOMAIN ack :
        /\ ack[j] = [ref |-> ack[j].ref, err |-> ack[j].err, val |-> ack[j].val]
        /\ \E k \in DOMAIN access.todo : ack[j].ref = access.todo[k]
        /\ Good(ack[j])

GoodAnswer(a) ==
    /\ access.phase = "multiple" =>
        /\ a.err = "none" => AckOK(a.ack)
        /\ a.err # "none" => rpmUnusable(a.err) \/ a.err \in {"device-busy", "timeout"}
    /\ access.phase = "each" => Good([ref |-> Head(access.todo), err |-> a.err, val |-> a.val])
    /\ access.phase = "count" /\ a.err = "none" => \E s \in listed : a.val = {Len(s)}
    /\ access.phase = "element" /\ a.err = "none" =>
        \A i \in Nat : Head(access.todo).index = {i} =>
            \E s \in listed : i \in 1 .. Len(s) /\ a.val = {s[i]}
    /\ access.phase = "write" /\ a.err = "none" => applied

AskOK ==
    /\ \A q \in copies : q.service = "Write"
    /\ \A q \in ask : q.service = "Write" => q \in copies
    /\ ask # {} => /\ access.phase \notin {"idle", "done"}
                   /\ \A r \in access.r : ask = {Question(r)}
                   /\ \A a \in answers : GoodAnswer(a)

DeviceOK ==
    /\ value = [x \in DOMAIN Store |-> value[x]]
    /\ access.phase # "idle" =>
        /\ Held(value) \subseteq seen /\ kind \in Kinds /\ list \in listed /\ listed \subseteq Lists

AccessOK == DeviceOK /\ CallOK /\ AskOK /\ AccessReflectsDevice /\ ObjectListRight

-----------------------------------------------------------------------------
(* Lemmas on sequences and numbers *)

\* The places and the elements of a sequence, and of one with an element more.
LEMMA SeqFacts ==
    ASSUME NEW s, IsSeq(s)
    PROVE  /\ Len(s) \in Nat /\ DOMAIN s = 1 .. Len(s)
           /\ \A x : /\ IsSeq(Append(s, x))
                     /\ Len(Append(s, x)) = Len(s) + 1 /\ DOMAIN Append(s, x) = 1 .. Len(s) + 1
                     /\ \A k \in 1 .. Len(s) : Append(s, x)[k] = s[k]
                     /\ Append(s, x)[Len(s) + 1] = x
<1>1. Len(s) \in Nat /\ DOMAIN s = 1 .. Len(s)
    BY DEF IsSeq
<1>2. ASSUME NEW x
      PROVE  /\ IsSeq(Append(s, x))
             /\ Len(Append(s, x)) = Len(s) + 1 /\ DOMAIN Append(s, x) = 1 .. Len(s) + 1
             /\ \A k \in 1 .. Len(s) : Append(s, x)[k] = s[k]
             /\ Append(s, x)[Len(s) + 1] = x
  <2> DEFINE T == ToSet(s) \cup {x}
  <2>1. s \in Seq(T)
    <3>1. s \in [1 .. Len(s) -> ToSet(s)]
      BY DEF IsSeq
    <3>2. s \in [1 .. Len(s) -> T]
      BY <3>1
    <3> HIDE DEF T
    <3> QED BY <1>1, <3>2
  <2>2. x \in T /\ ToSet(s) \subseteq T
    OBVIOUS
  <2>3. ToSet(s) \cup {x} = T
    OBVIOUS
  <2> HIDE DEF T
  <2>4. /\ Append(s, x) \in Seq(T) /\ Len(Append(s, x)) = Len(s) + 1
        /\ \A k \in 1 .. Len(s) : Append(s, x)[k] = s[k]
        /\ Append(s, x)[Len(s) + 1] = x
    BY <2>1, <2>2, AppendProperties
  <2>5. ToSet(Append(s, x)) = T
    <3>1. ToSet(Append(s, x)) = ToSet(s) \cup {x}
      BY <2>1, <2>2, QueueElements
    <3> QED BY <2>3, <3>1, Zenon
  <2>6. IsSeq(Append(s, x))
    BY <2>4, <2>5 DEF IsSeq
  <2>7. DOMAIN Append(s, x) = 1 .. Len(s) + 1
    BY <2>4
  <2> QED BY <2>4, <2>6, <2>7
<1> QED BY <1>1, <1>2

\* The empty sequence.
LEMMA EmptyFacts == IsSeq(<<>>) /\ DOMAIN <<>> = {} /\ Len(<<>>) = 0
<1>1. <<>> \in Seq(ToSet(<<>>))
    OBVIOUS
<1> QED BY <1>1 DEF IsSeq

\* A set of numbers has a least one.
LEMMA Least ==
    ASSUME NEW S \in SUBSET Nat, S # {}
    PROVE  \E n \in S : \A m \in S : n <= m
<1> DEFINE R == OpToRel(<, Nat)
<1>1. IsWellFoundedOn(R, Nat)
    BY NatLessThanWellFounded
<1>2. \A a, b \in Nat : a < b => <<a, b>> \in R
    BY DEF OpToRel
<1> HIDE DEF R
<1>3. PICK n \in S : \A m \in S : ~(<<m, n>> \in R)
    BY <1>1, WFMin
<1>4. ASSUME NEW m \in S PROVE n <= m
  <2>1. ~(m < n)
    BY <1>2, <1>3, <1>4
  <2> QED BY <2>1
<1> QED BY <1>4

\* Max and Min of a set of places.
LEMMA MaxMin ==
    ASSUME NEW n \in Nat, NEW S \in SUBSET (1 .. n), S # {}
    PROVE  Max(S) \in S /\ Min(S) \in S
<1>1. \E x \in S : \A y \in S : x <= y
    BY Least
<1>2. \E x \in S : \A y \in S : x >= y
  <2> DEFINE T == {n - x : x \in S}
  <2>1. T \subseteq Nat /\ T # {}
    <3>1. \A x \in S : x \in 1 .. n /\ n - x \in Nat
      OBVIOUS
    <3>2. PICK x \in S : TRUE
      OBVIOUS
    <3>3. n - x \in T
      OBVIOUS
    <3> QED BY <3>1, <3>3
  <2> HIDE DEF T
  <2>2. PICK m \in T : \A y \in T : m <= y
    BY <2>1, Least
  <2>3. PICK x \in S : m = n - x
    BY DEF T
  <2>4. ASSUME NEW y \in S PROVE x >= y
    <3>1. n - y \in T
      BY DEF T
    <3>2. n - x <= n - y
      BY <2>2, <2>3, <3>1
    <3> QED BY <3>2
  <2> QED BY <2>4
<1>3. Min(S) \in S
    BY <1>1, Zenon DEF Min
<1>4. Max(S) \in S
    BY <1>2, Zenon DEF Max
<1> QED BY <1>3, <1>4
\* The smaller of two numbers.
LEMMA MinOfTwo ==
    ASSUME NEW a \in Nat, NEW b \in Nat
    PROVE  Min({a, b}) = IF a < b THEN a ELSE b
<1> DEFINE m == Min({a, b})
<1>1. \E x \in {a, b} : \A y \in {a, b} : x <= y
    OBVIOUS
<1>2. m \in {a, b} /\ \A y \in {a, b} : m <= y
    BY <1>1, Zenon DEF Min
<1> HIDE DEF m
<1>3. m = IF a < b THEN a ELSE b
    BY <1>2
<1> QED BY <1>3 DEF m

\* The head and the tail of a sequence.
LEMMA HeadTail ==
    ASSUME NEW S, NEW q \in Seq(S), q # <<>>
    PROVE  /\ Len(q) \in Nat \ {0} /\ DOMAIN q = 1 .. Len(q)
           /\ Head(q) = q[1] /\ q[1] \in S
           /\ Tail(q) \in Seq(S) /\ Len(Tail(q)) = Len(q) - 1
           /\ DOMAIN Tail(q) = 1 .. Len(q) - 1
           /\ \A k \in 1 .. Len(q) - 1 : Tail(q)[k] = q[k + 1]
<1>1. Len(q) \in Nat \ {0} /\ DOMAIN q = 1 .. Len(q) /\ Head(q) = q[1] /\ q[1] \in S
    OBVIOUS
<1>2. /\ Tail(q) \in Seq(S) /\ Len(Tail(q)) = Len(q) - 1
      /\ \A k \in 1 .. Len(q) - 1 : Tail(q)[k] = q[k + 1]
    OBVIOUS
<1>3. DOMAIN Tail(q) = 1 .. Len(q) - 1
    BY <1>2
<1> QED BY <1>1, <1>2, <1>3

\* The elements of a list that are still to be read.
LEMMA RestFacts ==
    ASSUME NEW r, NEW i \in Nat, NEW n \in Nat
    PROVE  /\ i < n => /\ Rest(r, i, n) # <<>>
                       /\ Head(Rest(r, i, n)) = ListElement(r, i + 1)
                       /\ Tail(Rest(r, i, n)) = Rest(r, i + 1, n)
           /\ i >= n => Rest(r, i, n) = <<>>
           /\ Rest(r, 0, n) = Elements(r, n)
<1> DEFINE E(j) == ListElement(r, j)
<1> DEFINE q == Rest(r, i, n)
<1>1. /\ q = [j \in 1 .. n - i |-> E(i + j)]
      /\ Rest(r, i + 1, n) = [j \in 1 .. n - (i + 1) |-> E(i + 1 + j)]
      /\ Rest(r, 0, n) = [j \in 1 .. n - 0 |-> E(0 + j)]
      /\ Elements(r, n) = [j \in 1 .. n |-> E(j)]
    BY Zenon DEF Rest, Elements
<1> HIDE DEF E
<1>2. ASSUME i < n
      PROVE  q # <<>> /\ Head(q) = E(i + 1) /\ Tail(q) = Rest(r, i + 1, n)
  <2> DEFINE S == {E(i + j) : j \in 1 .. n - i}
  <2>1. n - i \in Nat \ {0} /\ q \in [1 .. n - i -> S]
    BY <1>1, <1>2
  <2> HIDE DEF S
  <2>2. q \in Seq(S) /\ Len(q) = n - i
    BY <2>1
  <2>3. q # <<>>
    BY <2>1, <2>2
  <2>4. /\ Head(q) = q[1] /\ Tail(q) \in Seq(S) /\ Len(Tail(q)) = n - i - 1
        /\ DOMAIN Tail(q) = 1 .. n - i - 1
        /\ \A k \in 1 .. n - i - 1 : Tail(q)[k] = q[k + 1]
    BY <2>2, <2>3, HeadTail
  <2>5. Head(q) = E(i + 1)
    BY <1>1, <2>1, <2>4
  <2>6. ASSUME NEW k \in 1 .. n - i - 1 PROVE Tail(q)[k] = E(i + 1 + k)
    <3>1. k + 1 \in 1 .. n - i /\ i + (k + 1) = i + 1 + k
      BY <2>1
    <3>2. q[k + 1] = E(i + (k + 1))
      BY <1>1, <3>1
    <3> QED BY <2>4, <3>1, <3>2
  <2>7. Tail(q) = [k \in 1 .. n - i - 1 |-> E(i + 1 + k)]
    <3>0. \A z \in Seq(S) : z = [k \in 1 .. Len(z) |-> z[k]]
      OBVIOUS
    <3>1. Tail(q) = [k \in 1 .. Len(Tail(q)) |-> Tail(q)[k]]
      BY <2>4, <3>0, Zenon
    <3>2. Tail(q) = [k \in 1 .. n - i - 1 |-> Tail(q)[k]]
      BY <2>4, <3>1, Zenon
    <3> QED BY <2>6, <3>2, Zenon
  <2>8. n - i - 1 = n - (i + 1)
    BY <1>2
  <2> QED BY <1>1, <2>3, <2>5, <2>7, <2>8
<1>3. ASSUME i >= n PROVE q = <<>>
  <2>1. 1 .. n - i = {}
    BY <1>3
  <2>2. q \in [1 .. 0 -> {}]
    BY <1>1, <2>1
  <2>3. q \in Seq({}) /\ Len(q) = 0
    BY <2>2
  <2> QED BY <2>3
<1>4. Rest(r, 0, n) = Elements(r, n)
  <2>1. n - 0 = n /\ \A j \in 1 .. n : 0 + j = j
    OBVIOUS
  <2> QED BY <1>1, <2>1
<1> QED BY <1>2, <1>3, <1>4 DEF E

-----------------------------------------------------------------------------
(* Listings and requests *)

\* Nothing is listed of no places.
LEMMA ListingNone ==
    ASSUME NEW s PROVE Listing(<<>>, s, {})
<1>1. DOMAIN <<>> = {} /\ <<>> \in [{} -> {}]
    BY EmptyFacts
<1> QED BY <1>1, Zenon DEF Listing

\* A listing grows by the element at the next place.
LEMMA ListingMore ==
    ASSUME NEW out, IsSeq(out), NEW s, NEW i \in Nat, NEW places \in SUBSET (1 .. i),
           Listing(out, s, places)
    PROVE  Listing(Append(out, s[i + 1]), s, places \cup {i + 1})
<1> DEFINE n == Len(out)
<1> DEFINE q == Append(out, s[i + 1])
<1>1. /\ n \in Nat /\ DOMAIN out = 1 .. n /\ DOMAIN q = 1 .. n + 1
      /\ \A k \in 1 .. n : q[k] = out[k]
      /\ q[n + 1] = s[i + 1]
    BY SeqFacts
<1> HIDE DEF n, q
<1>2. PICK p \in [1 .. n -> places] :
        /\ \A k \in 1 .. n : out[k] = s[p[k]]
        /\ \A j, k \in 1 .. n : j < k => p[j] < p[k]
        /\ \A x \in places : \E k \in 1 .. n : p[k] = x
    BY <1>1 DEF Listing
<1> DEFINE p2 == [k \in 1 .. n + 1 |-> IF k = n + 1 THEN i + 1 ELSE p[k]]
<1>3. \A k \in 1 .. n : k \in 1 .. n + 1 /\ k # n + 1
    BY <1>1
<1>4. /\ \A k \in 1 .. n : p2[k] = p[k] /\ p[k] \in places
      /\ p2[n + 1] = i + 1 /\ n + 1 \in 1 .. n + 1
    BY <1>1, <1>3
<1>5. \A k \in 1 .. n + 1 : k \in 1 .. n \/ k = n + 1
    BY <1>1
<1>6. p2 \in [1 .. n + 1 -> places \cup {i + 1}]
    BY <1>4, <1>5
<1> HIDE DEF p2
<1>7. \A k \in 1 .. n + 1 : q[k] = s[p2[k]]
    BY <1>1, <1>2, <1>4, <1>5
<1>8. ASSUME NEW j \in 1 .. n + 1, NEW k \in 1 .. n + 1, j < k PROVE p2[j] < p2[k]
  <2>1. j \in 1 .. n
    BY <1>1, <1>8
  <2>2. CASE k \in 1 .. n
    BY <1>2, <1>4, <1>8, <2>1, <2>2
  <2>3. CASE k = n + 1
    <3>1. p2[j] \in 1 .. i /\ p2[k] = i + 1
      BY <1>4, <2>1, <2>3
    <3> QED BY <3>1
  <2> QED BY <1>5, <2>2, <2>3
<1>9. ASSUME NEW x \in places \cup {i + 1} PROVE \E k \in 1 .. n + 1 : p2[k] = x
  <2>1. CASE x \in places
    BY <1>2, <1>3, <1>4, <2>1
  <2> QED BY <1>4, <2>1
<1>10. Listing(q, s, places \cup {i + 1})
  <2>1. p2 \in [DOMAIN q -> places \cup {i + 1}]
    BY <1>1, <1>6
  <2>2. /\ \A k \in DOMAIN q : q[k] = s[p2[k]]
        /\ \A j, k \in DOMAIN q : j < k => p2[j] < p2[k]
    BY <1>1, <1>7, <1>8
  <2>3. \A x \in places \cup {i + 1} : \E k \in DOMAIN q : p2[k] = x
    BY <1>1, <1>9
  <2> QED BY <2>1, <2>2, <2>3, Zenon DEF Listing
<1> QED BY <1>10 DEF q

\* What the assumptions say of a request.
LEMMA RequestFacts ==
    ASSUME NEW r \in Requests
    PROVE  /\ WantedRefs(r.specs) \in Seq(DOMAIN Store)
           /\ WantedRefs(r.specs) = <<>> <=> \A k \in DOMAIN r.specs : r.specs[k].properties = <<>>
           /\ r.op \in BatchOps => \A k \in DOMAIN WantedRefs(r.specs) :
                                        WantedRefs(r.specs)[k].index = {}
           /\ r.op \in ReadOps => r.writes = <<>>
           /\ IsSeq(r.specs) /\ IsSeq(r.writes) /\ r.limit \in Int
           /\ \A k \in DOMAIN r.writes : r.writes[k].ref \in DOMAIN Store
<1>1. /\ WantedRefs(r.specs) \in Seq(DOMAIN Store)
      /\ WantedRefs(r.specs) = <<>> <=> \A k \in DOMAIN r.specs : r.specs[k].properties = <<>>
      /\ r.op \in {"ReadMultiple", "ReadPropertiesMultiple"} =>
            \A k \in DOMAIN WantedRefs(r.specs) : WantedRefs(r.specs)[k].index = {}
      /\ r.op \in {"ReadMultiple", "ReadPropertiesMultiple", "ReadProperty", "ReadProperties",
                   "ReadObjectNames", "ReadObjectList"} => r.writes = <<>>
      /\ r.specs \in Seq(ToSet(r.specs))
      /\ r.writes \in Seq(ToSet(r.writes)) /\ \A w \in ToSet(r.writes) : w.ref \in DOMAIN Store
      /\ r.limit \in Int
    BY RequestsAssumption, Zenon
<1>2. \A k \in DOMAIN r.writes : r.writes[k] \in ToSet(r.writes)
    BY DEF ToSet
<1>3. r.op \in BatchOps => \A k \in DOMAIN WantedRefs(r.specs) : WantedRefs(r.specs)[k].index = {}
    BY <1>1, Zenon DEF BatchOps
<1>4. r.op \in ReadOps => r.writes = <<>>
  <2>1. r.op \in ReadOps => r.op \in {"ReadMultiple", "ReadPropertiesMultiple", "ReadProperty",
                                      "ReadProperties", "ReadObjectNames", "ReadObjectList"}
    BY DEF ReadOps, BatchOps
  <2> QED BY <1>1, <2>1
<1> QED BY <1>1, <1>2, <1>3, <1>4, Zenon DEF IsSeq

-----------------------------------------------------------------------------
(* Steps of the device *)

\* The call under way.
LEMMA TheCall ==
    ASSUME AccessOK, access.phase # "idle"
    PROVE  \E r \in Requests :
              access.r = {r} /\ PhaseOK(r) /\ (copies # {} => r.writes # <<>>)
<1> QED BY DEF AccessOK, CallOK

\* A result stays good while what was seen is kept, and an answer while no write
\* of the call takes effect for the first time.
LEMMA AnswersStay ==
    ASSUME NEW a, GoodAnswer(a), access' = access, listed \subseteq listed', applied => applied',
           seen \subseteq seen' \/ access.phase \in {"write", "done"}
    PROVE  GoodAnswer(a)'
<1>1. ASSUME NEW o, Good(o), seen \subseteq seen' PROVE Good(o)'
    BY <1>1 DEF Good
<1>2. ASSUME access.phase = "multiple", a.err = "none" PROVE AckOK(a.ack)'
  <2>1. seen \subseteq seen' /\ AckOK(a.ack)
    BY <1>2 DEF GoodAnswer
  <2> QED BY <1>1, <2>1 DEF AckOK
<1>3. ASSUME access.phase = "each"
      PROVE  Good([ref |-> Head(access.todo), err |-> a.err, val |-> a.val])'
  <2> DEFINE o == [ref |-> Head(access.todo), err |-> a.err, val |-> a.val]
  <2>1. seen \subseteq seen' /\ Good(o)
    BY <1>3 DEF GoodAnswer
  <2>2. o' = o
    OBVIOUS
  <2> HIDE DEF o
  <2>3. Good(o)'
    BY <1>1, <2>1, <2>2 DEF Good
  <2> QED BY <2>3 DEF o
<1>4. ASSUME access.phase = "element", a.err = "none", NEW i \in Nat, Head(access.todo).index = {i}
      PROVE  \E s \in listed' : i \in 1 .. Len(s) /\ a.val = {s[i]}
    BY <1>4 DEF GoodAnswer
<1> QED BY <1>2, <1>3, <1>4 DEF GoodAnswer

\* The device moves under a call: it performs a request, or others change it.
LEMMA DeviceMoves ==
    ASSUME AccessOK, access.phase # "idle", access' = access, ask' = ask, copies' = copies,
           listed \subseteq listed', access.phase = "done" => listed' = listed,
           applied => applied', seen \subseteq seen' \/ (copies # {} /\ ~applied),
           DeviceOK', ask # {} => \A a \in answers' : a \in answers \/ GoodAnswer(a)'
    PROVE  AccessOK'
<1>1. PICK r \in Requests : access.r = {r} /\ PhaseOK(r) /\ (copies # {} => r.writes # <<>>)
    BY TheCall
<1>2. r.op \in ReadOps => r.writes = <<>>
    BY RequestFacts
<1>3. \/ seen \subseteq seen'
      \/ access.phase \in {"write", "done"} /\ access.out = <<>>
  <2> SUFFICES ASSUME copies # {}, ~applied
               PROVE  access.phase \in {"write", "done"} /\ access.out = <<>>
    OBVIOUS
  <2>1. r.op \notin ReadOps
    BY <1>1, <1>2
  <2>2. access.phase \notin {"multiple", "each", "count", "element"}
    BY <1>1, <2>1 DEF PhaseOK, MultipleOK, EachOK, CountOK, ElementOK, ReadOps, BatchOps
  <2>3. access.phase \in {"write", "done"}
    BY <2>2 DEF AccessOK, CallOK
  <2> QED BY <1>1, <2>3 DEF PhaseOK, WriteOK, DoneOK
<1>4. ASSUME NEW o, Good(o), seen \subseteq seen' PROVE Good(o)'
    BY <1>4 DEF Good
<1>5. \A s \in listed' : listed' = {s} => s \in listed /\ listed = {s}
    BY DEF AccessOK, DeviceOK
<1>6. access.phase = "each" => EachOK(r)'
  <2> SUFFICES ASSUME access.phase = "each" PROVE EachOK(r)'
    OBVIOUS
  <2>1. EachOK(r) /\ seen \subseteq seen'
    BY <1>1, <1>3 DEF PhaseOK
  <2>2. \A k \in DOMAIN access.out : Good(access.out[k])'
    BY <1>4, <2>1 DEF EachOK
  <2> QED BY <2>1, <2>2 DEF EachOK
<1>7. access.phase = "element" => ElementOK(r)'
    BY <1>1, <1>5 DEF PhaseOK, ElementOK
<1>8. PhaseOK(r)'
    BY <1>1, <1>6, <1>7 DEF PhaseOK, MultipleOK, CountOK, WriteOK, DoneOK
<1>9. CallOK'
    BY <1>1, <1>8 DEF AccessOK, CallOK
<1>10. AskOK'
  <2>1. \A a \in answers : GoodAnswer(a) => GoodAnswer(a)'
    BY <1>3, AnswersStay
  <2>2. Question(r)' = Question(r)
    BY DEF Question
  <2> QED BY <1>1, <2>1, <2>2 DEF AskOK, AccessOK
<1>11. AccessReflectsDevice'
  <2> SUFFICES ASSUME access.phase = "done", r.op # "ReadObjectList"
               PROVE  AccessReflectsDevice'
    BY <1>1 DEF AccessReflectsDevice
  <2>1. /\ \A k \in DOMAIN access.out : Good(access.out[k])
        /\ r.op \in {"ReadMultiple", "ReadPropertiesMultiple"} =>
              access.err \in {"none", "invalid", "unresolved", "timeout", "device-busy"}
        /\ access.err = "none" /\ r.op \in Batches =>
              [k \in DOMAIN access.out |-> access.out[k].ref] = WantedRefs(r.specs)
        /\ r.writes # <<>> /\ access.err = "none" => applied
    BY <1>1, Zenon DEF AccessOK, AccessReflectsDevice, Good
  <2>2. \A k \in DOMAIN access.out : Good(access.out[k])'
    BY <1>3, <1>4, <2>1, EmptyFacts
  <2> QED BY <1>1, <2>1, <2>2 DEF AccessReflectsDevice, Good
<1>12. ObjectListRight'
    BY <1>1 DEF AccessOK, ObjectListRight
<1> QED BY <1>9, <1>10, <1>11, <1>12 DEF AccessOK

\* An answer is a record.
LEMMA AnswerFields ==
    ASSUME NEW e, NEW v, NEW ack
    PROVE  /\ Answer(e, v, ack).err = e /\ Answer(e, v, ack).val = v /\ Answer(e, v, ack).ack = ack
           /\ Refuse(e).err = e
<1> QED BY DEF Answer, Refuse

\* A property is answered as it is.
LEMMA ReadOfProperty ==
    ASSUME DeviceOK, access.phase # "idle", NEW x \in DOMAIN Store
    PROVE  /\ ReadAnswer(x).err \in {"none", "unknown-property"}
           /\ Good([ref |-> x, err |-> ReadAnswer(x).err, val |-> ReadAnswer(x).val])
<1>1. x.property # "object-list"
    BY StoreAssumption
<1>2. [ref |-> x, val |-> value[x]] \in seen
  <2>1. x \in DOMAIN value /\ Held(value) \subseteq seen
    BY DEF DeviceOK
  <2>2. [ref |-> x, val |-> value[x]] \in Held(value)
    BY <2>1 DEF Held
  <2> QED BY <2>1, <2>2
<1>3. ReadAnswer(x) = IF value[x] = {} THEN Refuse("unknown-property")
                      ELSE Answer("none", value[x], <<>>)
    BY <1>1, Zenon DEF ReadAnswer
<1>4. CASE value[x] = {}
  <2>1. ReadAnswer(x).err = "unknown-property"
    BY <1>3, <1>4, AnswerFields
  <2> QED BY <1>2, <1>4, <2>1 DEF Good
<1>5. CASE value[x] # {}
  <2>1. ReadAnswer(x).err = "none" /\ ReadAnswer(x).val = value[x]
    BY <1>3, <1>5, AnswerFields
  <2> QED BY <1>2, <2>1 DEF Good
<1> QED BY <1>4, <1>5

\* The list of objects is answered as it is: its length, or an element.
LEMMA ReadOfList ==
    ASSUME DeviceOK, access.phase # "idle", NEW r, NEW i \in Nat,
           ReadAnswer(ListElement(r, i)).err = "none"
    PROVE  \E s \in listed :
              /\ i = 0 => ReadAnswer(ListElement(r, i)).val = {Len(s)}
              /\ i # 0 => i \in 1 .. Len(s) /\ ReadAnswer(ListElement(r, i)).val = {s[i]}
<1> DEFINE x == ListElement(r, i)
<1>1. x.property = "object-list" /\ x.index = {i}
    BY DEF ListElement, Reference
<1>2. The(x.index) = i
    BY <1>1 DEF The
<1> HIDE DEF x
<1>3. \/ \E e \in {"unknown-object", "invalid-array-index"} : ReadAnswer(x) = Refuse(e)
      \/ ~(i > Len(list))
         /\ ReadAnswer(x) = Answer("none", {IF i = 0 THEN Len(list) ELSE list[i]}, <<>>)
    BY <1>1, <1>2, Zenon DEF ReadAnswer
<1>4. /\ ~(i > Len(list))
      /\ ReadAnswer(x).val = {IF i = 0 THEN Len(list) ELSE list[i]}
    BY <1>3, AnswerFields DEF x
<1>5. list \in listed /\ list \in Lists
    BY DEF DeviceOK
<1>6. Len(list) \in Nat
    BY <1>5, ListsAssumption
<1>7. i # 0 => i \in 1 .. Len(list)
    BY <1>4, <1>6
<1>8. /\ i = 0 => ReadAnswer(x).val = {Len(list)}
      /\ i # 0 => ReadAnswer(x).val = {list[i]}
    BY <1>4
<1> QED BY <1>5, <1>7, <1>8 DEF x

\* The parts of a sequence in other order, or without the first.
LEMMA Arranged ==
    ASSUME NEW S, NEW q \in Seq(S), q # <<>>, NEW ack, ack = q \/ ack = Reverse(q) \/ ack = Tail(q)
    PROVE  IsSeq(ack) /\ \A j \in DOMAIN ack : \E k \in DOMAIN q : ack[j] = q[k]
<1>1. Len(q) \in Nat \ {0} /\ DOMAIN q = 1 .. Len(q)
    BY HeadTail
<1>2. ASSUME NEW z \in Seq(S) PROVE IsSeq(z)
  <2>1. Len(z) \in Nat /\ DOMAIN z = 1 .. Len(z) /\ z = [k \in 1 .. Len(z) |-> z[k]]
    OBVIOUS
  <2>2. \A k \in 1 .. Len(z) : z[k] \in ToSet(z)
    BY <2>1 DEF ToSet
  <2> DEFINE T == ToSet(z)
  <2> HIDE DEF T
  <2>3. z \in [1 .. Len(z) -> T]
    BY <2>1, <2>2 DEF T
  <2>4. z \in Seq(T)
    BY <2>1, <2>3
  <2> QED BY <2>4 DEF IsSeq, T
<1>3. CASE ack = q
    BY <1>2, <1>3
<1>4. CASE ack = Tail(q)
  <2>1. /\ Tail(q) \in Seq(S) /\ DOMAIN Tail(q) = 1 .. Len(q) - 1
        /\ \A k \in 1 .. Len(q) - 1 : Tail(q)[k] = q[k + 1]
    BY HeadTail
  <2>2. \A k \in 1 .. Len(q) - 1 : k + 1 \in 1 .. Len(q)
    BY <1>1
  <2> QED BY <1>1, <1>2, <1>4, <2>1, <2>2
<1>5. CASE ack = Reverse(q)
  <2> DEFINE n == Len(q)
  <2>1. Reverse(q) = [j \in 1 .. n |-> q[n - j + 1]]
    BY Zenon DEF Reverse
  <2>2. \A j \in 1 .. n : n - j + 1 \in 1 .. n
    BY <1>1
  <2>3. \A k \in 1 .. n : q[k] \in S
    OBVIOUS
  <2> HIDE DEF n
  <2>4. Reverse(q) \in [1 .. n -> S]
    BY <2>1, <2>2, <2>3
  <2>5. n \in Nat
    BY <1>1 DEF n
  <2>6. Reverse(q) \in Seq(S)
    BY <2>4, <2>5
  <2>7. \A j \in DOMAIN Reverse(q) : \E k \in 1 .. n : Reverse(q)[j] = q[k]
    BY <2>1, <2>2
  <2> QED BY <1>1, <1>2, <1>5, <2>6, <2>7 DEF n
<1> QED BY <1>3, <1>4, <1>5

\* Whatever a device answers to a ReadPropertyMultiple, its entries are what it
\* has, and a refusal is one after which the properties are read one by one.
LEMMA MultipleGood ==
    ASSUME DeviceOK, access.phase = "multiple", access.todo \in Seq(DOMAIN Store),
           access.todo # <<>>, NEW a \in MultipleAnswers(access.todo)
    PROVE  GoodAnswer(a)
<1> DEFINE refs == access.todo
<1> DEFINE S == {Entry(x) : x \in DOMAIN Store}
<1> DEFINE q == [k \in DOMAIN refs |-> Entry(refs[k])]
<1> DEFINE missing == {k \in DOMAIN refs : q[k].err # "none"}
<1>1. Len(refs) \in Nat \ {0} /\ DOMAIN refs = 1 .. Len(refs)
    BY HeadTail
<1>2. \A k \in 1 .. Len(refs) : refs[k] \in DOMAIN Store
    OBVIOUS
<1>3. /\ q = [k \in 1 .. Len(refs) |-> q[k]] /\ DOMAIN q = 1 .. Len(refs)
      /\ \A k \in 1 .. Len(refs) : q[k] = Entry(refs[k]) /\ q[k] \in S
    BY <1>1, <1>2
<1>4. ASSUME NEW x \in DOMAIN Store
      PROVE  /\ Entry(x) = [ref |-> Entry(x).ref, err |-> Entry(x).err, val |-> Entry(x).val]
             /\ Entry(x).ref = x /\ Entry(x).err \in {"none", "unknown-property"}
             /\ Good(Entry(x))
  <2>1. /\ ReadAnswer(x).err \in {"none", "unknown-property"}
        /\ Good([ref |-> x, err |-> ReadAnswer(x).err, val |-> ReadAnswer(x).val])
    BY ReadOfProperty
  <2>2. Entry(x) = [ref |-> x, err |-> ReadAnswer(x).err, val |-> ReadAnswer(x).val]
    BY DEF Entry
  <2> HIDE DEF ReadAnswer, Good
  <2>3. /\ Entry(x).ref = x /\ Entry(x).err = ReadAnswer(x).err
        /\ Entry(x).val = ReadAnswer(x).val
    BY <2>2
  <2> QED BY <2>1, <2>2, <2>3, Zenon
<1>5. \A ack : a = Answer("none", {}, ack) /\ ack \in {q, Reverse(q), Tail(q)} => GoodAnswer(a)
  <2> SUFFICES ASSUME NEW ack \in {q, Reverse(q), Tail(q)}, a = Answer("none", {}, ack)
               PROVE  GoodAnswer(a)
    OBVIOUS
  <2>1. q \in Seq(S) /\ Len(q) = Len(refs)
    <3> HIDE DEF S, q
    <3>1. q \in [1 .. Len(refs) -> S]
      BY <1>3
    <3> QED BY <1>1, <3>1
  <2>2. q # <<>>
    BY <1>1, <2>1, EmptyFacts, Zenon
  <2>3. IsSeq(ack) /\ \A j \in DOMAIN ack : \E k \in DOMAIN q : ack[j] = q[k]
    <3> HIDE DEF q, S
    <3>1. ack = q \/ ack = Reverse(q) \/ ack = Tail(q)
      OBVIOUS
    <3>2. \A T : \A z \in Seq(T) : z # <<>> => \A b :
            b = z \/ b = Reverse(z) \/ b = Tail(z) =>
                IsSeq(b) /\ \A j \in DOMAIN b : \E k \in DOMAIN z : b[j] = z[k]
      BY Arranged, Zenon
    <3>3. \A b : b = q \/ b = Reverse(q) \/ b = Tail(q) =>
                IsSeq(b) /\ \A j \in DOMAIN b : \E k \in DOMAIN q : b[j] = q[k]
      BY <2>1, <2>2, <3>2, Zenon
    <3> QED BY <3>1, <3>3, Zenon
  <2>4. ASSUME NEW j \in DOMAIN ack
        PROVE  /\ ack[j] = [ref |-> ack[j].ref, err |-> ack[j].err, val |-> ack[j].val]
               /\ \E k \in DOMAIN refs : ack[j].ref = refs[k]
               /\ Good(ack[j])
    <3>1. PICK k \in 1 .. Len(refs) : ack[j] = Entry(refs[k])
      BY <1>3, <2>3
    <3>2. refs[k] \in DOMAIN Store /\ k \in DOMAIN refs
      BY <1>1, <1>2
    <3> HIDE DEF refs
    <3>3. /\ ack[j] = [ref |-> ack[j].ref, err |-> ack[j].err, val |-> ack[j].val]
          /\ ack[j].ref = refs[k] /\ Good(ack[j])
      BY <1>4, <3>1, <3>2, Zenon
    <3> QED BY <3>2, <3>3
  <2>5. AckOK(ack)
    BY <2>3, <2>4, Zenon DEF AckOK
  <2>6. a.err = "none" /\ a.ack = ack
    BY AnswerFields
  <2> QED BY <2>5, <2>6 DEF GoodAnswer
<1>6. \A e : a = Refuse(e) /\ e # "none" /\ rpmUnusable(e) => GoodAnswer(a)
  <2> SUFFICES ASSUME NEW e, a = Refuse(e), e # "none", rpmUnusable(e) PROVE GoodAnswer(a)
    OBVIOUS
  <2>1. a.err = e
    BY AnswerFields
  <2> HIDE DEF rpmUnusable
  <2> QED BY <2>1 DEF GoodAnswer
<1>7. missing # {} => q[Min(missing)].err = "unknown-property"
  <2> SUFFICES ASSUME missing # {} PROVE q[Min(missing)].err = "unknown-property"
    OBVIOUS
  <2>1. missing \subseteq 1 .. Len(refs)
    BY <1>1
  <2>2. \A k \in missing : q[k].err = "unknown-property"
    <3>1. \A k \in missing : k \in 1 .. Len(refs) /\ q[k].err # "none"
      BY <1>1
    <3> HIDE DEF q, missing
    <3>2. \A k \in missing : q[k] = Entry(refs[k]) /\ refs[k] \in DOMAIN Store
      BY <1>2, <1>3, <3>1
    <3>3. \A k \in missing : q[k].err \in {"none", "unknown-property"}
      BY <1>4, <3>2, Zenon
    <3> QED BY <3>1, <3>3
  <2> HIDE DEF missing, q
  <2>3. Min(missing) \in missing
    BY <1>1, <2>1, MaxMin
  <2> QED BY <2>2, <2>3
<1>8. kind \in {"full", "none", "strict", "short"}
    BY KindsAssumption DEF DeviceOK
<1> DEFINE full == {Answer("none", {}, ack) : ack \in {q, Reverse(q), Tail(q)}}
<1>9. MultipleAnswers(refs) =
        CASE kind = "full" -> full
          [] kind = "none" -> {Refuse("unrecognized-service")}
          [] kind = "strict" -> IF missing = {} THEN full ELSE {Refuse(q[Min(missing)].err)}
          [] kind = "short" -> IF Len(refs) <= 1 THEN full
                               ELSE {Refuse("segmentation-not-supported")}
    BY Zenon DEF MultipleAnswers
<1>10. a \in full => GoodAnswer(a)
    BY <1>5
<1> HIDE DEF full, missing, q
<1>11. rpmUnusable("unrecognized-service") /\ rpmUnusable("unknown-property")
       /\ rpmUnusable("segmentation-not-supported")
    BY DEF rpmUnusable
<1> HIDE DEF refs
<1>12. \/ a \in full
       \/ a = Refuse("unrecognized-service")
       \/ missing # {} /\ a = Refuse(q[Min(missing)].err)
       \/ a = Refuse("segmentation-not-supported")
  <2>1. a \in MultipleAnswers(refs)
    BY DEF refs
  <2> QED BY <1>8, <1>9, <2>1, Zenon
<1> QED BY <1>6, <1>7, <1>10, <1>11, <1>12

\* Others change the device.
LEMMA ChangeStep ==
    ASSUME AccessOK, Change PROVE AccessOK'
<1>1. access.phase \notin {"idle", "done"} /\ access' = access /\ ask' = ask /\ copies' = copies
      /\ answers' = answers /\ applied' = applied /\ kind' = kind
    BY DEF Change
<1>2. DeviceOK
    BY DEF AccessOK
<1>3. CASE /\ \E x \in DOMAIN value, v \in {{}} \cup {{w} : w \in Values} :
                v # value[x] /\ value' = [value EXCEPT ![x] = v]
           /\ seen' = seen \cup Held(value') /\ list' = list /\ listed' = listed
  <2>1. value' = [x \in DOMAIN Store |-> value'[x]]
    BY <1>2, <1>3 DEF DeviceOK
  <2>2. DeviceOK'
    BY <1>1, <1>2, <1>3, <2>1 DEF DeviceOK
  <2> QED BY <1>1, <1>3, <2>2, DeviceMoves
<1>4. CASE /\ list' \in Lists /\ listed' = listed \cup {list'}
           /\ value' = value /\ seen' = seen
  <2>1. DeviceOK'
    BY <1>1, <1>2, <1>4 DEF DeviceOK
  <2> QED BY <1>1, <1>4, <2>1, DeviceMoves
<1> QED BY <1>3, <1>4 DEF Change

\* The service of the outstanding request.
LEMMA QuestionFields ==
    ASSUME NEW r
    PROVE  /\ Question(r).service = "Write" <=> access.phase = "write"
           /\ Question(r).service = "ReadProperty" <=> access.phase \notin {"multiple", "write"}
           /\ access.phase = "multiple" => Question(r).refs = access.todo
           /\ access.phase \notin {"multiple", "write"} => Question(r).refs = <<Head(access.todo)>>
           /\ access.phase = "write" => Question(r).writes = r.writes
<1> DEFINE s == CASE access.phase = "multiple" -> "ReadPropertyMultiple"
                  [] access.phase = "write" -> "Write"
                  [] OTHER -> "ReadProperty"
<1>1. /\ access.phase = "multiple" => s = "ReadPropertyMultiple"
      /\ access.phase = "write" => s = "Write"
      /\ access.phase \notin {"multiple", "write"} => s = "ReadProperty"
    OBVIOUS
<1>2. Question(r) =
        [service |-> s,
         refs |-> IF access.phase \in {"multiple", "write"} THEN access.todo
                  ELSE <<Head(access.todo)>>,
         writes |-> IF access.phase = "write" THEN r.writes ELSE <<>>]
    BY DEF Question
<1> HIDE DEF s
<1>3. Question(r).service = s
    BY <1>2
<1>4. Question(r).refs = IF access.phase \in {"multiple", "write"} THEN access.todo
                         ELSE <<Head(access.todo)>>
    BY <1>2
<1>5. Question(r).writes = IF access.phase = "write" THEN r.writes ELSE <<>>
    BY <1>2
<1> QED BY <1>1, <1>3, <1>4, <1>5

\* The device answers the outstanding question as it is.
LEMMA ReadGood ==
    ASSUME AccessOK, NEW q \in ask, q.service # "Write",
           NEW a \in IF q.service = "ReadProperty" THEN {ReadAnswer(q.refs[1])}
                     ELSE MultipleAnswers(q.refs)
    PROVE  GoodAnswer(a)
<1>1. access.phase \notin {"idle", "done"} /\ \A r \in access.r : ask = {Question(r)}
    BY DEF AccessOK, AskOK
<1>2. PICK r \in Requests : access.r = {r} /\ PhaseOK(r)
    BY <1>1, TheCall
<1>3. q = Question(r) /\ DeviceOK
    BY <1>1, <1>2 DEF AccessOK
<1>4. WantedRefs(r.specs) \in Seq(DOMAIN Store)
    BY RequestFacts
<1>5. access.phase \in {"multiple", "each", "count", "element"}
    BY <1>1, <1>3, QuestionFields DEF AccessOK, CallOK
<1>6. CASE access.phase = "multiple"
  <2>1. a \in MultipleAnswers(access.todo)
    BY <1>3, <1>6, QuestionFields
  <2>2. access.todo \in Seq(DOMAIN Store) /\ access.todo # <<>>
    BY <1>2, <1>4, <1>6 DEF PhaseOK, MultipleOK
  <2> QED BY <1>3, <1>6, <2>1, <2>2, MultipleGood
<1>7. CASE access.phase # "multiple"
  <2> DEFINE x == Head(access.todo)
  <2>1. q.service = "ReadProperty" /\ q.refs = <<x>>
    BY <1>3, <1>5, <1>7, QuestionFields
  <2> HIDE DEF x
  <2>2. <<x>>[1] = x
    OBVIOUS
  <2>3. a = ReadAnswer(x)
    BY <2>1, <2>2, Zenon
  <2>4. CASE access.phase = "each"
    <3>1. access.todo \in Seq(DOMAIN Store) /\ access.todo # <<>>
      BY <1>2, <2>4 DEF PhaseOK, EachOK
    <3>2. x \in DOMAIN Store
      BY <3>1, HeadTail DEF x
    <3>3. Good([ref |-> x, err |-> ReadAnswer(x).err, val |-> ReadAnswer(x).val])
      BY <1>3, <2>4, <3>2, ReadOfProperty
    <3> HIDE DEF Good, ReadAnswer
    <3> QED BY <2>3, <2>4, <3>3 DEF GoodAnswer, x
  <2>5. CASE access.phase = "count" /\ a.err = "none"
    <3>1. access.todo = <<ListElement(r, 0)>>
      BY <1>2, <2>5 DEF PhaseOK, CountOK
    <3>2. x = ListElement(r, 0)
      BY <3>1 DEF x
    <3>3. \E s \in listed : ReadAnswer(ListElement(r, 0)).val = {Len(s)}
      BY <1>3, <2>3, <2>5, <3>2, ReadOfList
    <3> QED BY <2>3, <2>5, <3>2, <3>3 DEF GoodAnswer
  <2>6. CASE access.phase = "element" /\ a.err = "none"
    <3>1. PICK n, i \in Nat : i < n /\ access.todo = Rest(r, i, n)
      BY <1>2, <2>6 DEF PhaseOK, ElementOK
    <3>2. x = ListElement(r, i + 1)
      BY <3>1, RestFacts DEF x
    <3>3. x.index = {i + 1}
      BY <3>2 DEF ListElement, Reference
    <3>4. \E s \in listed : i + 1 \in 1 .. Len(s)
              /\ ReadAnswer(ListElement(r, i + 1)).val = {s[i + 1]}
      BY <1>3, <2>3, <2>6, <3>2, ReadOfList
    <3>5. ASSUME NEW j \in Nat, x.index = {j} PROVE j = i + 1
      BY <3>3, <3>5
    <3>6. \A j \in Nat : x.index = {j} => \E s \in listed : j \in 1 .. Len(s) /\ a.val = {s[j]}
      BY <2>3, <3>2, <3>4, <3>5
    <3> QED BY <2>6, <3>6 DEF GoodAnswer, x
  <2>7. CASE access.phase \in {"count", "element"} /\ a.err # "none"
    BY <2>7 DEF GoodAnswer
  <2> QED BY <1>5, <1>7, <2>4, <2>5, <2>6, <2>7
<1> QED BY <1>6, <1>7

\* A copy of a request reaches the device.
LEMMA PerformStep ==
    ASSUME AccessOK, Perform PROVE AccessOK'
<1>1. /\ access' = access /\ ask' = ask /\ copies' = copies /\ list' = list /\ kind' = kind
      /\ listed' = listed
    BY DEF Perform
<1>2. PICK q \in ask \cup copies :
        IF q.service = "Write" THEN PerformWrite(q) ELSE PerformRead(q)
    BY DEF Perform
<1>3. access.phase # "idle" /\ DeviceOK /\ AskOK
    BY <1>2 DEF AccessOK, CallOK
<1>4. CASE q.service # "Write"
  <2>1. q \in ask
    BY <1>2, <1>3, <1>4 DEF AskOK
  <2>2. PICK a \in (IF q.service = "ReadProperty" THEN {ReadAnswer(q.refs[1])}
                    ELSE MultipleAnswers(q.refs)) \cup {Refuse("device-busy")} :
            answers' = answers \cup {a}
    BY <1>2, <1>4, Zenon DEF PerformRead
  <2>3. value' = value /\ applied' = applied /\ seen' = seen
    BY <1>2, <1>4, Zenon DEF PerformRead
  <2>4. GoodAnswer(a)
    <3>1. CASE a = Refuse("device-busy")
      <4>1. a.err = "device-busy"
        BY <3>1, AnswerFields
      <4> QED BY <4>1 DEF GoodAnswer, Good
    <3>2. CASE a \in IF q.service = "ReadProperty" THEN {ReadAnswer(q.refs[1])}
                     ELSE MultipleAnswers(q.refs)
      BY <1>4, <2>1, <3>2, ReadGood
    <3> QED BY <2>2, <3>1, <3>2, Zenon
  <2>5. GoodAnswer(a)'
    BY <1>1, <2>3, <2>4, AnswersStay
  <2>6. DeviceOK'
    BY <1>1, <1>3, <2>3 DEF DeviceOK
  <2> QED BY <1>1, <1>3, <2>2, <2>3, <2>5, <2>6, DeviceMoves
<1>5. CASE q.service = "Write"
  <2>1. q \in copies
    BY <1>2, <1>3, <1>5 DEF AskOK
  <2>2. PICK n \in 0 .. Len(q.writes) :
          /\ value' = Written(q.writes, n)
          /\ answers' = IF ask # {q} THEN answers
                        ELSE answers \cup {Refuse(IF n = Len(q.writes) THEN "none" ELSE "denied")}
          /\ applied' = (applied \/ n = Len(q.writes))
          /\ seen' = (IF n = Len(q.writes) /\ ~applied THEN {} ELSE seen) \cup Held(value')
    BY <1>2, <1>5, Zenon DEF PerformWrite
  <2>3. value' = [x \in DOMAIN Store |-> value'[x]]
    <3>1. DOMAIN value = DOMAIN Store
      BY <1>3 DEF DeviceOK
    <3>2. DOMAIN value' = DOMAIN Store /\ value' = [x \in DOMAIN value' |-> value'[x]]
      BY <2>2, <3>1 DEF Written
    <3> QED BY <3>2
  <2>4. DeviceOK'
    <3>1. Held(value') \subseteq seen'
      BY <2>2
    <3> QED BY <1>1, <1>3, <2>3, <3>1 DEF DeviceOK
  <2>5. seen \subseteq seen' \/ (copies # {} /\ ~applied)
    BY <2>1, <2>2
  <2>6. applied => applied'
    BY <2>2
  <2>7. ASSUME NEW a \in answers', ask # {} PROVE a \in answers \/ GoodAnswer(a)'
    <3> SUFFICES ASSUME ask = {q}, a = Refuse(IF n = Len(q.writes) THEN "none" ELSE "denied")
                 PROVE  GoodAnswer(a)'
      BY <2>2, <2>7
    <3>1. PICK r \in Requests : access.r = {r}
      BY <1>3, TheCall
    <3>2. q = Question(r)
      BY <1>3, <3>1 DEF AskOK
    <3>3. access.phase = "write"
      BY <1>5, <3>2, QuestionFields
    <3>4. a.err = IF n = Len(q.writes) THEN "none" ELSE "denied"
      BY AnswerFields
    <3>5. a.err = "none" => applied'
      BY <2>2, <3>4
    <3> QED BY <1>1, <3>3, <3>5 DEF GoodAnswer
  <2> QED BY <1>1, <1>3, <2>4, <2>5, <2>6, <2>7, DeviceMoves
<1> QED BY <1>4, <1>5

\* The next request of the call is sent.
LEMMA IssueStep ==
    ASSUME AccessOK, Issue PROVE AccessOK'
<1>1. /\ access.phase \notin {"idle", "done"} /\ ask = {}
      /\ ask' = {Question(r) : r \in access.r}
      /\ copies' = copies \cup {q \in ask' : q.service = "Write"}
      /\ answers' = {}
      /\ access' = access /\ seen' = seen /\ listed' = listed /\ applied' = applied
      /\ value' = value /\ list' = list /\ kind' = kind
    BY DEF Issue, device
<1>2. PICK r \in Requests : access.r = {r} /\ PhaseOK(r) /\ (copies # {} => r.writes # <<>>)
    BY <1>1, TheCall
<1>3. ask' = {Question(r)} /\ Question(r)' = Question(r)
    BY <1>1, <1>2 DEF Question
<1>4. copies' # copies => access.phase = "write"
    BY <1>1, <1>3, QuestionFields
<1>5. copies' # {} => r.writes # <<>>
    BY <1>2, <1>4 DEF PhaseOK, WriteOK
<1>6. PhaseOK(r)'
  <2>1. access.phase # "write" => copies' = copies
    BY <1>4
  <2>2. access.phase = "each" => EachOK(r)'
    BY <1>1, <1>2, <2>1 DEF PhaseOK, EachOK, Good
  <2> QED BY <1>1, <1>2, <2>2 DEF PhaseOK, MultipleOK, CountOK, ElementOK, WriteOK, DoneOK
<1>7. CallOK'
    BY <1>1, <1>2, <1>5, <1>6 DEF AccessOK, CallOK
<1>8. AskOK'
  <2>1. \A q \in copies' : q.service = "Write"
    BY <1>1 DEF AccessOK, AskOK
  <2> QED BY <1>1, <1>2, <1>3, <2>1 DEF AskOK
<1>9. DeviceOK' /\ AccessReflectsDevice' /\ ObjectListRight'
    BY <1>1 DEF AccessOK, DeviceOK, AccessReflectsDevice, ObjectListRight
<1> QED BY <1>7, <1>8, <1>9 DEF AccessOK

-----------------------------------------------------------------------------
(* Steps of the call *)

\* A call is a record.
LEMMA CallFields ==
    ASSUME NEW r, NEW p, NEW todo, NEW e
    PROVE  /\ IsCall(Call(r, p, todo, e))
           /\ Call(r, p, todo, e).r = {r} /\ Call(r, p, todo, e).phase = p
           /\ Call(r, p, todo, e).todo = todo /\ Call(r, p, todo, e).out = <<>>
           /\ Call(r, p, todo, e).skipped = {} /\ Call(r, p, todo, e).err = e
           /\ Ended(r, e) = Call(r, "done", <<>>, e)
<1> QED BY DEF Call, Ended, IsCall

\* The number of elements to be read of a list.
LEMMA BoundFacts ==
    ASSUME NEW r \in Requests, NEW s \in Lists
    PROVE  /\ Len(s) \in Nat /\ DOMAIN s = 1 .. Len(s) /\ Bound(r, s) \in 0 .. Len(s)
           /\ Bound(r, s) = IF r.limit > 0 /\ r.limit < Len(s) THEN r.limit ELSE Len(s)
<1>1. Len(s) \in Nat /\ DOMAIN s = 1 .. Len(s)
    BY ListsAssumption
<1>2. r.limit \in Int
    BY RequestFacts
<1> DEFINE l == r.limit
<1> DEFINE n == Len(s)
<1>3. n \in Nat /\ l \in Int
    BY <1>1, <1>2
<1>4. Bound(r, s) = IF l > 0 THEN Min({l, n}) ELSE n
    BY DEF Bound
<1> HIDE DEF l, n
<1>5. l > 0 => Min({l, n}) = IF l < n THEN l ELSE n
    BY <1>3, MinOfTwo
<1>6. Bound(r, s) = IF l > 0 /\ l < n THEN l ELSE n
    BY <1>4, <1>5
<1>7. Bound(r, s) \in 0 .. n
    BY <1>3, <1>6
<1> QED BY <1>1, <1>6, <1>7 DEF l, n

\* A call that ends without a result.
LEMMA EndedStep ==
    ASSUME NEW r \in Requests, NEW e, access' = Ended(r, e), ask' = {}, DeviceOK',
           \A q \in copies' : q.service = "Write", copies' # {} => r.writes # <<>>,
           r.op \in BatchOps => e \in {"none", "invalid", "unresolved", "timeout", "device-busy"},
           e = "none" => /\ r.op # "ReadObjectList"
                         /\ r.op \in Batches => WantedRefs(r.specs) = <<>>
                         /\ r.writes # <<>> => applied'
    PROVE  AccessOK'
<1>1. /\ IsCall(access') /\ access'.r = {r} /\ access'.phase = "done" /\ access'.out = <<>>
      /\ access'.skipped = {} /\ access'.err = e
    BY DEF Ended, Call, IsCall
<1>2. IsSeq(<<>>) /\ DOMAIN <<>> = {}
    BY EmptyFacts
<1>3. PhaseOK(r)'
    BY <1>1 DEF PhaseOK, DoneOK
<1>4. CallOK'
    BY <1>1, <1>2, <1>3 DEF CallOK
<1>5. AskOK'
    BY DEF AskOK
<1>6. AccessReflectsDevice'
  <2> DEFINE f == [k \in DOMAIN access'.out |-> access'.out[k].ref]
  <2>1. f = <<>>
    <3>1. f \in [1 .. 0 -> {}]
      BY <1>1, <1>2
    <3> HIDE DEF f
    <3>2. f \in Seq({}) /\ Len(f) = 0
      BY <3>1
    <3> QED BY <3>2
  <2>2. e = "none" /\ r.op \in Batches => f = WantedRefs(r.specs)
    BY <2>1
  <2>3. r.op \in {"ReadMultiple", "ReadPropertiesMultiple"} =>
            e \in {"none", "invalid", "unresolved", "timeout", "device-busy"}
    BY DEF BatchOps
  <2> HIDE DEF f
  <2>4. \A k \in DOMAIN access'.out : FALSE
    BY <1>1, <1>2
  <2>5. [k \in DOMAIN access.out |-> access.out[k].ref]' = f
    BY DEF f
  <2> QED BY <1>1, <2>2, <2>3, <2>4, <2>5 DEF AccessReflectsDevice
<1>7. ObjectListRight'
  <2> SUFFICES ASSUME r.op = "ReadObjectList" PROVE ObjectListRight'
    BY <1>1 DEF ObjectListRight
  <2>1. e # "none"
    OBVIOUS
  <2>2. ASSUME NEW s \in listed', NEW n, n = Bound(r, s)
        PROVE  \E m \in 0 .. n : Listing(<<>>, s, {i \in (1 .. n) \ {} : i <= m})
    <3>1. n \in Nat
      <4>1. s \in Lists
        BY <1>1 DEF DeviceOK
      <4> QED BY <2>2, <4>1, BoundFacts
    <3>2. {i \in (1 .. n) \ {} : i <= 0} = {}
      BY <3>1
    <3>3. Listing(<<>>, s, {i \in (1 .. n) \ {} : i <= 0})
      BY <3>2, ListingNone
    <3>4. 0 \in 0 .. n
      BY <3>1
    <3> QED BY <3>3, <3>4, Zenon
  <2>3. \A k \in DOMAIN access'.out : FALSE
    BY <1>1, <1>2
  <2>4. ASSUME NEW s \in listed'
        PROVE  \E m \in 0 .. Bound(r, s) :
                  Listing(access'.out, s, {i \in (1 .. Bound(r, s)) \ access'.skipped : i <= m})
    <3>1. \E m \in 0 .. Bound(r, s) :
            Listing(<<>>, s, {i \in (1 .. Bound(r, s)) \ {} : i <= m})
      BY <2>2
    <3>2. access'.out = <<>> /\ access'.skipped = {}
      BY <1>1
    <3> QED BY <3>1, <3>2, Zenon
  <2> HIDE DEF Bound, Listing
  <2> QED BY <1>1, <2>1, <2>3, <2>4 DEF ObjectListRight
<1> QED BY <1>4, <1>5, <1>6, <1>7 DEF AccessOK

\* A call that goes on with its next request.
LEMMA GoesOnStep ==
    ASSUME NEW r \in Requests, IsCall(access'), IsSeq(access'.out), access'.r = {r},
           access'.phase \in {"multiple", "each", "count", "element", "write"},
           ask' = {}, DeviceOK', PhaseOK(r)',
           \A q \in copies' : q.service = "Write", copies' # {} => r.writes # <<>>
    PROVE  AccessOK'
<1>1. CallOK'
    BY DEF CallOK
<1>2. AskOK' /\ AccessReflectsDevice' /\ ObjectListRight'
    BY DEF AskOK, AccessReflectsDevice, ObjectListRight
<1> QED BY <1>1, <1>2 DEF AccessOK

\* A call begins.
LEMMA BeginStep ==
    ASSUME AccessOK, NEW r \in Requests, NEW resolved, Begin(r, resolved)
    PROVE  AccessOK'
<1> DEFINE refs == WantedRefs(r.specs)
<1>1. /\ access.phase = "idle" /\ ask' = ask /\ copies' = copies /\ value' = value
      /\ list' \in Lists /\ kind' \in Kinds /\ seen' = Held(value) /\ listed' = {list'}
    BY DEF Begin
<1>2. ask' = {} /\ copies' = {}
    BY <1>1 DEF AccessOK, CallOK
<1>3. DeviceOK'
    BY <1>1 DEF AccessOK, DeviceOK
<1>4. /\ refs \in Seq(DOMAIN Store)
      /\ refs = <<>> <=> \A k \in DOMAIN r.specs : r.specs[k].properties = <<>>
      /\ r.op \in ReadOps => r.writes = <<>>
    BY RequestFacts
<1>5. ASSUME NEW e, access' = Ended(r, e), e \in {"none", "invalid", "unresolved"},
             e = "none" => r.op \in ReadOps /\ r.op # "ReadObjectList"
                           /\ (r.op \in Batches => refs = <<>>)
      PROVE  AccessOK'
    BY <1>2, <1>3, <1>4, <1>5, EndedStep
<1>6. ASSUME NEW p \in {"multiple", "each", "count", "write"}, NEW todo,
             access' = Call(r, p, todo, "none"), PhaseOK(r)'
      PROVE  AccessOK'
  <2>1. IsCall(access') /\ access'.r = {r} /\ access'.phase = p /\ access'.out = <<>>
    BY <1>6 DEF Call, IsCall
  <2>2. IsSeq(<<>>)
    BY EmptyFacts
  <2> QED BY <1>2, <1>3, <1>6, <2>1, <2>2, GoesOnStep
<1>7. CASE ~resolved
  <2>1. access' = Ended(r, "unresolved")
    BY <1>7, Zenon DEF Begin
  <2> QED BY <1>5, <2>1
<1>8. CASE resolved /\ r.op \in BatchOps
  <2>1. access' = Multiple(r)
    BY <1>8 DEF Begin, BatchOps
  <2>2. CASE access' = Ended(r, "none") /\ (r.specs = <<>> \/ refs = <<>>)
    <3>1. refs = <<>>
      BY <1>4, <2>2, EmptyFacts
    <3>2. r.op \in ReadOps /\ r.op # "ReadObjectList"
      BY <1>8 DEF ReadOps, BatchOps
    <3> QED BY <1>5, <2>2, <3>1, <3>2
  <2>3. CASE access' = Ended(r, "invalid")
    BY <1>5, <2>3
  <2>4. CASE /\ access' = Call(r, "multiple", refs, "none")
             /\ IF r.op = "ReadMultiple" THEN r.specs # <<>> ELSE refs # <<>>
             /\ \A k \in DOMAIN r.specs : r.specs[k].properties # <<>>
    <3>1. refs # <<>>
      <4>1. CASE r.specs # <<>> /\ r.op = "ReadMultiple"
        <5>1. IsSeq(r.specs)
          BY RequestFacts
        <5>2. 1 \in DOMAIN r.specs
          BY <4>1, <5>1, HeadTail DEF IsSeq
        <5> QED BY <1>4, <2>4, <5>2
      <4> QED BY <2>4, <4>1
    <3>2. /\ access'.phase = "multiple" /\ access'.todo = refs /\ access'.out = <<>>
          /\ access'.err = "none"
      BY <2>4 DEF Call
    <3>3. MultipleOK(r)'
      BY <1>8, <3>1, <3>2 DEF MultipleOK
    <3>4. PhaseOK(r)'
      BY <3>2, <3>3 DEF PhaseOK
    <3> QED BY <1>6, <2>4, <3>4
  <2> QED BY <2>1, <2>2, <2>3, <2>4, Zenon DEF Multiple
<1>9. CASE resolved /\ r.op \in {"ReadProperty", "ReadProperties", "ReadObjectNames"}
  <2>1. access' = Each(r)
    BY <1>9 DEF Begin
  <2>2. CASE refs = <<>>
    <3>1. access' = Ended(r, "none")
      BY <2>1, <2>2, Zenon DEF Each
    <3>2. r.op \in ReadOps /\ r.op # "ReadObjectList"
      BY <1>9 DEF ReadOps, BatchOps
    <3> QED BY <1>5, <2>2, <3>1, <3>2
  <2>3. CASE refs # <<>>
    <3>1. access' = Call(r, "each", refs, "none")
      BY <2>1, <2>3, Zenon DEF Each
    <3>2. /\ access'.phase = "each" /\ access'.todo = refs /\ access'.out = <<>>
          /\ access'.err = "none"
      BY <3>1 DEF Call
    <3>3. Mirrors(<<>>, refs, refs)
      <4>1. Len(refs) \in Nat /\ Len(<<>>) = 0
        BY <1>4, EmptyFacts
      <4> HIDE DEF refs
      <4>2. Len(refs) = 0 + Len(refs) /\ \A k \in 1 .. Len(refs) : 0 + k = k
        BY <4>1
      <4>3. \A k \in 1 .. 0 : FALSE
        OBVIOUS
      <4> QED BY <4>1, <4>2, <4>3 DEF Mirrors
    <3>4. r.writes = <<>> /\ r.op # "ReadObjectList"
      BY <1>4, <1>9 DEF ReadOps, BatchOps
    <3>5. \A k \in DOMAIN access'.out : FALSE
      BY <3>2, EmptyFacts
    <3>6. EachOK(r)'
      BY <1>2, <1>4, <2>3, <3>2, <3>3, <3>4, <3>5 DEF EachOK
    <3>7. PhaseOK(r)'
      BY <3>2, <3>6 DEF PhaseOK
    <3> QED BY <1>6, <3>1, <3>7
  <2> QED BY <2>2, <2>3
<1>10. CASE resolved /\ r.op = "ReadObjectList"
  <2>1. access' = ObjectList(r)
    BY <1>10 DEF Begin
  <2>2. CASE access' = Ended(r, "invalid")
    BY <1>5, <2>2
  <2>3. CASE access' = Call(r, "count", <<ListElement(r, 0)>>, "none")
    <3>1. /\ access'.phase = "count" /\ access'.todo = <<ListElement(r, 0)>> /\ access'.out = <<>>
          /\ access'.skipped = {} /\ access'.err = "none"
      BY <2>3 DEF Call
    <3>2. PhaseOK(r)'
      BY <1>10, <3>1 DEF PhaseOK, CountOK
    <3> QED BY <1>6, <2>3, <3>2
  <2> QED BY <2>1, <2>2, <2>3, Zenon DEF ObjectList
<1>11. CASE resolved /\ r.op \notin ReadOps
  <2>1. access' = Write(r)
    BY <1>11 DEF Begin, ReadOps, BatchOps
  <2>2. CASE access' = Ended(r, "invalid")
    BY <1>5, <2>2
  <2>3. CASE access' = Call(r, "write", <<>>, "none") /\ r.writes # <<>>
    <3>1. /\ access'.phase = "write" /\ access'.todo = <<>> /\ access'.out = <<>>
          /\ access'.err = "none"
      BY <2>3 DEF Call
    <3>2. PhaseOK(r)'
      BY <1>11, <2>3, <3>1 DEF PhaseOK, WriteOK
    <3> QED BY <1>6, <2>3, <3>2
  <2> QED BY <2>1, <2>2, <2>3, Zenon DEF Write
<1>12. r.op \in ReadOps => r.op \in BatchOps \/ r.op = "ReadObjectList"
                           \/ r.op \in {"ReadProperty", "ReadProperties", "ReadObjectNames"}
    BY DEF ReadOps
<1> QED BY <1>7, <1>8, <1>9, <1>10, <1>11, <1>12

\* What an answer leaves alone.
Kept ==
    /\ ask' = {} /\ copies' = copies /\ seen' = seen /\ listed' = listed /\ applied' = applied
    /\ value' = value /\ list' = list /\ kind' = kind

\* A step with no request under way leaves the device as it was, and the copies of writes.
LEMMA KeptFacts ==
    ASSUME AccessOK, access.phase # "idle", Kept
    PROVE  DeviceOK' /\ \A q \in copies' : q.service = "Write"
<1> QED BY DEF AccessOK, DeviceOK, AskOK, Kept

\* A call that returns.
LEMMA DoneStep ==
    ASSUME NEW r \in Requests, IsCall(access'), IsSeq(access'.out), access'.r = {r},
           access'.phase = "done", ask' = {}, DeviceOK', DoneOK(r)',
           \A q \in copies' : q.service = "Write", copies' # {} => r.writes # <<>>,
           AccessReflectsDevice', ObjectListRight'
    PROVE  AccessOK'
<1>1. CallOK'
    BY DEF CallOK, PhaseOK
<1>2. AskOK'
    BY DEF AskOK
<1> QED BY <1>1, <1>2 DEF AccessOK

\* At first all of the request is to be read.
LEMMA MirrorsAll ==
    ASSUME NEW S, NEW refs \in Seq(S) PROVE Mirrors(<<>>, refs, refs)
<1>1. Len(refs) \in Nat /\ Len(<<>>) = 0
    BY EmptyFacts
<1>2. Len(refs) = 0 + Len(refs) /\ \A k \in 1 .. Len(refs) : 0 + k = k
    BY <1>1
<1>3. \A k \in 1 .. 0 : FALSE
    OBVIOUS
<1> QED BY <1>1, <1>2, <1>3 DEF Mirrors

\* mapRPMResults gives each property the result of that property.
LEMMA MapGood ==
    ASSUME NEW refs \in Seq(DOMAIN Store), \A k \in DOMAIN refs : refs[k].index = {},
           access.todo = refs, NEW ack, AckOK(ack), NEW k \in DOMAIN refs
    PROVE  Good(mapRPMResults(refs, ack)[k]) /\ mapRPMResults(refs, ack)[k].ref = refs[k]
<1> DEFINE hits == {j \in DOMAIN ack : ack[j].ref.object = refs[k].object
                                        /\ ack[j].ref.property = refs[k].property}
<1> DEFINE o == mapRPMResults(refs, ack)[k]
<1>1. o = IF hits = {} THEN [ref |-> refs[k], err |-> "no-result", val |-> {}]
          ELSE [ack[Max(hits)] EXCEPT !.ref = refs[k]]
    BY DEF mapRPMResults
<1> HIDE DEF o
<1>2. CASE hits = {}
  <2>1. o.err = "no-result" /\ o.ref = refs[k]
    BY <1>1, <1>2
  <2> QED BY <2>1 DEF Good, o
<1>3. CASE hits # {}
  <2>1. Len(ack) \in Nat /\ DOMAIN ack = 1 .. Len(ack)
    BY SeqFacts DEF AckOK
  <2>2. hits \subseteq 1 .. Len(ack)
    BY <2>1
  <2> DEFINE j == Max(hits)
  <2>3. j \in hits
    <3> HIDE DEF hits
    <3> QED BY <1>3, <2>1, <2>2, MaxMin
  <2>4. /\ j \in DOMAIN ack /\ ack[j].ref.object = refs[k].object
        /\ ack[j].ref.property = refs[k].property
    BY <2>3
  <2>5. o = [ack[j] EXCEPT !.ref = refs[k]]
    BY <1>1, <1>3, Zenon
  <2> HIDE DEF j, hits
  <2> DEFINE e == ack[j]
  <2>6. /\ e = [ref |-> e.ref, err |-> e.err, val |-> e.val] /\ Good(e)
        /\ \E m \in DOMAIN refs : e.ref = refs[m]
    BY <2>4, Zenon DEF AckOK
  <2>7. \A m \in DOMAIN refs : refs[m] \in DOMAIN Store
    OBVIOUS
  <2>8. e.ref = refs[k]
    <3>1. PICK m \in DOMAIN refs : e.ref = refs[m]
      BY <2>6
    <3> DEFINE x == refs[m]
    <3> DEFINE y == refs[k]
    <3>2. x \in DOMAIN Store /\ y \in DOMAIN Store /\ x.index = {} /\ y.index = {}
      BY <2>7
    <3>3. x.object = y.object /\ x.property = y.property
      BY <2>4, <3>1
    <3> HIDE DEF x, y
    <3>4. /\ x = [object |-> x.object, property |-> x.property, index |-> x.index]
          /\ y = [object |-> y.object, property |-> y.property, index |-> y.index]
      BY <3>2, StoreAssumption
    <3>5. x = y
      BY <3>2, <3>3, <3>4, Zenon
    <3> QED BY <3>1, <3>5 DEF x, y
  <2>9. o.ref = refs[k] /\ o.err = e.err /\ o.val = e.val
    <3> DEFINE y == refs[k]
    <3>1. o = [e EXCEPT !.ref = y]
      BY <2>5
    <3> HIDE DEF e, y
    <3>2. o.ref = y /\ o.err = e.err /\ o.val = e.val
      BY <2>6, <3>1
    <3> QED BY <3>2 DEF y
  <2> HIDE DEF e
  <2>10. Good(o)
    BY <2>6, <2>8, <2>9 DEF Good
  <2> QED BY <2>9, <2>10 DEF o
<1> QED BY <1>2, <1>3

\* A ReadPropertyMultiple is answered, refused or not answered.
LEMMA MultipleStep ==
    ASSUME AccessOK, NEW r \in Requests, access.r = {r}, PhaseOK(r), access.phase = "multiple",
           copies # {} => r.writes # <<>>,
           NEW a, GoodAnswer(a), Kept, access' = AfterMultiple(r, a)
    PROVE  AccessOK'
<1> DEFINE refs == access.todo
<1>1. /\ r.op \in BatchOps /\ refs = WantedRefs(r.specs) /\ refs # <<>> /\ access.out = <<>>
      /\ access.err = "none"
    BY DEF PhaseOK, MultipleOK, BatchOps
<1>2. refs \in Seq(DOMAIN Store) /\ \A k \in DOMAIN refs : refs[k].index = {}
    BY <1>1, RequestFacts
<1>3. r.writes = <<>> /\ r.op # "ReadObjectList" /\ r.op \in ReadOps /\ copies = {}
    BY <1>1, RequestFacts DEF BatchOps, ReadOps
<1>4. DeviceOK' /\ (\A q \in copies' : q.service = "Write") /\ ask' = {} /\ copies' = {}
    BY <1>3, KeptFacts DEF Kept
<1>5. IsCall(access) /\ IsSeq(<<>>) /\ DOMAIN <<>> = {}
    BY EmptyFacts DEF AccessOK, CallOK
<1>6. CASE a.err = "none"
  <2> DEFINE out == mapRPMResults(refs, a.ack)
  <2>1. access' = [access EXCEPT !.phase = "done", !.out = out]
    BY <1>6, Zenon DEF AfterMultiple
  <2>2. AckOK(a.ack)
    BY <1>6 DEF GoodAnswer
  <2>3. \A k \in DOMAIN refs : Good(out[k]) /\ out[k].ref = refs[k]
    BY <1>2, <2>2, MapGood
  <2>4. Len(refs) \in Nat /\ DOMAIN refs = 1 .. Len(refs)
    BY <1>2
  <2>5. DOMAIN out = 1 .. Len(refs) /\ out = [k \in 1 .. Len(refs) |-> out[k]]
    BY <2>4 DEF mapRPMResults
  <2> HIDE DEF out
  <2>6. IsSeq(out)
    <3> DEFINE T == ToSet(out)
    <3>1. \A k \in 1 .. Len(refs) : out[k] \in T
      BY <2>5 DEF ToSet
    <3> HIDE DEF T
    <3>2. out \in [1 .. Len(refs) -> T]
      BY <2>5, <3>1
    <3>3. out \in Seq(T)
      BY <2>4, <3>2
    <3> QED BY <3>3 DEF IsSeq, T
  <2>7. /\ IsCall(access') /\ access'.r = {r} /\ access'.phase = "done" /\ access'.out = out
        /\ access'.err = "none"
    BY <1>1, <1>5, <2>1 DEF IsCall
  <2>8. [k \in DOMAIN out |-> out[k].ref] = refs
    <3>1. refs = [k \in 1 .. Len(refs) |-> refs[k]]
      BY <1>2
    <3>2. \A k \in 1 .. Len(refs) : out[k].ref = refs[k]
      BY <2>3, <2>4
    <3> HIDE DEF refs
    <3> QED BY <2>5, <3>1, <3>2, Zenon
  <2>9. [k \in DOMAIN access'.out |-> access'.out[k].ref] = WantedRefs(r.specs)
    BY <1>1, <2>7, <2>8
  <2>10. (\A k \in DOMAIN access.out : Good(access.out[k]))'
    <3>1. \A k \in DOMAIN out : Good(out[k])
      BY <2>3, <2>4, <2>5
    <3> QED BY <2>7, <3>1 DEF Good, Kept
  <2>11. AccessReflectsDevice'
    BY <1>3, <2>7, <2>9, <2>10 DEF AccessReflectsDevice, Good
  <2>12. ObjectListRight'
    BY <1>3, <2>7 DEF ObjectListRight
  <2>13. DoneOK(r)'
    BY <1>4 DEF DoneOK
  <2> QED BY <1>4, <2>6, <2>7, <2>11, <2>12, <2>13, DoneStep
<1>7. CASE a.err # "none" /\ rpmUnusable(a.err)
  <2>1. access' = [access EXCEPT !.phase = "each"]
    BY <1>7, Zenon DEF AfterMultiple
  <2>2. /\ IsCall(access') /\ access'.r = {r} /\ access'.phase = "each" /\ access'.out = <<>>
        /\ access'.err = "none" /\ access'.todo = refs
    BY <1>1, <1>5, <2>1 DEF IsCall
  <2>3. Mirrors(<<>>, refs, refs)
    BY <1>2, MirrorsAll
  <2>4. \A k \in DOMAIN access'.out : FALSE
    BY <1>5, <2>2
  <2>5. EachOK(r)'
    BY <1>1, <1>2, <1>3, <1>4, <2>2, <2>3, <2>4 DEF EachOK
  <2>6. PhaseOK(r)'
    BY <2>2, <2>5 DEF PhaseOK
  <2> QED BY <1>4, <1>5, <2>2, <2>6, GoesOnStep
<1>8. CASE a.err # "none" /\ ~rpmUnusable(a.err)
  <2>1. access' = Ended(r, a.err) /\ a.err \in {"device-busy", "timeout"}
    BY <1>8 DEF AfterMultiple, GoodAnswer
  <2> QED BY <1>3, <1>4, <2>1, EndedStep
<1> QED BY <1>6, <1>7, <1>8

\* A write is answered or not.
LEMMA WriteStep ==
    ASSUME AccessOK, NEW r \in Requests, access.r = {r}, PhaseOK(r), access.phase = "write",
           copies # {} => r.writes # <<>>,
           NEW a, GoodAnswer(a), Kept, access' = AfterWrite(r, a)
    PROVE  AccessOK'
<1>1. r.op \notin ReadOps /\ r.writes # <<>> /\ access.out = <<>>
    BY DEF PhaseOK, WriteOK
<1>2. r.op \notin Batches /\ r.op # "ReadObjectList" /\ r.op \notin BatchOps
    BY <1>1 DEF ReadOps, Batches, BatchOps
<1>3. DeviceOK' /\ (\A q \in copies' : q.service = "Write") /\ ask' = {} /\ applied' = applied
    BY KeptFacts DEF Kept
<1>4. a.err = "none" => applied
    BY DEF GoodAnswer
<1>5. CASE a.err # "none" \/ r.op # "WriteAndReadBack"
  <2>1. access' = Ended(r, a.err)
    BY <1>5, Zenon DEF AfterWrite
  <2> QED BY <1>1, <1>2, <1>3, <1>4, <2>1, EndedStep
<1>6. CASE a.err = "none" /\ r.op = "WriteAndReadBack"
  <2> DEFINE x == r.writes[1].ref
  <2>1. access' = [access EXCEPT !.phase = "each", !.todo = <<x>>]
    BY <1>6, Zenon DEF AfterWrite
  <2>2. IsSeq(r.writes) /\ \A k \in DOMAIN r.writes : r.writes[k].ref \in DOMAIN Store
    BY RequestFacts
  <2>3. 1 \in DOMAIN r.writes
    BY <1>1, <2>2, HeadTail DEF IsSeq
  <2>4. x \in DOMAIN Store
    BY <2>2, <2>3
  <2> HIDE DEF x
  <2>5. <<x>> \in Seq(DOMAIN Store) /\ <<x>> # <<>>
    BY <2>4
  <2>6. IsCall(access)
    BY DEF AccessOK, CallOK
  <2>7. /\ IsCall(access') /\ access'.r = {r} /\ access'.phase = "each" /\ access'.out = <<>>
        /\ access'.todo = <<x>>
    BY <1>1, <2>1, <2>6 DEF IsCall
  <2>8. \A k \in DOMAIN access'.out : FALSE
    BY <2>7, EmptyFacts
  <2>9. EachOK(r)'
    BY <1>2, <1>3, <1>4, <1>6, <2>5, <2>7, <2>8 DEF EachOK
  <2>10. PhaseOK(r)'
    BY <1>6, <2>7, <2>9 DEF PhaseOK
  <2> QED BY <1>1, <1>3, <2>7, <2>10, EmptyFacts, GoesOnStep
<1> QED BY <1>5, <1>6

\* The call goes on, or returns after the last request.
LEMMA GoOnFields ==
    ASSUME NEW c, IsCall(c)
    PROVE  /\ IsCall(GoOn(c)) /\ GoOn(c).r = c.r /\ GoOn(c).todo = c.todo /\ GoOn(c).out = c.out
           /\ GoOn(c).skipped = c.skipped /\ GoOn(c).err = c.err
           /\ GoOn(c).phase = IF c.todo = <<>> THEN "done" ELSE c.phase
<1> QED BY DEF GoOn, IsCall

\* A property is read.
LEMMA EachStep ==
    ASSUME AccessOK, NEW r \in Requests, access.r = {r}, PhaseOK(r), access.phase = "each",
           copies # {} => r.writes # <<>>,
           NEW a, GoodAnswer(a), Kept, access' = AfterRead(r, a)
    PROVE  AccessOK'
<1> DEFINE refs == WantedRefs(r.specs)
<1> DEFINE todo == access.todo
<1> DEFINE out == access.out
<1> DEFINE o == [ref |-> Head(todo), err |-> a.err, val |-> a.val]
<1> DEFINE alone == r.op \in {"ReadProperty", "WriteAndReadBack"}
<1> DEFINE out2 == IF NoName(r, a) THEN out ELSE Append(out, o)
<1> DEFINE err2 == IF alone THEN a.err ELSE access.err
<1> DEFINE c == [access EXCEPT !.todo = Tail(todo), !.out = out2, !.err = err2]
<1>1. /\ r.op # "ReadObjectList" /\ todo \in Seq(DOMAIN Store) /\ todo # <<>>
      /\ \A k \in DOMAIN out : Good(out[k])
      /\ r.op \in Batches => Mirrors(out, todo, refs)
      /\ r.writes # <<>> \/ copies # {} => applied
      /\ ~alone => access.err = "none"
    BY DEF PhaseOK, EachOK
<1>2. DeviceOK' /\ (\A q \in copies' : q.service = "Write")
      /\ ask' = {} /\ copies' = copies /\ seen' = seen /\ applied' = applied
    BY KeptFacts DEF Kept
<1>3. IsCall(access) /\ IsSeq(out)
    BY DEF AccessOK, CallOK
<1>4. Good(o)
    BY DEF GoodAnswer
<1>5. access' = GoOn(c)
    BY Zenon DEF AfterRead
<1>6. o.ref = Head(todo)
    OBVIOUS
<1> HIDE DEF o, out2, err2
<1>7. /\ IsCall(c) /\ c.r = {r} /\ c.phase = "each" /\ c.todo = Tail(todo) /\ c.out = out2
      /\ c.err = err2
  <2> DEFINE t == Tail(todo)
  <2> HIDE DEF t, todo, out
  <2>1. c = [access EXCEPT !.todo = t, !.out = out2, !.err = err2]
    BY DEF t
  <2> HIDE DEF c
  <2>2. /\ IsCall(c) /\ c.r = access.r /\ c.phase = access.phase /\ c.todo = t /\ c.out = out2
        /\ c.err = err2
    BY <1>3, <2>1 DEF IsCall
  <2> QED BY <2>2 DEF t
<1> HIDE DEF c
<1>8. /\ IsCall(access') /\ access'.r = {r} /\ access'.todo = Tail(todo) /\ access'.out = out2
      /\ access'.err = err2
      /\ access'.phase = IF Tail(todo) = <<>> THEN "done" ELSE "each"
    BY <1>5, <1>7, GoOnFields
<1>9. IsSeq(out2) /\ \A k \in DOMAIN out2 : Good(out2[k])
  <2>1. CASE out2 = out
    BY <1>1, <1>3, <2>1
  <2>2. CASE out2 = Append(out, o)
    <3>1. /\ Len(out) \in Nat /\ DOMAIN out = 1 .. Len(out) /\ IsSeq(Append(out, o))
          /\ DOMAIN Append(out, o) = 1 .. Len(out) + 1
          /\ \A k \in 1 .. Len(out) : Append(out, o)[k] = out[k]
          /\ Append(out, o)[Len(out) + 1] = o
      BY <1>3, SeqFacts
    <3> DEFINE z == Append(out, o)
    <3> HIDE DEF z
    <3>2. ASSUME NEW k \in 1 .. Len(out) + 1 PROVE Good(z[k])
      <4>1. k \in 1 .. Len(out) \/ k = Len(out) + 1
        BY <3>1
      <4>2. z[k] = o \/ (k \in DOMAIN out /\ z[k] = out[k])
        BY <3>1, <4>1 DEF z
      <4> QED BY <1>1, <1>4, <4>2
    <3> QED BY <2>2, <3>1, <3>2 DEF z
  <2> QED BY <2>1, <2>2 DEF out2
<1>10. r.op \in Batches => Mirrors(out2, Tail(todo), refs)
  <2> SUFFICES ASSUME r.op \in Batches PROVE Mirrors(out2, Tail(todo), refs)
    OBVIOUS
  <2>1. out2 = Append(out, o)
    <3>1. r.op # "ReadObjectNames"
      BY DEF Batches
    <3> QED BY <3>1 DEF out2, NoName
  <2>2. /\ Len(out) \in Nat /\ Len(out2) = Len(out) + 1
        /\ \A k \in 1 .. Len(out) : out2[k] = out[k]
        /\ out2[Len(out) + 1] = o
    BY <1>3, <2>1, SeqFacts
  <2>3. /\ Len(todo) \in Nat \ {0} /\ Head(todo) = todo[1]
        /\ Len(Tail(todo)) = Len(todo) - 1
        /\ \A k \in 1 .. Len(todo) - 1 : Tail(todo)[k] = todo[k + 1]
    BY <1>1, HeadTail
  <2>4. /\ Len(refs) = Len(out) + Len(todo)
        /\ \A k \in 1 .. Len(out) : out[k].ref = refs[k]
        /\ \A k \in 1 .. Len(todo) : todo[k] = refs[Len(out) + k]
    BY <1>1 DEF Mirrors
  <2> DEFINE n == Len(out)
  <2> DEFINE m == Len(todo)
  <2> HIDE DEF n, m, refs, todo, out
  <2>5. n \in Nat /\ m \in Nat \ {0} /\ Len(out2) = n + 1 /\ Len(Tail(todo)) = m - 1
        /\ Len(refs) = n + m
    BY <2>2, <2>3, <2>4 DEF n, m
  <2>6. Len(refs) = Len(out2) + Len(Tail(todo))
    <3>1. n + m = (n + 1) + (m - 1)
      BY <2>5
    <3> QED BY <2>5, <3>1, Zenon
  <2>7. ASSUME NEW k \in 1 .. n + 1 PROVE out2[k].ref = refs[k]
    <3>1. CASE k \in 1 .. n
      BY <2>2, <2>4, <3>1 DEF n
    <3>2. CASE k = n + 1
      <4>1. todo[1] = refs[n + 1]
        BY <2>4, <2>5 DEF n, m
      <4> QED BY <1>6, <2>2, <2>3, <3>2, <4>1 DEF n
    <3> QED BY <2>5, <3>1, <3>2
  <2>8. ASSUME NEW k \in 1 .. m - 1 PROVE Tail(todo)[k] = refs[(n + 1) + k]
    <3>1. k + 1 \in 1 .. m /\ n + (k + 1) = (n + 1) + k
      BY <2>5
    <3>2. todo[k + 1] = refs[n + (k + 1)]
      BY <2>4, <3>1 DEF n, m
    <3> QED BY <2>3, <3>1, <3>2 DEF m
  <2> QED BY <2>5, <2>6, <2>7, <2>8 DEF Mirrors
<1>11. r.op \in Batches => ~alone
    BY DEF Batches
<1>12. CASE Tail(todo) # <<>>
  <2>1. Tail(todo) \in Seq(DOMAIN Store)
    BY <1>1, HeadTail
  <2>2. EachOK(r)'
    <3>1. (\A k \in DOMAIN access.out : Good(access.out[k]))'
      BY <1>2, <1>8, <1>9 DEF Good
    <3> HIDE DEF refs, todo
    <3> QED BY <1>1, <1>2, <1>8, <1>10, <1>12, <2>1, <3>1 DEF EachOK, refs
  <2>3. ~alone => err2 = "none"
    BY <1>1 DEF err2
  <2>4. PhaseOK(r)'
    BY <1>8, <1>12, <2>2, <2>3 DEF PhaseOK
  <2> QED BY <1>2, <1>8, <1>9, <1>12, <2>4, GoesOnStep
<1>13. CASE Tail(todo) = <<>>
  <2>1. r.op \in Batches => [k \in DOMAIN out2 |-> out2[k].ref] = refs
    <3> SUFFICES ASSUME r.op \in Batches PROVE [k \in DOMAIN out2 |-> out2[k].ref] = refs
      OBVIOUS
    <3>1. Len(out2) \in Nat /\ DOMAIN out2 = 1 .. Len(out2)
      BY <1>9, SeqFacts
    <3>2. Len(refs) = Len(out2) + 0 /\ \A k \in 1 .. Len(out2) : out2[k].ref = refs[k]
      BY <1>10, <1>13, EmptyFacts DEF Mirrors
    <3>3. Len(refs) = Len(out2)
      BY <3>1, <3>2
    <3>4. refs = [k \in 1 .. Len(refs) |-> refs[k]]
      BY RequestFacts
    <3> HIDE DEF refs
    <3> QED BY <3>1, <3>2, <3>3, <3>4, Zenon
  <2>2. r.op \in BatchOps => err2 = "none"
    BY <1>1 DEF err2, BatchOps
  <2>3. (\A k \in DOMAIN access.out : Good(access.out[k]))'
    BY <1>2, <1>8, <1>9 DEF Good
  <2>4. AccessReflectsDevice'
    <3> HIDE DEF refs
    <3>1. r.op \in Batches => [k \in DOMAIN access.out |-> access.out[k].ref]' = refs
      BY <1>8, <2>1
    <3>2. access'.phase = "done"
      BY <1>8, <1>13
    <3> QED BY <1>1, <1>2, <1>8, <2>2, <2>3, <3>1, <3>2
            DEF AccessReflectsDevice, Good, BatchOps, refs
  <2>5. ObjectListRight'
    BY <1>1, <1>8 DEF ObjectListRight
  <2>6. DoneOK(r)'
    BY <1>1, <1>2 DEF DoneOK
  <2> QED BY <1>2, <1>8, <1>9, <1>13, <2>4, <2>5, <2>6, DoneStep
<1> QED BY <1>12, <1>13

\* The length of the list of objects is read.
LEMMA CountStep ==
    ASSUME AccessOK, NEW r \in Requests, access.r = {r}, PhaseOK(r), access.phase = "count",
           copies # {} => r.writes # <<>>,
           NEW a, GoodAnswer(a), Kept, access' = AfterCount(r, a)
    PROVE  AccessOK'
<1>1. /\ r.op = "ReadObjectList" /\ access.out = <<>> /\ access.skipped = {}
      /\ access.err = "none"
    BY DEF PhaseOK, CountOK
<1>2. DeviceOK' /\ (\A q \in copies' : q.service = "Write") /\ ask' = {} /\ copies' = copies
      /\ listed' = listed
    BY KeptFacts DEF Kept
<1>3. IsCall(access) /\ IsSeq(<<>>) /\ DOMAIN <<>> = {}
    BY EmptyFacts DEF AccessOK, CallOK
<1>4. CASE a.err # "none"
  <2>1. access' = Ended(r, a.err)
    BY <1>4, Zenon DEF AfterCount
  <2>2. r.op \notin BatchOps
    BY <1>1 DEF BatchOps
  <2> QED BY <1>2, <1>4, <2>1, <2>2, EndedStep
<1>5. CASE a.err = "none"
  <2>1. PICK s \in listed : a.val = {Len(s)}
    BY <1>5 DEF GoodAnswer
  <2>2. s \in Lists
    BY DEF AccessOK, DeviceOK
  <2> DEFINE n == Bound(r, s)
  <2> DEFINE t == Elements(r, n)
  <2> DEFINE c == [access EXCEPT !.phase = "element", !.todo = t]
  <2>3. /\ Len(s) \in Nat /\ n \in 0 .. Len(s)
        /\ n = IF r.limit > 0 /\ r.limit < Len(s) THEN r.limit ELSE Len(s)
    BY <2>2, BoundFacts
  <2>4. The(a.val) = Len(s)
    BY <2>1 DEF The
  <2>5. access' = GoOn(c)
    <3>1. access' = GoOn([access EXCEPT !.phase = "element",
            !.todo = Elements(r, IF r.limit > 0 /\ r.limit < Len(s) THEN r.limit ELSE Len(s))])
      BY <1>5, <2>4, Zenon DEF AfterCount
    <3> HIDE DEF n
    <3> QED BY <2>3, <3>1, Zenon
  <2> HIDE DEF n, t
  <2>6. /\ IsCall(c) /\ c.r = {r} /\ c.phase = "element" /\ c.todo = t /\ c.out = <<>>
        /\ c.skipped = {} /\ c.err = "none"
    <3>1. c = [access EXCEPT !.phase = "element", !.todo = t]
      OBVIOUS
    <3> HIDE DEF c
    <3>2. /\ IsCall(c) /\ c.r = access.r /\ c.phase = "element" /\ c.todo = t
          /\ c.out = access.out /\ c.skipped = access.skipped /\ c.err = access.err
      BY <1>3, <3>1 DEF IsCall
    <3> QED BY <1>1, <3>2, Zenon
  <2> HIDE DEF c
  <2>7. /\ IsCall(access') /\ access'.r = {r} /\ access'.todo = t /\ access'.out = <<>>
        /\ access'.skipped = {} /\ access'.err = "none"
        /\ access'.phase = IF t = <<>> THEN "done" ELSE "element"
    BY <2>5, <2>6, GoOnFields
  <2>8. n \in Nat /\ t = Rest(r, 0, n)
    <3>1. n \in Nat
      BY <2>3
    <3>2. Rest(r, 0, n) = Elements(r, n)
      BY <3>1, RestFacts
    <3> QED BY <3>1, <3>2 DEF t
  <2>9. t = <<>> <=> n = 0
    <3>1. 0 < n => t # <<>>
      BY <2>8, RestFacts
    <3>2. 0 >= n => t = <<>>
      BY <2>8, RestFacts
    <3> QED BY <2>8, <3>1, <3>2
  <2>10. \A k \in DOMAIN access'.out : FALSE
    BY <1>3, <2>7
  <2>11. \A u \in listed : listed = {u} => u = s
    BY <2>1
  <2>12. Listing(<<>>, s, (1 .. 0) \ {})
    <3>1. (1 .. 0) \ {} = {}
      OBVIOUS
    <3> QED BY <3>1, ListingNone
  <2>13. CASE n # 0
    <3>1. 0 < n /\ {} \subseteq 1 .. 0
      BY <2>8, <2>13
    <3>2. \E m, i \in Nat :
            /\ i < m /\ access'.todo = Rest(r, i, m) /\ access'.skipped \subseteq 1 .. i
            /\ \A u \in listed' : listed' = {u} =>
                  m = Bound(r, u) /\ Listing(access'.out, u, (1 .. i) \ access'.skipped)
      <4>1. \A u \in listed' : listed' = {u} =>
                n = Bound(r, u) /\ Listing(access'.out, u, (1 .. 0) \ access'.skipped)
        BY <1>2, <2>7, <2>11, <2>12 DEF n
      <4>2. access'.skipped \subseteq 1 .. 0 /\ 0 \in Nat /\ access'.todo = Rest(r, 0, n)
        BY <2>7, <2>8, <3>1
      <4> QED BY <2>8, <3>1, <4>1, <4>2, Zenon
    <3>3. ElementOK(r)'
      BY <1>1, <2>10, <3>2 DEF ElementOK
    <3>4. PhaseOK(r)'
      BY <2>7, <2>9, <2>13, <3>3 DEF PhaseOK
    <3> QED BY <1>2, <1>3, <2>7, <2>9, <2>13, <3>4, GoesOnStep
  <2>14. CASE n = 0
    <3>1. access'.phase = "done"
      BY <2>7, <2>9, <2>14
    <3>2. ASSUME NEW u \in listed', listed' = {u}
          PROVE  Listing(access'.out, u, (1 .. Bound(r, u)) \ access'.skipped)
      <4>1. u = s /\ Bound(r, u) = 0
        BY <1>2, <2>11, <2>14, <3>2 DEF n
      <4> QED BY <2>7, <2>12, <4>1, Zenon
    <3>3. ObjectListRight'
      <4> HIDE DEF Bound, Listing
      <4> QED BY <2>7, <2>10, <3>2 DEF ObjectListRight
    <3>4. AccessReflectsDevice' /\ DoneOK(r)'
      BY <1>1, <2>7 DEF AccessReflectsDevice, DoneOK
    <3> QED BY <1>2, <1>3, <2>7, <3>1, <3>3, <3>4, DoneStep
  <2> QED BY <2>13, <2>14
<1> QED BY <1>4, <1>5

\* An element of the list of objects is read.
LEMMA ElementStep ==
    ASSUME AccessOK, NEW r \in Requests, access.r = {r}, PhaseOK(r), access.phase = "element",
           copies # {} => r.writes # <<>>,
           NEW a, GoodAnswer(a), Kept, access' = AfterElement(r, a)
    PROVE  AccessOK'
<1> DEFINE out == access.out
<1> DEFINE skipped == access.skipped
<1> DEFINE t == Tail(access.todo)
<1>1. /\ r.op = "ReadObjectList" /\ access.err = "none"
      /\ \A k \in DOMAIN out : \E s \in listed : out[k] \in ToSet(s)
    BY DEF PhaseOK, ElementOK
<1>2. PICK n, i \in Nat :
        /\ i < n /\ access.todo = Rest(r, i, n) /\ skipped \subseteq 1 .. i
        /\ \A s \in listed : listed = {s} =>
              n = Bound(r, s) /\ Listing(out, s, (1 .. i) \ skipped)
    BY DEF PhaseOK, ElementOK
<1>3. DeviceOK' /\ (\A q \in copies' : q.service = "Write") /\ ask' = {} /\ copies' = copies
      /\ listed' = listed
    BY KeptFacts DEF Kept
<1>4. IsCall(access) /\ IsSeq(out) /\ listed \subseteq Lists
    BY DEF AccessOK, CallOK, DeviceOK
<1>5. t = Rest(r, i + 1, n) /\ Head(access.todo) = ListElement(r, i + 1)
    BY <1>2, RestFacts
<1>6. Head(access.todo).index = {i + 1}
    BY <1>5 DEF ListElement, Reference
<1>7. t = <<>> <=> i + 1 = n
  <2> DEFINE j == i + 1
  <2>1. j \in Nat /\ t = Rest(r, j, n)
    BY <1>5
  <2> HIDE DEF j, t
  <2>2. j < n => t # <<>>
    BY <2>1, RestFacts
  <2>3. j >= n => t = <<>>
    BY <2>1, RestFacts
  <2>4. j <= n
    BY <1>2 DEF j
  <2>5. t = <<>> <=> j = n
    BY <2>1, <2>2, <2>3, <2>4
  <2> QED BY <2>5 DEF j
<1> HIDE DEF t
<1>8. ASSUME NEW c, NEW out2, NEW skip2, IsCall(c), c.r = {r}, c.phase = "element", c.todo = t,
             c.out = out2, c.skipped = skip2, c.err = "none", IsSeq(out2),
             access' = GoOn(c), skip2 \subseteq 1 .. i + 1,
             \A k \in DOMAIN out2 : \E s \in listed : out2[k] \in ToSet(s),
             \A s \in listed : listed = {s} => Listing(out2, s, (1 .. i + 1) \ skip2)
      PROVE  AccessOK'
  <2>1. /\ IsCall(access') /\ access'.r = {r} /\ access'.todo = t /\ access'.out = out2
        /\ access'.skipped = skip2 /\ access'.err = "none"
        /\ access'.phase = IF t = <<>> THEN "done" ELSE "element"
    BY <1>8, GoOnFields
  <2>2. CASE i + 1 # n
    <3>1. i + 1 < n /\ i + 1 \in Nat
      BY <1>2, <2>2
    <3>2. \E m, j \in Nat :
            /\ j < m /\ access'.todo = Rest(r, j, m) /\ access'.skipped \subseteq 1 .. j
            /\ \A u \in listed' : listed' = {u} =>
                  m = Bound(r, u) /\ Listing(access'.out, u, (1 .. j) \ access'.skipped)
      <4>1. \A u \in listed' : listed' = {u} =>
              n = Bound(r, u) /\ Listing(access'.out, u, (1 .. i + 1) \ access'.skipped)
        BY <1>2, <1>3, <1>8, <2>1
      <4>2. access'.todo = Rest(r, i + 1, n) /\ access'.skipped \subseteq 1 .. i + 1
        BY <1>5, <1>8, <2>1
      <4> DEFINE j == i + 1
      <4> HIDE DEF j
      <4>3. /\ j \in Nat /\ j < n /\ access'.todo = Rest(r, j, n) /\ access'.skipped \subseteq 1 .. j
            /\ \A u \in listed' : listed' = {u} =>
                  n = Bound(r, u) /\ Listing(access'.out, u, (1 .. j) \ access'.skipped)
        BY <3>1, <4>1, <4>2 DEF j
      <4> QED BY <4>3
    <3>3. ElementOK(r)'
      BY <1>1, <1>3, <1>8, <2>1, <3>2 DEF ElementOK
    <3>4. PhaseOK(r)'
      BY <1>7, <2>1, <2>2, <3>3 DEF PhaseOK
    <3> QED BY <1>3, <1>7, <1>8, <2>1, <2>2, <3>4, GoesOnStep
  <2>3. CASE i + 1 = n
    <3>1. access'.phase = "done"
      BY <1>7, <2>1, <2>3
    <3>2. ASSUME NEW u \in listed', listed' = {u}
          PROVE  Listing(access'.out, u, (1 .. Bound(r, u)) \ access'.skipped)
      <4>1. Bound(r, u) = n /\ Listing(out2, u, (1 .. i + 1) \ skip2)
        BY <1>2, <1>3, <1>8, <3>2
      <4> QED BY <2>1, <2>3, <4>1, Zenon
    <3>3. ObjectListRight'
      <4> HIDE DEF Bound, Listing
      <4> QED BY <1>3, <1>8, <2>1, <3>2 DEF ObjectListRight
    <3>4. AccessReflectsDevice' /\ DoneOK(r)'
      <4>1. r.writes = <<>>
        BY <1>1, RequestFacts DEF ReadOps
      <4> QED BY <1>1, <1>3, <2>1, <4>1 DEF AccessReflectsDevice, DoneOK
    <3> QED BY <1>3, <1>8, <2>1, <3>1, <3>3, <3>4, DoneStep
  <2> QED BY <2>2, <2>3
<1>9. CASE a.err = "none"
  <2> DEFINE x == The(a.val)
  <2> DEFINE out2 == Append(out, x)
  <2> DEFINE c == [access EXCEPT !.todo = t, !.out = out2]
  <2>1. access' = GoOn(c)
    BY <1>9, Zenon DEF AfterElement, t
  <2>2. PICK s \in listed : i + 1 \in 1 .. Len(s) /\ a.val = {s[i + 1]}
    <3>1. i + 1 \in Nat
      BY <1>2
    <3> QED BY <1>6, <1>9, <3>1 DEF GoodAnswer
  <2>3. x = s[i + 1]
    BY <2>2 DEF The
  <2>4. x \in ToSet(s)
    <3>1. DOMAIN s = 1 .. Len(s)
      BY <1>4, BoundFacts
    <3>2. s[i + 1] \in ToSet(s)
      BY <2>2, <3>1 DEF ToSet
    <3> HIDE DEF x
    <3> QED BY <2>3, <3>2
  <2> HIDE DEF x
  <2>5. /\ Len(out) \in Nat /\ DOMAIN out = 1 .. Len(out) /\ IsSeq(out2)
        /\ DOMAIN out2 = 1 .. Len(out) + 1
        /\ \A k \in 1 .. Len(out) : out2[k] = out[k]
        /\ out2[Len(out) + 1] = x
    BY <1>4, SeqFacts
  <2> HIDE DEF out2
  <2>6. /\ IsCall(c) /\ c.r = {r} /\ c.phase = "element" /\ c.todo = t /\ c.out = out2
        /\ c.skipped = skipped /\ c.err = "none"
    <3>1. c = [access EXCEPT !.todo = t, !.out = out2]
      OBVIOUS
    <3> HIDE DEF c, out, skipped
    <3>2. /\ IsCall(c) /\ c.r = access.r /\ c.phase = access.phase /\ c.todo = t
          /\ c.out = out2 /\ c.skipped = access.skipped /\ c.err = access.err
      BY <1>4, <3>1 DEF IsCall
    <3> QED BY <1>1, <3>2, Zenon DEF skipped
  <2>7. ASSUME NEW k \in DOMAIN out2 PROVE \E u \in listed : out2[k] \in ToSet(u)
    <3>1. (k \in DOMAIN out /\ out2[k] = out[k]) \/ out2[k] = x
      BY <2>5
    <3> QED BY <1>1, <2>4, <3>1
  <2>8. ASSUME NEW u \in listed, listed = {u} PROVE Listing(out2, u, (1 .. i + 1) \ skipped)
    <3>1. u = s /\ Listing(out, s, (1 .. i) \ skipped)
      BY <1>2, <2>8
    <3>2. Listing(Append(out, s[i + 1]), s, ((1 .. i) \ skipped) \cup {i + 1})
      <4> DEFINE places == (1 .. i) \ skipped
      <4>1. places \subseteq 1 .. i /\ Listing(out, s, places)
        BY <3>1
      <4> HIDE DEF places
      <4>2. Listing(Append(out, s[i + 1]), s, places \cup {i + 1})
        BY <1>2, <1>4, <4>1, ListingMore
      <4> QED BY <4>2 DEF places
    <3>3. ((1 .. i) \ skipped) \cup {i + 1} = (1 .. i + 1) \ skipped
      <4> HIDE DEF skipped
      <4> QED BY <1>2
    <3> QED BY <2>3, <3>1, <3>2, <3>3, Zenon DEF out2
  <2>9. skipped \subseteq 1 .. i + 1
    <3> HIDE DEF skipped
    <3> QED BY <1>2
  <2> HIDE DEF c, out, skipped
  <2> QED BY <1>8, <2>1, <2>5, <2>6, <2>7, <2>8, <2>9
<1>10. CASE a.err # "none" /\ r.onError = "continue"
  <2> DEFINE skip2 == skipped \cup {i + 1}
  <2> DEFINE c == [access EXCEPT !.todo = t, !.skipped = skip2]
  <2>1. access' = GoOn(c)
    <3>1. access' = GoOn([access EXCEPT !.todo = t,
                                        !.skipped = access.skipped \cup Head(access.todo).index])
      BY <1>10, Zenon DEF AfterElement, t
    <3> QED BY <1>6, <3>1, Zenon
  <2> HIDE DEF skip2
  <2>2. /\ IsCall(c) /\ c.r = {r} /\ c.phase = "element" /\ c.todo = t /\ c.out = out
        /\ c.skipped = skip2 /\ c.err = "none"
    <3>1. c = [access EXCEPT !.todo = t, !.skipped = skip2]
      OBVIOUS
    <3> HIDE DEF c, out, skipped
    <3>2. /\ IsCall(c) /\ c.r = access.r /\ c.phase = access.phase /\ c.todo = t
          /\ c.out = access.out /\ c.skipped = skip2 /\ c.err = access.err
      BY <1>4, <3>1 DEF IsCall
    <3> QED BY <1>1, <3>2, Zenon DEF out
  <2>3. (1 .. i + 1) \ skip2 = (1 .. i) \ skipped /\ skip2 \subseteq 1 .. i + 1
    <3> HIDE DEF skipped
    <3>1. \A j \in 1 .. i + 1 : j \in 1 .. i \/ j = i + 1
      OBVIOUS
    <3>2. i + 1 \in 1 .. i + 1 /\ i + 1 \notin 1 .. i /\ 1 .. i \subseteq 1 .. i + 1
      OBVIOUS
    <3>3. skipped \subseteq 1 .. i
      BY <1>2
    <3> DEFINE A == 1 .. i
    <3> DEFINE B == 1 .. i + 1
    <3> DEFINE z == i + 1
    <3> HIDE DEF A, B, z
    <3>4. B \ (skipped \cup {z}) = A \ skipped /\ skipped \cup {z} \subseteq B
      <4>1. (\A j \in B : j \in A \/ j = z) /\ z \in B /\ z \notin A /\ A \subseteq B
        BY <3>1, <3>2 DEF A, B, z
      <4>2. skipped \subseteq A
        BY <3>3 DEF A
      <4> QED BY <4>1, <4>2
    <3> QED BY <3>4 DEF skip2, A, B, z
  <2>4. \A s \in listed : listed = {s} => Listing(out, s, (1 .. i + 1) \ skip2)
    BY <1>2, <2>3
  <2> HIDE DEF c, out, skipped
  <2> QED BY <1>1, <1>4, <1>8, <2>1, <2>2, <2>3, <2>4
<1>11. CASE a.err # "none" /\ r.onError # "continue"
  <2> DEFINE e == IF r.onError = "stop" THEN "stopped" ELSE a.err
  <2>1. access' = [access EXCEPT !.phase = "done", !.err = e] /\ e # "none"
    BY <1>11, Zenon DEF AfterElement
  <2> HIDE DEF e
  <2>2. /\ IsCall(access') /\ access'.r = {r} /\ access'.phase = "done" /\ access'.out = out
        /\ access'.skipped = skipped /\ access'.err = e
    BY <1>4, <2>1 DEF IsCall
  <2>3. ASSUME NEW s \in listed', listed' = {s}
        PROVE  \E m \in 0 .. Bound(r, s) :
                  Listing(access'.out, s, {j \in (1 .. Bound(r, s)) \ access'.skipped : j <= m})
    <3>1. Bound(r, s) = n /\ Listing(out, s, (1 .. i) \ skipped)
      BY <1>2, <1>3, <2>3
    <3>2. {j \in (1 .. n) \ skipped : j <= i} = (1 .. i) \ skipped /\ i \in 0 .. n
      <4> HIDE DEF skipped
      <4> QED BY <1>2
    <3>3. Listing(access'.out, s, {j \in (1 .. n) \ access'.skipped : j <= i})
      BY <2>2, <3>1, <3>2, Zenon
    <3> QED BY <3>1, <3>2, <3>3, Zenon
  <2>4. ObjectListRight'
    <3> HIDE DEF Bound, Listing
    <3> QED BY <1>1, <1>3, <2>1, <2>2, <2>3 DEF ObjectListRight
  <2>5. AccessReflectsDevice' /\ DoneOK(r)'
    <3>1. r.writes = <<>>
      BY <1>1, RequestFacts DEF ReadOps
    <3> QED BY <1>1, <1>3, <2>2, <3>1 DEF AccessReflectsDevice, DoneOK
  <2> QED BY <1>3, <1>4, <2>2, <2>4, <2>5, DoneStep
<1> QED BY <1>9, <1>10, <1>11

-----------------------------------------------------------------------------
(* Access: the theorems *)

\* The outstanding request ends, with an answer or without one.
LEMMA ConfirmedStep ==
    ASSUME AccessOK, ask # {}, NEW a, GoodAnswer(a), Confirmed(a)
    PROVE  AccessOK'
<1>1. access.phase \notin {"idle", "done"}
    BY DEF AccessOK, AskOK
<1>2. PICK r \in Requests : access.r = {r} /\ PhaseOK(r) /\ (copies # {} => r.writes # <<>>)
    BY <1>1, TheCall
<1>3. access' = After(r, a)
    BY <1>2 DEF Confirmed
<1>4. Kept
    BY DEF Confirmed, Kept, device
<1>5. access.phase \in {"multiple", "each", "count", "element", "write"}
    BY <1>1 DEF AccessOK, CallOK
<1>6. CASE access.phase = "multiple"
    BY <1>2, <1>3, <1>4, <1>6, MultipleStep DEF After
<1>7. CASE access.phase = "each"
    BY <1>2, <1>3, <1>4, <1>7, EachStep DEF After
<1>8. CASE access.phase = "count"
    BY <1>2, <1>3, <1>4, <1>8, CountStep DEF After
<1>9. CASE access.phase = "element"
    BY <1>2, <1>3, <1>4, <1>9, ElementStep DEF After
<1>10. CASE access.phase = "write"
    BY <1>2, <1>3, <1>4, <1>10, WriteStep DEF After
<1> QED BY <1>5, <1>6, <1>7, <1>8, <1>9, <1>10

\* AccessOK is inductive: it holds whatever the device, its other users and
\* the network do (client/read.go, client/write.go).
THEOREM AccessInvariance == ClientSpec => []AccessOK
<1>1. ClientInit => AccessOK
  <2> SUFFICES ASSUME AccessInit PROVE AccessOK
    BY DEF ClientInit
  <2>1. access.phase = "idle" /\ access.r = {} /\ access.out = <<>> /\ ask = {} /\ copies = {}
    BY DEF AccessInit
  <2>2. IsCall(access)
    BY DEF AccessInit, IsCall
  <2>3. value = [x \in DOMAIN Store |-> value[x]]
    BY StoreAssumption DEF AccessInit
  <2>4. CallOK
    BY <2>1, <2>2, EmptyFacts DEF CallOK
  <2>5. DeviceOK /\ AskOK
    BY <2>1, <2>3 DEF DeviceOK, AskOK
  <2>6. AccessReflectsDevice /\ ObjectListRight
    BY <2>1 DEF AccessReflectsDevice, ObjectListRight
  <2> QED BY <2>4, <2>5, <2>6 DEF AccessOK
<1>2. AccessOK /\ [ClientNext]_clientVars => AccessOK'
  <2> SUFFICES ASSUME AccessOK, [ClientNext]_clientVars PROVE AccessOK'
    OBVIOUS
  <2>1. CASE BeginAccess
    <3>1. PICK r \in Requests :
            \/ Begin(r, TRUE)
            \/ Begin(r, result = "devices" /\ Cardinality(found) = 1)
      BY <2>1 DEF BeginAccess
    <3> QED BY <3>1, BeginStep
  <2>2. CASE UNCHANGED accessVars
    <3>1. /\ value' = value /\ list' = list /\ kind' = kind /\ access' = access /\ ask' = ask
          /\ answers' = answers /\ copies' = copies /\ seen' = seen /\ listed' = listed
          /\ applied' = applied
      BY <2>2 DEF accessVars
    <3>2. DeviceOK' /\ AccessReflectsDevice' /\ ObjectListRight'
      BY <3>1 DEF AccessOK, DeviceOK, AccessReflectsDevice, ObjectListRight
    <3>3. ASSUME NEW r, PhaseOK(r) PROVE PhaseOK(r)'
      BY <3>1, <3>3 DEF PhaseOK, MultipleOK, EachOK, CountOK, ElementOK, WriteOK, DoneOK, Good
    <3>4. CallOK'
      BY <3>1, <3>3 DEF AccessOK, CallOK
    <3>5. ASSUME NEW a, GoodAnswer(a) PROVE GoodAnswer(a)'
      BY <3>1, <3>5, AnswersStay
    <3>6. ASSUME NEW r PROVE Question(r)' = Question(r)
      BY <3>1 DEF Question
    <3>7. AskOK'
      BY <3>1, <3>5, <3>6 DEF AccessOK, AskOK
    <3> QED BY <3>2, <3>4, <3>7 DEF AccessOK
  <2>3. CASE Perform
    BY <2>3, PerformStep
  <2>4. CASE Change
    BY <2>4, ChangeStep
  <2>5. CASE Issue
    BY <2>5, IssueStep
  <2>6. CASE Answered
    <3>1. PICK a \in answers : Confirmed(a)
      BY <2>6 DEF Answered
    <3>2. ask # {} /\ GoodAnswer(a)
      BY <2>6, <3>1 DEF Answered, AccessOK, AskOK
    <3> QED BY <3>1, <3>2, ConfirmedStep
  <2>7. CASE Unanswered
    <3>1. GoodAnswer(Refuse("timeout"))
      <4> DEFINE a == Refuse("timeout")
      <4>1. a.err = "timeout"
        BY AnswerFields
      <4> HIDE DEF a
      <4>2. GoodAnswer(a)
        BY <4>1 DEF GoodAnswer, Good
      <4> QED BY <4>2 DEF a
    <3> QED BY <2>7, <3>1, ConfirmedStep DEF Unanswered
  <2> QED BY <2>1, <2>2, <2>3, <2>4, <2>5, <2>6, <2>7 DEF ClientNext, AccessNext, clientVars
<1> QED BY <1>1, <1>2, PTL DEF ClientSpec

\* What a call returns is what the device had, for that very property, whatever
\* the device answers, others change and the network repeats; results mirror the
\* request, and a write that returns nil has taken effect (client/read.go,
\* client/write.go).
THEOREM CallsReflectDevice == ClientSpec => []AccessReflectsDevice
<1>1. AccessOK => AccessReflectsDevice
    BY DEF AccessOK
<1> QED BY <1>1, AccessInvariance, PTL

\* ReadObjectList reports objects of the device only, and of a list that stays
\* the same exactly those up to the limit that were not passed over, in their
\* order (ReadObjectList of client/read.go).
THEOREM ObjectListsRight == ClientSpec => []ObjectListRight
<1>1. AccessOK => ObjectListRight
    BY DEF AccessOK
<1> QED BY <1>1, AccessInvariance, PTL
=============================================================================
