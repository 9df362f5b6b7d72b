----------------------------- MODULE ObjectAccess -----------------------------
(***************************************************************************)
(* Reading and writing the objects of a device with the high-level client  *)
(* (client/read.go, client/write.go): calls that are made of several       *)
(* confirmed requests, to a device whose properties and object list others *)
(* change between them.                                                    *)
(*                                                                         *)
(* A confirmed request may reach the device several times, since it is     *)
(* sent again when its answer is late, and a copy may arrive after the     *)
(* request was answered; it ends with an answer to it or without one       *)
(* (ClientASE).  A property is read or written by a reference, [object,    *)
(* property, index], where index is {} or the index of an array element.   *)
(***************************************************************************)
EXTENDS Octets, FiniteSetsExt, SequencesExt

CONSTANTS
    Requests,     \* [op, specs, writes, limit, device, onError, instance]: the calls;
                  \* instance is {} for a target that is an address
    Store,        \* the properties of the device at first: {} or {value}, by reference
    Lists,        \* the object lists the device may have, sequences of objects
    Values,       \* the values of a property
    Texts,        \* the values that are character strings
    Kinds,        \* how devices treat ReadPropertyMultiple: "full", "none", "strict", "short"
    Instance,     \* the instance of the device
    MaxChanges,   \* bound: changes by others
    MaxAttempts   \* bound: copies of a request that the device performs

ASSUME ListsAssumption == Lists # {} /\ \A s \in Lists : s \in Seq(ToSet(s))
ASSUME StoreAssumption ==
    /\ Store = [x \in DOMAIN Store |-> Store[x]]
    /\ \A x \in DOMAIN Store :
          /\ Cardinality(Store[x]) <= 1
          /\ x = [object |-> x.object, property |-> x.property, index |-> x.index]
          /\ x.property # "object-list"
ASSUME KindsAssumption == Kinds \subseteq {"full", "none", "strict", "short"}

VARIABLES
    value,     \* the device: its properties,
    list,      \* its object list,
    kind,      \* one of Kinds, or "unmet" before the call,
    changes,   \* and how often others changed it
    access,    \* the call: [r, phase, todo, out, skipped, err]
    ask,       \* {} or the confirmed request that is outstanding
    answers,   \* the answers to it
    copies,    \* the write requests of the call that may be on their way
    attempts,  \* how often the device performed the outstanding request, or a copy
    seen,      \* ghost: what the properties were since the call began, or since
               \* its write took effect
    listed,    \* ghost: the object lists since the call began
    applied    \* ghost: whether the writes of the call took effect

device == <<value, list, kind, changes>>
accessVars == <<value, list, kind, changes, access, ask, answers, copies, attempts,
                seen, listed, applied>>

Reference(o, p, i) == [object |-> o, property |-> p, index |-> i]
Held(v) == {[ref |-> x, val |-> v[x]] : x \in DOMAIN v}

(***************************************************************************)
(* The device.                                                             *)
(***************************************************************************)
Answer(err, val, ack) == [err |-> err, val |-> val, ack |-> ack]
Refuse(err) == Answer(err, {}, <<>>)

\* The wildcard instance of a Device object.
ThisDevice == 4194303
Device(n) == <<"device", n>>

ReadAnswer(x) ==
    IF x.property = "object-list" THEN
        LET i == The(x.index)
        IN  IF x.object \notin {Device(Instance), Device(ThisDevice)} THEN Refuse("unknown-object")
            ELSE IF i > Len(list) THEN Refuse("invalid-array-index")
            ELSE Answer("none", {IF i = 0 THEN Len(list) ELSE list[i]}, <<>>)
    ELSE IF value[x] = {} THEN Refuse("unknown-property")
    ELSE Answer("none", value[x], <<>>)

Entry(x) == [ref |-> x, err |-> ReadAnswer(x).err, val |-> ReadAnswer(x).val]

\* A device that has ReadPropertyMultiple answers in any order and may leave
\* something out; a strict one refuses a request with a property it does not
\* have, and a short one an answer that does not fit.
MultipleAnswers(refs) ==
    LET entries == [k \in DOMAIN refs |-> Entry(refs[k])]
        acks == {entries, Reverse(entries), Tail(entries)}
        missing == {k \in DOMAIN refs : entries[k].err # "none"}
        full == {Answer("none", {}, ack) : ack \in acks}
    IN  CASE kind = "full" -> full
          [] kind = "none" -> {Refuse("unrecognized-service")}
          [] kind = "strict" -> IF missing = {} THEN full ELSE {Refuse(entries[Min(missing)].err)}
          [] kind = "short" -> IF Len(refs) <= 1 THEN full
                               ELSE {Refuse("segmentation-not-supported")}

\* The first n of the writes in their order: the last one to a property counts.
Written(writes, n) ==
    [x \in DOMAIN value |->
        LET last == {k \in 1 .. n : writes[k].ref = x}
        IN  IF last = {} THEN value[x] ELSE {writes[Max(last)].value}]

\* A request for a write is done in full or refused on the way; "none" is a
\* SimpleACK.
PerformWrite(q) ==
    \E n \in 0 .. Len(q.writes) :
        LET ok == n = Len(q.writes)
        IN  /\ value' = Written(q.writes, n)
            /\ answers' = IF ask # {q} THEN answers
                          ELSE answers \cup {Refuse(IF ok THEN "none" ELSE "denied")}
            /\ applied' = (applied \/ ok)
            /\ seen' = (IF ok /\ ~applied THEN {} ELSE seen) \cup Held(value')

PerformRead(q) ==
    /\ \E a \in (IF q.service = "ReadProperty" THEN {ReadAnswer(q.refs[1])}
                 ELSE MultipleAnswers(q.refs)) \cup {Refuse("device-busy")} :
        answers' = answers \cup {a}
    /\ UNCHANGED <<value, applied, seen>>

\* A copy of a request reaches the device.
Perform ==
    /\ attempts < MaxAttempts
    /\ attempts' = attempts + 1
    /\ \E q \in ask \cup copies :
        IF q.service = "Write" THEN PerformWrite(q) ELSE PerformRead(q)
    /\ UNCHANGED <<list, kind, changes, access, ask, copies, listed>>

\* Somebody else writes a property, or the list of objects changes.
Change ==
    /\ changes < MaxChanges /\ access.phase \notin {"idle", "done"}
    /\ changes' = changes + 1
    /\ \/ /\ \E x \in DOMAIN value, v \in {{}} \cup {{w} : w \in Values} :
                v # value[x] /\ value' = [value EXCEPT ![x] = v]
          /\ seen' = seen \cup Held(value')
          /\ UNCHANGED <<list, listed>>
       \/ /\ \E s \in Lists : s # list /\ list' = s
          /\ listed' = listed \cup {list'}
          /\ UNCHANGED <<value, seen>>
    /\ UNCHANGED <<kind, access, ask, answers, copies, attempts, applied>>

(***************************************************************************)
(* The client: the start of a call.                                        *)
(***************************************************************************)
\* The properties of a call, in the order of the request.
WantedRefs(specs) ==
    FlattenSeq([k \in DOMAIN specs |->
        [j \in DOMAIN specs[k].properties |->
            Reference(specs[k].object, specs[k].properties[j], specs[k].index)]])

\* The requests are for properties the device has or may have, a ReadSpec has no
\* array index, and nothing is written by the calls that read.  A limit or a
\* device number is no larger than MaxInt, so that uint32 leaves it as it is.
MaxInt == 2147483647
ASSUME RequestsAssumption ==
    \A r \in Requests :
        LET refs == WantedRefs(r.specs)
        IN  /\ refs \in Seq(DOMAIN Store)
            /\ refs = <<>> <=> \A k \in DOMAIN r.specs : r.specs[k].properties = <<>>
            /\ r.op \in {"ReadMultiple", "ReadPropertiesMultiple"} =>
                  \A k \in DOMAIN refs : refs[k].index = {}
            /\ r.op \in {"ReadMultiple", "ReadPropertiesMultiple", "ReadProperty", "ReadProperties",
                        "ReadObjectNames", "ReadObjectList"} => r.writes = <<>>
            /\ r.specs \in Seq(ToSet(r.specs))
            /\ r.writes \in Seq(ToSet(r.writes)) /\ \A w \in ToSet(r.writes) : w.ref \in DOMAIN Store
            /\ r.limit \in Int /\ r.limit <= MaxInt
            /\ r.device \in Int /\ r.device <= MaxInt

\* The Device object of ReadObjectList.
deviceInstance(r) ==
    IF r.instance # {} THEN The(r.instance)
    ELSE IF r.device >= 0 THEN r.device ELSE ThisDevice

ListElement(r, i) == Reference(Device(deviceInstance(r)), "object-list", {i})

validPriorities(writes) == \A k \in DOMAIN writes : writes[k].priority \subseteq 1 .. 16

Call(r, phase, todo, err) ==
    [r |-> {r}, phase |-> phase, todo |-> todo, out |-> <<>>, skipped |-> {}, err |-> err]

Ended(r, err) == Call(r, "done", <<>>, err)

Each(r) ==
    LET refs == WantedRefs(r.specs)
    IN  IF refs = <<>> THEN Ended(r, "none") ELSE Call(r, "each", refs, "none")

\* ReadPropertiesMultiple and ReadMultiple; NewReadPropertyMultipleRequest
\* refuses an object without properties.
Multiple(r) ==
    LET nothing == IF r.op = "ReadMultiple" THEN r.specs = <<>> ELSE WantedRefs(r.specs) = <<>>
    IN  IF nothing THEN Ended(r, "none")
        ELSE IF \E k \in DOMAIN r.specs : r.specs[k].properties = <<>> THEN Ended(r, "invalid")
        ELSE Call(r, "multiple", WantedRefs(r.specs), "none")

Write(r) ==
    IF r.writes = <<>> \/ ~validPriorities(r.writes) THEN Ended(r, "invalid")
    ELSE Call(r, "write", <<>>, "none")

\* ReadObjectList; NewObjectIdentifier refuses an instance that has no room in
\* an identifier.
ObjectList(r) ==
    IF deviceInstance(r) > ThisDevice THEN Ended(r, "invalid")
    ELSE Call(r, "count", <<ListElement(r, 0)>>, "none")

\* resolved: the target is an address, or Resolve found it.  The device is as
\* the call meets it.
Begin(r, resolved) ==
    /\ access.phase = "idle"
    /\ access' =
        IF ~resolved THEN Ended(r, "unresolved")
        ELSE CASE r.op \in {"ReadMultiple", "ReadPropertiesMultiple"} -> Multiple(r)
               [] r.op \in {"ReadProperty", "ReadProperties", "ReadObjectNames"} -> Each(r)
               [] r.op = "ReadObjectList" -> ObjectList(r)
               [] OTHER -> Write(r)
    /\ list' \in Lists /\ kind' \in Kinds
    /\ seen' = Held(value) /\ listed' = {list'}
    /\ UNCHANGED <<value, changes, ask, answers, copies, attempts, applied>>

\* The next confirmed request of the call.
Question(r) ==
    [service |-> CASE access.phase = "multiple" -> "ReadPropertyMultiple"
                   [] access.phase = "write" -> "Write"
                   [] OTHER -> "ReadProperty",
     refs |-> IF access.phase \in {"multiple", "write"} THEN access.todo ELSE <<Head(access.todo)>>,
     writes |-> IF access.phase = "write" THEN r.writes ELSE <<>>]

Issue ==
    /\ access.phase \notin {"idle", "done"} /\ ask = {}
    /\ ask' = {Question(r) : r \in access.r}
    /\ copies' = copies \cup {q \in ask' : q.service = "Write"}
    /\ answers' = {} /\ attempts' = 0
    /\ UNCHANGED <<device, access, seen, listed, applied>>

(***************************************************************************)
(* The client: what follows an answer.                                     *)
(***************************************************************************)
\* The failures of a ReadPropertyMultiple after which each property is read by
\* itself.
rpmUnusable(err) ==
    err \in {"unrecognized-service", "service-request-denied", "unknown-property", "unknown-object",
             "unsupported-object-type", "invalid-array-index", "buffer-overflow", "apdu-too-long",
             "segmentation-not-supported"}

\* Mutant of mapRPMResults: results are taken by their position.
mapByPosition(refs, ack) ==
    [k \in DOMAIN refs |->
        IF k \in DOMAIN ack THEN [ack[k] EXCEPT !.ref = refs[k]]
        ELSE [ref |-> refs[k], err |-> "no-result", val |-> {}]]

\* One result for each property wanted, by object and property; the last one
\* counts when an answer has several.
mapRPMResults(refs, ack) ==
    [k \in DOMAIN refs |->
        LET found == {j \in DOMAIN ack : ack[j].ref.object = refs[k].object
                                         /\ ack[j].ref.property = refs[k].property}
        IN  IF found = {} THEN [ref |-> refs[k], err |-> "no-result", val |-> {}]
            ELSE [ack[Max(found)] EXCEPT !.ref = refs[k]]]

\* The call goes on with the rest of todo, or returns after the last.
GoOn(a) == IF a.todo = <<>> THEN [a EXCEPT !.phase = "done"] ELSE a

\* ReadObjectNames leaves an object out whose name cannot be read or is no text.
NoName(r, a) == r.op = "ReadObjectNames" /\ (a.err # "none" \/ a.val \cap Texts = {})

\* readProperty in readPropertiesIndividually, ReadObjectNames, ReadProperty and,
\* after the write, WriteAndReadBack: the last two return its error.
AfterRead(r, a) ==
    LET result == [ref |-> Head(access.todo), err |-> a.err, val |-> a.val]
        alone == r.op \in {"ReadProperty", "WriteAndReadBack"}
    IN  GoOn([access EXCEPT !.todo = Tail(@),
                            !.out = IF NoName(r, a) THEN @ ELSE Append(@, result),
                            !.err = IF alone THEN a.err ELSE @])

\* Mutant of Elements: the last element is left out.
ElementsButLast(r, n) == [i \in 1 .. n - 1 |-> ListElement(r, i)]

Elements(r, n) == [i \in 1 .. n |-> ListElement(r, i)]

\* readArrayCount of ReadObjectList, and the limit.
AfterCount(r, a) ==
    LET n == The(a.val)
    IN  IF a.err # "none" THEN Ended(r, a.err)
        ELSE GoOn([access EXCEPT !.phase = "element",
                !.todo = Elements(r, IF r.limit > 0 /\ r.limit < n THEN r.limit ELSE n)])

\* readObjectListElement: an error ends the call, with what it has so far,
\* unless OnError passes over it.
AfterElement(r, a) ==
    IF a.err = "none" THEN GoOn([access EXCEPT !.todo = Tail(@), !.out = Append(@, The(a.val))])
    ELSE IF r.onError = "continue"
    THEN GoOn([access EXCEPT !.todo = Tail(@), !.skipped = @ \cup Head(access.todo).index])
    ELSE [access EXCEPT !.phase = "done", !.err = IF r.onError = "stop" THEN "stopped" ELSE a.err]

\* The ACK is mapped to the request; a device that cannot answer the request as
\* a whole is read property by property.
AfterMultiple(r, a) ==
    IF a.err = "none"
    THEN [access EXCEPT !.phase = "done", !.out = mapRPMResults(access.todo, a.ack)]
    ELSE IF rpmUnusable(a.err) THEN [access EXCEPT !.phase = "each"]
    ELSE Ended(r, a.err)

\* WriteAndReadBack reads the same element it wrote.
AfterWrite(r, a) ==
    IF a.err # "none" \/ r.op # "WriteAndReadBack" THEN Ended(r, a.err)
    ELSE [access EXCEPT !.phase = "each", !.todo = <<r.writes[1].ref>>]

After(r, a) ==
    CASE access.phase = "multiple" -> AfterMultiple(r, a)
      [] access.phase = "each" -> AfterRead(r, a)
      [] access.phase = "count" -> AfterCount(r, a)
      [] access.phase = "element" -> AfterElement(r, a)
      [] access.phase = "write" -> AfterWrite(r, a)

Confirmed(a) ==
    /\ \E r \in access.r : access' = After(r, a)
    /\ ask' = {} /\ answers' = {}
    /\ UNCHANGED <<device, copies, attempts, seen, listed, applied>>

\* The outstanding request is answered, ...
Answered == ask # {} /\ \E a \in answers : Confirmed(a)

\* ... or it has no answer in time, the context has ended, or it cannot be sent.
Unanswered == ask # {} /\ Confirmed(Refuse("timeout"))

AccessInit ==
    /\ value = Store /\ list = <<>> /\ kind = "unmet" /\ changes = 0
    /\ access = [r |-> {}, phase |-> "idle", todo |-> <<>>, out |-> <<>>,
                 skipped |-> {}, err |-> "none"]
    /\ ask = {} /\ answers = {} /\ copies = {} /\ attempts = 0
    /\ seen = {} /\ listed = {} /\ applied = FALSE

AccessNext == Perform \/ Change \/ Issue \/ Answered \/ Unanswered

(***************************************************************************)
(* Properties.                                                             *)
(***************************************************************************)
Batches == {"ReadMultiple", "ReadPropertiesMultiple", "ReadProperties"}

\* What a call returns is what the device had: a value is one that very
\* property had since the call began (read back: since the write took effect),
\* and a property reported missing was missing at some moment.  Results mirror
\* the request, whatever the order of the answer and the path taken; a property
\* the device lacks never fails a ReadMultiple; and a write that returns nil
\* has taken effect (read.go, write.go).
AccessReflectsDevice ==
    \A r \in access.r : access.phase = "done" /\ r.op # "ReadObjectList" =>
        /\ \A k \in DOMAIN access.out :
              LET o == access.out[k] IN
              /\ o.err = "none" => [ref |-> o.ref, val |-> o.val] \in seen
              /\ o.err = "unknown-property" => [ref |-> o.ref, val |-> {}] \in seen
        /\ r.op \in {"ReadMultiple", "ReadPropertiesMultiple"} =>
              access.err \in {"none", "invalid", "unresolved", "timeout", "device-busy"}
        /\ access.err = "none" /\ r.op \in Batches =>
              [k \in DOMAIN access.out |-> access.out[k].ref] = WantedRefs(r.specs)
        /\ r.writes # <<>> /\ access.err = "none" => applied

\* A sequence of the elements of s at the given places, in their order.
Listing(out, s, places) ==
    \E p \in [DOMAIN out -> places] :
        /\ \A k \in DOMAIN out : out[k] = s[p[k]]
        /\ \A j, k \in DOMAIN out : j < k => p[j] < p[k]
        /\ \A i \in places : \E k \in DOMAIN out : p[k] = i

\* How many elements of a list are wanted.
Bound(r, s) == IF r.limit > 0 THEN Min({r.limit, Len(s)}) ELSE Len(s)

\* ReadObjectList reads the list one element at a time.  It reports objects of
\* the device only; if the list stays the same meanwhile, exactly its objects
\* in their order up to the limit, without those that OnError passed over; and
\* if it fails, the ones before the failure.
ObjectListRight ==
    \A r \in access.r : access.phase = "done" /\ r.op = "ReadObjectList" =>
        /\ \A k \in DOMAIN access.out : \E s \in listed : access.out[k] \in ToSet(s)
        /\ \A s \in listed : listed = {s} =>
              LET n == Bound(r, s)
                  wanted == (1 .. n) \ access.skipped
              IN  IF access.err = "none" THEN Listing(access.out, s, wanted)
                  ELSE \E m \in 0 .. n : Listing(access.out, s, {i \in wanted : i <= m})
===============================================================================
