--------------------------------- MODULE BBMD ---------------------------------
(***************************************************************************)
(* The tables of a BBMD (bbmd.go): the broadcast distribution table and    *)
(* the foreign device table.                                               *)
(*                                                                         *)
(* Time is counted in half seconds, so that the conversion to whole        *)
(* seconds rounds.  An entry of the foreign device table keeps the half    *)
(* seconds left until its expiresAt instead of that instant; the passing   *)
(* of time takes them away.  Every handler holds the mutex for its whole   *)
(* access to a table and is one step, except that the clock may move while *)
(* HandleReadForeignDeviceTable purges and then lists the table.           *)
(*                                                                         *)
(* The ghost variable lease remembers, apart from the table, when each     *)
(* device registered last.                                                 *)
(***************************************************************************)
EXTENDS BVLCFunctions, FiniteSets

CONSTANTS
    Tables,      \* broadcast distribution tables (sequences of entries)
    Jumps,       \* half seconds the clock can move by at a time
    MaxTicks     \* bound: how often the clock moves

ASSUME TablesAssumption == Tables \subseteq Seq(BdtEntries)
ASSUME JumpsAssumption == Jumps \subseteq Nat \ {0}
ASSUME MaxTicksAssumption == MaxTicks \in Nat

VARIABLES
    bdt,      \* the broadcast distribution table
    fdt,      \* the foreign device table: entries [address, ttl, left]
    reading,  \* a HandleReadForeignDeviceTable holds the mutex
    ticks,    \* how often the clock has moved
    lease,    \* ghost: entries [address, ttl, age], age since the registration
    live,     \* ghost: the devices whose lease runs when a read purges the table
    written,  \* ghost: the table written last
    ack       \* {} or the answer to a read, given by the last step

tables == <<bdt, fdt, reading, ticks, lease, live, written, ack>>

\* NewBBMD refuses a table with an invalid entry.
NewBBMD(table) == When(\A i \in DOMAIN table : BdtEntryValid(table[i]), table)

\* Mutant of gracePeriod: the sum does not saturate.
gracePeriodUncapped(ttl) == ttl + GracePeriod

\* Seconds a registration lasts.
gracePeriod(ttl) == Smaller(ttl + GracePeriod, MaxUint16)

\* Mutant of remainingTTL: rounded up.
remainingTTLUp(e) ==
    IF e.left <= 0 THEN 0
    ELSE IF e.left > 2 * MaxUint16 THEN MaxUint16 ELSE (e.left + 1) \div 2

remainingTTL(e) ==
    IF e.left <= 0 THEN 0
    ELSE IF e.left > 2 * MaxUint16 THEN MaxUint16 ELSE e.left \div 2

expired(e) == e.left <= 0

toWireFdtEntry(e) ==
    [address |-> e.address, registeredTtl |-> e.ttl, remainingTtl |-> remainingTTL(e)]

purgeExpired(T) == {e \in T : ~expired(e)}

Without(T, a) == {e \in T : e.address # a}

(***************************************************************************)
(* The handlers, given a request they were called with.                    *)
(***************************************************************************)
\* The result code HandleRegisterForeignDevice answers with.
RegisterCode(src) ==
    IF IsValidAddr(src) /\ Is4(src) THEN CodeSuccess ELSE CodeRegisterNak

HandleRegisterForeignDevice(src, req) ==
    /\ ~reading
    /\ IF RegisterCode(src) = CodeSuccess
       THEN /\ fdt' = Without(fdt, src) \cup
                        {[address |-> src, ttl |-> req.ttl, left |-> 2 * gracePeriod(req.ttl)]}
            /\ lease' = Without(lease, src) \cup {[address |-> src, ttl |-> req.ttl, age |-> 0]}
       ELSE UNCHANGED <<fdt, lease>>
    /\ ack' = {}
    /\ UNCHANGED <<bdt, reading, ticks, live, written>>

\* Entries that expired and were not purged yet are found and deleted too.
DeleteCode(req) ==
    IF \E e \in fdt : e.address = req.entry.address THEN CodeSuccess ELSE CodeDeleteNak

HandleDeleteForeignDeviceTableEntry(req) ==
    /\ ~reading
    /\ fdt' = Without(fdt, req.entry.address)
    /\ lease' = Without(lease, req.entry.address)
    /\ ack' = {}
    /\ UNCHANGED <<bdt, reading, ticks, live, written>>

\* Half seconds until a lease ends: the time to live and a grace period of 30
\* seconds after the registration, at most 65535 seconds in all.
Until(l) == 2 * (IF l.ttl + 30 > 65535 THEN 65535 ELSE l.ttl + 30) - l.age

\* HandleReadForeignDeviceTable: the mutex is taken and the table purged ...
PurgeFDT ==
    /\ ~reading
    /\ fdt' = purgeExpired(fdt)
    /\ reading' = TRUE /\ ack' = {}
    /\ live' = {l.address : l \in {k \in lease : Until(k) > 0}}
    /\ UNCHANGED <<bdt, ticks, lease, written>>

\* Go iterates a map in any order.
Orders(T) == {s \in [1 .. Cardinality(T) -> T] : \A i, j \in DOMAIN s : s[i] = s[j] => i = j}

\* ... and listed, and the answer built of the list.
BuildFDT ==
    /\ reading
    /\ \E s \in Orders(fdt) :
        ack' = {[kind |-> "fdt", live |-> live,
                 octets |-> UNION {ReadFDTAckEncode(m) :
                        m \in NewReadFDTAck([i \in DOMAIN s |-> toWireFdtEntry(s[i])])}]}
    /\ reading' = FALSE /\ live' = {}
    /\ UNCHANGED <<bdt, fdt, ticks, lease, written>>

WriteCode(req) == IF WriteBDTValid(req) THEN CodeSuccess ELSE CodeWriteBDTNak

HandleWriteBroadcastDistributionTable(req) ==
    /\ ~reading
    /\ bdt' = IF WriteBDTValid(req) THEN req.entries ELSE bdt
    /\ written' = IF WriteCode(req) = CodeSuccess THEN req.entries ELSE written
    /\ ack' = {}
    /\ UNCHANGED <<fdt, reading, ticks, lease, live>>

HandleReadBroadcastDistributionTable ==
    /\ ~reading
    /\ ack' = {[kind |-> "bdt",
                octets |-> UNION {ReadBDTAckEncode(m) : m \in NewReadBDTAck(bdt)}]}
    /\ UNCHANGED <<bdt, fdt, reading, ticks, lease, live, written>>

\* time.Now moves.
Tick ==
    /\ ticks < MaxTicks
    /\ \E j \in Jumps :
        /\ fdt' = {[e EXCEPT !.left = IF @ > j THEN @ - j ELSE 0] : e \in fdt}
        /\ lease' = {[e EXCEPT !.age = @ + j] : e \in lease}
    /\ ticks' = ticks + 1 /\ ack' = {}
    /\ UNCHANGED <<bdt, reading, live, written>>

TablesInit ==
    /\ \E t \in Tables : bdt \in NewBBMD(t)
    /\ fdt = {} /\ lease = {} /\ live = {} /\ reading = FALSE /\ ticks = 0
    /\ written = bdt /\ ack = {}

(***************************************************************************)
(* Properties.                                                             *)
(***************************************************************************)
\* A read of the foreign device table is always answered, with octets that
\* decode; the answer names once every device whose lease has not ended, none
\* whose lease had ended when the read began, and gives the time really left,
\* rounded down (HandleReadForeignDeviceTable, remainingTTL, against lease).
FDTAnswersExact ==
    \A a \in ack : a.kind = "fdt" =>
        \E d \in a.octets : \E m \in ReadFDTAckDecode(d) :
            LET Listed == {m.entries[i] : i \in DOMAIN m.entries}
            IN  /\ Cardinality({e.address : e \in Listed}) = Len(m.entries)
                /\ \A l \in lease : Until(l) > 0 => \E e \in Listed : e.address = l.address
                /\ \A e \in Listed : e.address \in a.live
                /\ \A e \in Listed : \E l \in lease :
                    /\ e.address = l.address /\ e.registeredTtl = l.ttl
                    /\ e.remainingTtl = IF Until(l) > 0 THEN Until(l) \div 2 ELSE 0

\* A read of the broadcast distribution table is always answered, with octets
\* that decode to the table written last (HandleWriteBroadcastDistributionTable
\* against HandleReadBroadcastDistributionTable).
BDTAnswersExact ==
    \A a \in ack : a.kind = "bdt" =>
        \E d \in a.octets : \E m \in ReadBDTAckDecode(d) : m.entries = written

\* Both tables are read as they are: what an administrator is told is exact.
TableReads == FDTAnswersExact /\ BDTAnswersExact

\* An entry the table still holds has a lease, and every lease that has not
\* ended has its entry: the table forgets nobody (fdt of bbmdImpl).
TableMatchesLeases ==
    /\ \A e \in fdt : \E l \in lease : l.address = e.address /\ l.ttl = e.ttl
    /\ \A l \in lease : Until(l) > 0 =>
        \E e \in fdt : e.address = l.address /\ e.ttl = l.ttl /\ e.left = Until(l)
    /\ \A e, f \in fdt : e.address = f.address => e = f
===============================================================================
