-------------------------- MODULE ForeignDeviceProof --------------------------
(***************************************************************************)
(* Proofs about ForeignDevice and the tables of BBMD: for any devices,     *)
(* addresses, times to live, clock and number of calls.                    *)
(***************************************************************************)
EXTENDS ForeignDevice, SequenceTheorems, FiniteSetTheorems, FunctionTheorems, TLAPS

-----------------------------------------------------------------------------
(* The inductive invariant *)

Places == UNION {Seen[d] : d \in Devices}
Entry == [address : Places, ttl : 1 .. MaxUint16, left : Nat]
Lease == [address : Places, ttl : 1 .. MaxUint16, age : Nat]

\* Half seconds left of a lease.
Left(l) == IF Until(l) > 0 THEN Until(l) ELSE 0

TablesOK ==
    /\ fdt \subseteq Entry /\ lease \subseteq Lease
    /\ \A e, f \in fdt : e.address = f.address => e = f
    /\ \A k, l \in lease : k.address = l.address => k = l
    /\ \A e \in fdt : \E l \in lease :
          l.address = e.address /\ l.ttl = e.ttl /\ e.left = Left(l)
    /\ \A l \in lease : Until(l) > 0 => \E e \in fdt : e.address = l.address

\* Call c of device d has returned.
Over(d, c) == c < dev[d].calls \/ dev[d].pc = "idle"

\* A datagram the device takes for a success.
Success(r) == \E m \in BVLCResultDecode(r.data) : m.resultCode = CodeSuccess

RequestOK(q) ==
    /\ q.src \in Devices
    /\ \E m \in NewRegister(Ttl[q.src]) : q.data \in RegisterEncode(m)
    /\ q.call \in 1 .. dev[q.src].calls
    /\ Over(q.src, q.call) => q.src \in failed

DatagramOK(r) ==
    /\ r.to \in Devices
    /\ r.call \in 0 .. dev[r.to].calls
    /\ r.call = 0 /\ r.from = Bbmd => BVLCResultDecode(r.data) = {}
    /\ r.call # 0 /\ Over(r.to, r.call) => r.to \in failed
    /\ r.call # 0 /\ ~Over(r.to, r.call) /\ Success(r) => r.to \in granted

CallsOK ==
    /\ dev \in [Devices -> [pc : {"idle", "read"}, calls : Nat,
                            result : {"none", "nil", "error", "rejected"}]]
    /\ \A q \in requests : RequestOK(q)
    /\ \A r \in inbox : DatagramOK(r)
    /\ \A q, p \in requests : q.src = p.src /\ q.call = p.call => q = p
    /\ \A q \in requests, r \in inbox : q.src = r.to => q.call # r.call
    /\ \A r, s \in inbox : r.to = s.to /\ r.call = s.call /\ r.call # 0 => r = s

-----------------------------------------------------------------------------
(* The codec *)

\* An octet string of two parts.
LEMMA Concatenation ==
    ASSUME NEW s \in Seq(Octet), NEW t \in Seq(Octet)
    PROVE  /\ s \o t \in Seq(Octet) /\ Len(s \o t) = Len(s) + Len(t)
           /\ \A i \in 1 .. Len(s) : (s \o t)[i] = s[i]
           /\ \A i \in 1 .. Len(t) : (s \o t)[Len(s) + i] = t[i]
<1> USE DEF Octet
<1> QED BY ConcatProperties

\* A uint16 and its two octets.
LEMMA PutOctets ==
    ASSUME NEW n \in 0 .. MaxUint16
    PROVE  PutUint16(n) \in Seq(Octet) /\ Len(PutUint16(n)) = 2 /\ 256 * PutUint16(n)[1] + PutUint16(n)[2] = n
BY DEF PutUint16, MaxUint16, Octet

\* The octets HeaderEncode makes.
LEMMA HeaderOctets ==
    ASSUME NEW h, HeaderValid(h), NEW n \in HeaderLen .. MaxUint16, h.length = n,
           NEW body \in Seq(Octet)
    PROVE  \E d \in Seq(Octet) :
              /\ HeaderEncode(h, body) = {d}
              /\ Len(d) = n
              /\ d[1] = h.type /\ d[2] = h.function /\ Uint16(d, 3) = n
              /\ \A i \in 1 .. n - HeaderLen : d[HeaderLen + i] = IF i <= Len(body) THEN body[i] ELSE 0
<1> DEFINE m == n - HeaderLen
           s == <<h.type, h.function>>
           u == PutUint16(n)
           rest == [i \in 1 .. m |-> IF i <= Len(body) THEN body[i] ELSE 0]
           v == s \o u
           d == v \o rest
<1>0. m \in Nat /\ n \in 0 .. MaxUint16 /\ n >= HeaderLen /\ n = 4 + m
    BY DEF HeaderLen, MaxUint16
<1>1. s \in Seq(Octet) /\ Len(s) = 2 /\ s[1] = h.type /\ s[2] = h.function
    BY DEF HeaderValid, TypeValid, FunctionValid, Octet, BACnetIP, BACnetIP6, FnResult, FnOriginalBroadcast
<1>2. u \in Seq(Octet) /\ Len(u) = 2 /\ 256 * u[1] + u[2] = n
    BY <1>0, PutOctets
<1>3. HeaderEncode(h, body) = {d}
    BY <1>0, Zenon DEF HeaderEncode, When
<1> HIDE DEF m, s, u, v
<1>4. rest \in Seq(Octet) /\ Len(rest) = m
  <2>1. \A i \in 1 .. m : (IF i <= Len(body) THEN body[i] ELSE 0) \in Octet
    <3>1. 0 \in Octet
      BY DEF Octet
    <3>2. \A i \in 1 .. Len(body) : body[i] \in Octet
      OBVIOUS
    <3> QED BY <1>0, <3>1, <3>2
  <2>2. rest \in [1 .. m -> Octet]
    BY <2>1
  <2> HIDE DEF rest
  <2> QED BY <1>0, <2>2
<1>5. \A i \in 1 .. m : rest[i] = IF i <= Len(body) THEN body[i] ELSE 0
    OBVIOUS
<1> HIDE DEF rest, d
<1>6. /\ v \in Seq(Octet) /\ Len(v) = Len(s) + Len(u)
      /\ \A i \in 1 .. Len(s) : v[i] = s[i]
      /\ \A i \in 1 .. Len(u) : v[Len(s) + i] = u[i]
    BY <1>1, <1>2, Concatenation DEF v
<1>7. Len(v) = 4 /\ v[1] = s[1] /\ v[2] = s[2] /\ v[3] = u[1] /\ v[4] = u[2]
  <2>1. v[2 + 1] = u[1] /\ v[2 + 2] = u[2]
    BY <1>1, <1>2, <1>6
  <2> QED BY <1>1, <1>2, <1>6, <2>1
<1>8. /\ d \in Seq(Octet) /\ Len(d) = Len(v) + Len(rest)
      /\ \A i \in 1 .. Len(v) : d[i] = v[i]
      /\ \A i \in 1 .. Len(rest) : d[Len(v) + i] = rest[i]
    BY <1>4, <1>6, Concatenation DEF d
<1>9. d[1] = h.type /\ d[2] = h.function /\ Uint16(d, 3) = n
    BY <1>1, <1>2, <1>7, <1>8 DEF Uint16
<1>10. \A i \in 1 .. m : d[4 + i] = rest[i]
    BY <1>4, <1>7, <1>8
<1> QED BY <1>0, <1>3, <1>4, <1>5, <1>7, <1>8, <1>9, <1>10 DEF m, HeaderLen

\* The header is read back.
LEMMA HeaderBack ==
    ASSUME NEW d \in Seq(Octet), Len(d) >= HeaderLen, NEW f,
           TypeValid(d[1]), FunctionValid(d[2])
    PROVE  HeaderOf(d, f) = IF d[2] = f THEN {[type |-> d[1], function |-> d[2], length |-> Uint16(d, 3)]} ELSE {}
<1>1. Len(Upto(d, HeaderLen)) = HeaderLen /\ \A i \in 1 .. 4 : Upto(d, HeaderLen)[i] = d[i]
    BY SubSeqProperties DEF Upto, HeaderLen
<1> QED BY <1>1 DEF HeaderOf, HeaderDecode, Uint16

\* A header and two octets.
LEMMA ShortMessage ==
    ASSUME NEW f \in 0 .. 11, NEW n \in 0 .. MaxUint16,
           NEW h, h = [type |-> 129, function |-> f, length |-> 6]
    PROVE  /\ HeaderValid(h)
           /\ \E d : /\ HeaderEncode(h, PutUint16(n)) = {d}
                     /\ Len(d) = 6 /\ HeaderOf(d, f) = {h} /\ Uint16(d, 5) = n
<1>1. HeaderValid(h) /\ TypeValid(129) /\ FunctionValid(f)
    BY DEF HeaderValid, TypeValid, FunctionValid, BACnetIP, FnResult, FnOriginalBroadcast
<1> DEFINE body == PutUint16(n)
<1>2. body \in Seq(Octet) /\ Len(body) = 2 /\ 256 * body[1] + body[2] = n
    BY PutOctets
<1>3. 6 \in HeaderLen .. MaxUint16 /\ h.length = 6 /\ h.type = 129 /\ h.function = f
    BY DEF HeaderLen, MaxUint16
<1> HIDE DEF body
<1>4. PICK d \in Seq(Octet) :
            /\ HeaderEncode(h, body) = {d} /\ Len(d) = 6
            /\ d[1] = h.type /\ d[2] = h.function /\ Uint16(d, 3) = 6
            /\ \A i \in 1 .. 6 - HeaderLen :
                  d[HeaderLen + i] = IF i <= Len(body) THEN body[i] ELSE 0
    BY <1>1, <1>2, <1>3, HeaderOctets
<1>5. d[5] = body[1] /\ d[6] = body[2]
  <2>1. d[4 + 1] = body[1] /\ d[4 + 2] = body[2]
    BY <1>2, <1>4 DEF HeaderLen
  <2> QED BY <2>1
<1>6. Uint16(d, 5) = n
    BY <1>2, <1>5 DEF Uint16
<1>7. Len(d) >= HeaderLen
    BY <1>4 DEF HeaderLen
<1>8. HeaderOf(d, f) = {[type |-> d[1], function |-> d[2], length |-> Uint16(d, 3)]}
  <2>1. TypeValid(d[1]) /\ FunctionValid(d[2]) /\ d[2] = f
    BY <1>1, <1>3, <1>4
  <2> QED BY <1>7, <2>1, HeaderBack
<1>9. HeaderOf(d, f) = {h}
    BY <1>3, <1>4, <1>8
<1> QED BY <1>1, <1>4, <1>6, <1>9 DEF body

\* What a device registers with is what the BBMD reads.
LEMMA RegisterBack ==
    ASSUME NEW ttl \in 1 .. MaxUint16
    PROVE  \E req, data : /\ NewRegister(ttl) = {req} /\ RegisterEncode(req) = {data}
                          /\ RegisterDecode(data) = {req} /\ req.ttl = ttl
<1> DEFINE h == [type |-> 129, function |-> 5, length |-> 6]
           req == [header |-> h, ttl |-> ttl]
<1>2. ttl \in 0 .. MaxUint16 /\ ttl # 0
    BY DEF MaxUint16
<1>1. NewRegister(ttl) = {req}
  <2>1. NewHeader(BACnetIP, FnRegisterForeignDevice, HeaderLen + 2) = h
    BY DEF NewHeader, BVLCLength, MaxUint16, HeaderLen, BACnetIP, FnRegisterForeignDevice
  <2> QED BY <1>2, <2>1, Zenon DEF NewRegister, When
<1>3. PICK d : /\ HeaderValid(h) /\ HeaderEncode(h, PutUint16(ttl)) = {d}
               /\ Len(d) = 6 /\ HeaderOf(d, 5) = {h} /\ Uint16(d, 5) = ttl
    BY <1>2, ShortMessage
<1>4. req.header = h /\ req.ttl = ttl /\ h.length = 6
    OBVIOUS
<1> HIDE DEF h
<1>5. RegisterEncode(req) = {d}
    BY <1>3, <1>4 DEF RegisterEncode, HeaderLen
<1>6. RegisterValid(req)
    BY <1>2, <1>3, <1>4 DEF RegisterValid
<1>7. RegisterDecode(d) = {req}
  <2>1. RegisterDecode(d) = {m \in {[header |-> g, ttl |-> Uint16(d, 5)] : g \in HeaderOf(d, 5)} :
                               RegisterValid(m)}
    <3>1. Len(d) = HeaderLen + 2
      BY <1>3 DEF HeaderLen
    <3> QED BY <3>1, Zenon DEF RegisterDecode, FnRegisterForeignDevice
  <2>2. {[header |-> g, ttl |-> Uint16(d, 5)] : g \in HeaderOf(d, 5)} = {req}
    BY <1>3
  <2> QED BY <1>6, <2>1, <2>2
<1> QED BY <1>1, <1>4, <1>5, <1>7

\* What the BBMD answers is what the device reads.
LEMMA ResultBack ==
    ASSUME NEW code, ResultCodeValid(code)
    PROVE  \E r, data : /\ NewBVLCResult(code) = {r} /\ BVLCResultEncode(r) = {data}
                        /\ BVLCResultDecode(data) = {r} /\ r.resultCode = code
<1> DEFINE h == [type |-> 129, function |-> 0, length |-> 6]
           r == [header |-> h, resultCode |-> code]
<1>1. NewBVLCResult(code) = {r}
    BY DEF NewBVLCResult, When, NewHeader, BVLCLength, MaxUint16, HeaderLen, BACnetIP, FnResult
<1>2. code \in 0 .. MaxUint16
    BY DEF ResultCodeValid, MaxUint16, CodeSuccess, CodeWriteBDTNak, CodeReadBDTNak,
       CodeRegisterNak, CodeReadFDTNak, CodeDeleteNak, CodeDistributeNak
<1>3. PICK d : /\ HeaderValid(h) /\ HeaderEncode(h, PutUint16(code)) = {d}
               /\ Len(d) = 6 /\ HeaderOf(d, 0) = {h} /\ Uint16(d, 5) = code
    BY <1>2, ShortMessage
<1>4. r.header = h /\ r.resultCode = code /\ h.length = 6 /\ h.type = 129
    OBVIOUS
<1> HIDE DEF h
<1>5. BVLCResultEncode(r) = {d}
    BY <1>3, <1>4 DEF BVLCResultEncode, HeaderLen
<1>6. BVLCResultDecode(d) = {r}
    BY <1>3, <1>4 DEF BVLCResultDecode, HeaderLen, FnResult, BACnetIP
<1> QED BY <1>1, <1>4, <1>5, <1>6

\* A list put together of pieces of ten octets comes apart into them.
LEMMA JoinedBack ==
    ASSUME NEW n \in Nat, NEW p \in [1 .. n -> Seq(Octet)],
           \A i \in 1 .. n : Len(p[i]) = EntryLen
    PROVE  /\ Joined(p) \in Seq(Octet) /\ Len(Joined(p)) = 10 * n
           /\ \A i \in 1 .. n : Piece(Joined(p), i) = p[i]
<1>1. Len(p) = n
    OBVIOUS
<1> DEFINE At(x) == p[(x - 1) \div 10 + 1][((x - 1) % 10) + 1]
           j == [x \in 1 .. 10 * n |-> At(x)]
<1>2. Joined(p) = j
    BY <1>1 DEF Joined, EntryLen
<1>3. ASSUME NEW x \in 1 .. 10 * n
      PROVE  At(x) \in Octet
  <2>1. (x - 1) \div 10 + 1 \in 1 .. n /\ ((x - 1) % 10) + 1 \in 1 .. 10
    BY <1>3
  <2>2. PICK i \in 1 .. n, k \in 1 .. 10 : i = (x - 1) \div 10 + 1 /\ k = ((x - 1) % 10) + 1
    BY <2>1
  <2>3. p[i] \in Seq(Octet) /\ Len(p[i]) = 10
    BY DEF EntryLen
  <2>4. p[i][k] \in Octet
    BY <2>3, ElementOfSeq
  <2> QED BY <2>2, <2>4
<1> HIDE DEF At
<1>4. j \in Seq(Octet) /\ Len(j) = 10 * n
  <2>1. j \in [1 .. 10 * n -> Octet] /\ 10 * n \in Nat
    BY <1>3
  <2> HIDE DEF j
  <2> QED BY <2>1
<1>5. ASSUME NEW i \in 1 .. n, NEW k \in 1 .. 10
      PROVE  /\ 10 * (i - 1) + k \in 1 .. 10 * n
             /\ j[10 * (i - 1) + k] = p[i][k]
  <2>1. 10 * (i - 1) + k \in 1 .. 10 * n
    OBVIOUS
  <2>2. (10 * (i - 1) + k - 1) \div 10 + 1 = i /\ ((10 * (i - 1) + k - 1) % 10) + 1 = k
    OBVIOUS
  <2> DEFINE x == 10 * (i - 1) + k
  <2>3. x \in 1 .. 10 * n /\ (x - 1) \div 10 + 1 = i /\ ((x - 1) % 10) + 1 = k
    BY <2>1, <2>2
  <2> HIDE DEF x
  <2>4. j[x] = At(x)
    BY <2>3
  <2>5. At(x) = p[i][k]
    BY <2>3, Zenon DEF At
  <2> QED BY <2>1, <2>4, <2>5 DEF x
<1>6. ASSUME NEW i \in 1 .. n
      PROVE  Piece(j, i) = p[i]
  <2> HIDE DEF j
  <2> DEFINE m == 10 * (i - 1)
  <2>1. m \in Nat /\ m + 10 <= 10 * n /\ 10 * i = m + 10
    OBVIOUS
  <2> HIDE DEF m
  <2>2. Piece(j, i) = SubSeq(j, m + 1, m + 10)
    BY <2>1 DEF Piece, EntryLen, m
  <2> DEFINE q == SubSeq(j, m + 1, m + 10)
  <2>3. q \in Seq(Octet) /\ Len(q) = 10 /\ \A k \in 1 .. 10 : q[k] = j[m + k]
    BY <1>4, <2>1, SubSeqProperties
  <2>4. \A k \in 1 .. 10 : j[m + k] = p[i][k]
    BY <1>5 DEF m
  <2>5. p[i] \in Seq(Octet) /\ Len(p[i]) = 10
    BY DEF EntryLen
  <2> HIDE DEF q
  <2>6. Len(q) = Len(p[i]) /\ \A k \in 1 .. Len(q) : q[k] = p[i][k]
    BY <2>3, <2>4, <2>5
  <2>7. q = p[i]
    BY <2>3, <2>5, <2>6, SeqEqual
  <2> QED BY <2>2, <2>7 DEF q
<1> QED BY <1>2, <1>4, <1>6

\* The header of a message with a body.
WholeHeader(f, body) == NewHeader(BACnetIP, f, HeaderLen + Len(body))

\* The octets and their header are not longer than a length can say.
Fits(body) == HeaderLen + Len(body) <= MaxUint16

\* A length that a header can say.
LEMMA SaidLength ==
    ASSUME NEW k \in Nat, HeaderLen + k <= MaxUint16
    PROVE  4 + k <= 65535 /\ 4 + k \in HeaderLen .. MaxUint16
<1>1. MaxUint16 \in Nat /\ HeaderLen = 4
    BY DEF HeaderLen, MaxUint16
<1>2. 4 + k <= 65535
    BY DEF HeaderLen, MaxUint16
<1> QED BY <1>1, <1>2

\* The length of a message that fits.
LEMMA MessageLength ==
    ASSUME NEW body \in Seq(Octet), Fits(body)
    PROVE  \E k \in Nat : /\ k = Len(body) /\ 4 + k <= 65535
                          /\ 4 + k \in HeaderLen .. MaxUint16
<1>1. PICK k \in Nat : k = Len(body)
    OBVIOUS
<1>2. HeaderLen + k <= MaxUint16
    BY <1>1, Zenon DEF Fits
<1> QED BY <1>1, <1>2, SaidLength

\* A message of a header and a body that fits: the body and the header are
\* read back.
LEMMA WholeMessage ==
    ASSUME NEW f \in 0 .. 11, NEW body \in Seq(Octet), Fits(body)
    PROVE  /\ HeaderValid(WholeHeader(f, body))
           /\ \E d : /\ WholeEncode(WholeHeader(f, body), body) = {d}
                     /\ Len(d) = 4 + Len(body) /\ From(d, HeaderLen) = body
                     /\ HeaderOf(d, f) = {WholeHeader(f, body)}
<1> DEFINE h == WholeHeader(f, body)
<1>0. PICK k \in Nat : k = Len(body) /\ 4 + k <= 65535 /\ 4 + k \in HeaderLen .. MaxUint16
    BY MessageLength
<1> DEFINE n == 4 + k
<1>1. k \in Nat /\ n \in Nat /\ n \in HeaderLen .. MaxUint16 /\ n <= 65535
    BY <1>0
<1>2. h = [type |-> 129, function |-> f, length |-> n]
  <2>1. BVLCLength(HeaderLen + k) = n
    <3>1. n % 65536 = n /\ HeaderLen + k = n
      BY <1>0, SMT DEF HeaderLen
    <3> QED BY <3>1, SMT DEF BVLCLength, MaxUint16
  <2> QED BY <1>0, <2>1 DEF WholeHeader, NewHeader, BACnetIP
<1>3. h.type = 129 /\ h.function = f /\ h.length = n
    BY <1>2
<1>4. HeaderValid(h) /\ TypeValid(129) /\ FunctionValid(f)
    BY <1>3 DEF HeaderValid, TypeValid, FunctionValid, BACnetIP, FnResult, FnOriginalBroadcast
<1> HIDE DEF n, h
<1>5. PICK d \in Seq(Octet) :
            /\ HeaderEncode(h, body) = {d} /\ Len(d) = n
            /\ d[1] = h.type /\ d[2] = h.function /\ Uint16(d, 3) = n
            /\ \A i \in 1 .. n - HeaderLen :
                  d[HeaderLen + i] = IF i <= Len(body) THEN body[i] ELSE 0
    BY <1>1, <1>3, <1>4, HeaderOctets
<1>6. n = 4 + k /\ n - HeaderLen = k
    BY <1>1 DEF n, HeaderLen
<1>7. WholeEncode(h, body) = {d}
    BY <1>0, <1>3, <1>5, <1>6 DEF WholeEncode
<1>8. HeaderOf(d, f) = {h}
  <2>1. TypeValid(d[1]) /\ FunctionValid(d[2]) /\ d[2] = f
    BY <1>3, <1>4, <1>5
  <2>2. Len(d) >= HeaderLen
    BY <1>1, <1>5, <1>6 DEF HeaderLen
  <2>3. HeaderOf(d, f) = {[type |-> d[1], function |-> d[2], length |-> Uint16(d, 3)]}
    BY <2>1, <2>2, HeaderBack
  <2> QED BY <1>2, <1>3, <1>5, <2>3
<1>9. From(d, HeaderLen) = body
  <2> DEFINE q == SubSeq(d, 5, n)
  <2>1. From(d, HeaderLen) = q
    BY <1>5 DEF From, HeaderLen
  <2>2. q \in Seq(Octet) /\ Len(q) = k /\ \A i \in 1 .. k : q[i] = d[4 + i]
    BY <1>1, <1>5, <1>6, SubSeqProperties
  <2>3. \A i \in 1 .. k : d[4 + i] = body[i]
    BY <1>0, <1>5, <1>6 DEF HeaderLen
  <2> HIDE DEF q
  <2>4. q = body
    BY <1>0, <2>2, <2>3, SeqEqual
  <2> QED BY <2>1, <2>4
<1> QED BY <1>0, <1>4, <1>5, <1>6, <1>7, <1>8, <1>9 DEF h

\* The address and port of an entry are read back.
LEMMA AddressBack ==
    ASSUME NEW a \in AddrPort, Is4(a), NEW s \in Seq(Octet), Len(s) >= 6,
           \A i \in 1 .. 6 : s[i] = encodeAddressPortIpV4(a)[i]
    PROVE  The(decodeAddressPortIpV4(Upto(s, 6))) = a
<1>1. a = [ip |-> a.ip, port |-> a.port] /\ a.ip \in Seq(Octet) /\ a.port \in 0 .. MaxUint16
    BY DEF AddrPort
<1>2. PICK ip \in Seq(Octet) : a.ip = ip /\ Len(ip) = 4
    BY <1>1 DEF Is4
<1> DEFINE u == PutUint16(a.port)
           e == ip \o u
<1>3. u \in Seq(Octet) /\ Len(u) = 2 /\ 256 * u[1] + u[2] = a.port
    BY <1>1, PutOctets
<1> HIDE DEF u
<1>4. /\ \A i \in 1 .. 4 : e[i] = ip[i]
      /\ \A i \in 1 .. 2 : e[4 + i] = u[i]
  <2>1. /\ \A i \in 1 .. Len(ip) : e[i] = ip[i]
        /\ \A i \in 1 .. Len(u) : e[Len(ip) + i] = u[i]
    BY <1>2, <1>3, Concatenation
  <2> HIDE DEF e
  <2> QED BY <1>2, <1>3, <2>1
<1>5. encodeAddressPortIpV4(a) = e
    BY <1>2 DEF encodeAddressPortIpV4, u
<1> HIDE DEF e
<1>6. /\ \A i \in 1 .. 4 : s[i] = ip[i]
      /\ s[5] = u[1] /\ s[6] = u[2]
  <2>1. s[4 + 1] = u[1] /\ s[4 + 2] = u[2]
    BY <1>4, <1>5
  <2> QED BY <1>4, <1>5, <2>1
<1> DEFINE t == Upto(s, 6)
           w == Upto(t, 4)
<1>7. t \in Seq(Octet) /\ Len(t) = 6 /\ \A i \in 1 .. 6 : t[i] = s[i]
    BY SubSeqProperties DEF Upto
<1> HIDE DEF t
<1>8. w \in Seq(Octet) /\ Len(w) = 4 /\ \A i \in 1 .. 4 : w[i] = t[i]
    BY <1>7, SubSeqProperties DEF Upto
<1> HIDE DEF w
<1>9. w = ip
  <2>1. Len(w) = Len(ip) /\ \A i \in 1 .. Len(w) : w[i] = ip[i]
    BY <1>2, <1>6, <1>7, <1>8
  <2> QED BY <1>2, <1>8, <2>1, SeqEqual
<1>10. Uint16(t, 5) = a.port
    BY <1>3, <1>6, <1>7 DEF Uint16
<1>11. decodeAddressPortIpV4(t) = {[ip |-> w, port |-> Uint16(t, 5)]}
    BY <1>7 DEF decodeAddressPortIpV4, When, w
<1>12. decodeAddressPortIpV4(t) = {a}
    BY <1>1, <1>2, <1>9, <1>10, <1>11
<1> QED BY <1>12 DEF The, t

\* The octets of an address and port.
LEMMA AddressOctets ==
    ASSUME NEW a \in AddrPort, Is4(a)
    PROVE  encodeAddressPortIpV4(a) \in Seq(Octet) /\ Len(encodeAddressPortIpV4(a)) = 6
<1>1. PICK ip \in Seq(Octet) : a.ip = ip /\ Len(ip) = 4
    BY DEF AddrPort, Is4
<1>2. PutUint16(a.port) \in Seq(Octet) /\ Len(PutUint16(a.port)) = 2
    BY PutOctets DEF AddrPort
<1>3. encodeAddressPortIpV4(a) = ip \o PutUint16(a.port)
    BY <1>1 DEF encodeAddressPortIpV4
<1>4. /\ ip \o PutUint16(a.port) \in Seq(Octet)
      /\ Len(ip \o PutUint16(a.port)) = Len(ip) + Len(PutUint16(a.port))
    BY <1>1, <1>2, Concatenation
<1> QED BY <1>1, <1>2, <1>3, <1>4

\* An entry of the foreign device table as it is listed.
FdtWire == [address : AddrPort, registeredTtl : 0 .. MaxUint16, remainingTtl : 0 .. MaxUint16]

\* Such an entry is read back.
LEMMA FdtEntryBack ==
    ASSUME NEW e \in FdtWire, FdtEntryValid(e)
    PROVE  \E o \in Seq(Octet) :
              FdtEntryEncode(e) = {o} /\ Len(o) = EntryLen /\ FdtEntryDecode(o) = {e}
<1>1. PICK a \in AddrPort, x \in 0 .. MaxUint16, y \in 0 .. MaxUint16 :
         e = [address |-> a, registeredTtl |-> x, remainingTtl |-> y]
    BY DEF FdtWire
<1>2. e.address = a /\ e.registeredTtl = x /\ e.remainingTtl = y
    BY <1>1
<1>3. Is4(a)
    BY <1>2 DEF FdtEntryValid
<1> DEFINE s == encodeAddressPortIpV4(a)
           u == PutUint16(x)
           v == PutUint16(y)
           su == s \o u
           o == su \o v
<1>4. s \in Seq(Octet) /\ Len(s) = 6
    BY <1>3, AddressOctets
<1>5. /\ u \in Seq(Octet) /\ Len(u) = 2 /\ 256 * u[1] + u[2] = x
      /\ v \in Seq(Octet) /\ Len(v) = 2 /\ 256 * v[1] + v[2] = y
    BY PutOctets
<1>6. FdtEntryEncode(e) = {o}
    BY <1>2, <1>3, Zenon DEF FdtEntryEncode, When
<1> HIDE DEF s, u, v
<1>7. /\ su \in Seq(Octet) /\ Len(su) = 8
      /\ \A i \in 1 .. 6 : su[i] = s[i]
      /\ su[7] = u[1] /\ su[8] = u[2]
  <2>1. /\ su \in Seq(Octet) /\ Len(su) = Len(s) + Len(u)
        /\ \A i \in 1 .. Len(s) : su[i] = s[i]
        /\ \A i \in 1 .. Len(u) : su[Len(s) + i] = u[i]
    BY <1>4, <1>5, Concatenation
  <2> HIDE DEF su
  <2>2. su[6 + 1] = u[1] /\ su[6 + 2] = u[2]
    BY <1>4, <1>5, <2>1
  <2> QED BY <1>4, <1>5, <2>1, <2>2
<1> HIDE DEF su
<1>8. /\ o \in Seq(Octet) /\ Len(o) = 10
      /\ \A i \in 1 .. 8 : o[i] = su[i]
      /\ o[9] = v[1] /\ o[10] = v[2]
  <2>1. /\ o \in Seq(Octet) /\ Len(o) = Len(su) + Len(v)
        /\ \A i \in 1 .. Len(su) : o[i] = su[i]
        /\ \A i \in 1 .. Len(v) : o[Len(su) + i] = v[i]
    BY <1>5, <1>7, Concatenation
  <2> HIDE DEF o
  <2>2. o[8 + 1] = v[1] /\ o[8 + 2] = v[2]
    BY <1>5, <1>7, <2>1
  <2> QED BY <1>5, <1>7, <2>1, <2>2
<1> HIDE DEF o
<1>9. Uint16(o, 7) = x /\ Uint16(o, 9) = y
    BY <1>5, <1>7, <1>8 DEF Uint16
<1>10. The(decodeAddressPortIpV4(Upto(o, 6))) = a
  <2>1. Len(o) >= 6 /\ \A i \in 1 .. 6 : o[i] = encodeAddressPortIpV4(a)[i]
    BY <1>7, <1>8 DEF s
  <2> QED BY <1>3, <1>8, <2>1, AddressBack
<1>11. Len(o) = EntryLen
    BY <1>8 DEF EntryLen
<1>12. FdtEntryDecode(o) = When(FdtEntryValid(e), e)
    BY <1>1, <1>9, <1>10, <1>11, Zenon DEF FdtEntryDecode
<1> QED BY <1>6, <1>8, <1>11, <1>12 DEF When

\* An entry of the broadcast distribution table is read back.
LEMMA BdtEntryBack ==
    ASSUME NEW e \in BdtEntries, BdtEntryValid(e)
    PROVE  \E o \in Seq(Octet) :
              BdtEntryEncode(e) = {o} /\ Len(o) = EntryLen /\ BdtEntryDecode(o) = {e}
<1>1. PICK a \in AddrPort, m \in Seq(Octet) : e = [address |-> a, mask |-> m]
    BY DEF BdtEntries
<1>2. e.address = a /\ e.mask = m
    BY <1>1
<1>3. Is4(a) /\ Len(m) = 4
    BY <1>2 DEF BdtEntryValid
<1> DEFINE s == encodeAddressPortIpV4(a)
           o == s \o m
<1>4. s \in Seq(Octet) /\ Len(s) = 6
    BY <1>3, AddressOctets
<1>5. BdtEntryEncode(e) = {o}
    BY <1>2, <1>3, Zenon DEF BdtEntryEncode, When
<1> HIDE DEF s
<1>6. /\ o \in Seq(Octet) /\ Len(o) = 10
      /\ \A i \in 1 .. 6 : o[i] = s[i]
      /\ \A i \in 1 .. 4 : o[6 + i] = m[i]
  <2>1. /\ o \in Seq(Octet) /\ Len(o) = Len(s) + Len(m)
        /\ \A i \in 1 .. Len(s) : o[i] = s[i]
        /\ \A i \in 1 .. Len(m) : o[Len(s) + i] = m[i]
    BY <1>4, Concatenation
  <2> HIDE DEF o
  <2> QED BY <1>3, <1>4, <2>1
<1> HIDE DEF o
<1>7. The(decodeAddressPortIpV4(Upto(o, 6))) = a
  <2>1. Len(o) >= 6 /\ \A i \in 1 .. 6 : o[i] = encodeAddressPortIpV4(a)[i]
    BY <1>6 DEF s
  <2> QED BY <1>3, <1>6, <2>1, AddressBack
<1>8. From(o, 6) = m
  <2> DEFINE q == SubSeq(o, 7, 10)
  <2>1. From(o, 6) = q
    <3>1. 6 + 1 = 7 /\ Len(o) = 10
      BY <1>6
    <3> QED BY <3>1, Zenon DEF From
  <2>2. q \in Seq(Octet) /\ Len(q) = 4 /\ \A i \in 1 .. 4 : q[i] = o[6 + i]
    <3>1. \A i \in 7 .. 10 : o[i] \in Octet
      BY <1>6, ElementOfSeq
    <3>2. /\ q \in Seq(Octet) /\ Len(q) = IF 7 <= 10 THEN 10 - 7 + 1 ELSE 0
          /\ \A i \in 1 .. 10 - 7 + 1 : q[i] = o[7 + i - 1]
      BY <1>6, <3>1, SubSeqProperties
    <3> HIDE DEF q
    <3> QED BY <3>2
  <2> HIDE DEF q
  <2>3. Len(q) = Len(m) /\ \A i \in 1 .. Len(q) : q[i] = m[i]
    BY <1>3, <1>6, <2>2
  <2> QED BY <2>1, <2>2, <2>3, SeqEqual
<1>9. Len(o) = EntryLen
    BY <1>6 DEF EntryLen
<1>10. BdtEntryDecode(o) = When(BdtEntryValid(e), e)
    BY <1>1, <1>7, <1>8, <1>9, Zenon DEF BdtEntryDecode
<1> QED BY <1>5, <1>6, <1>9, <1>10 DEF When

\* A list of entries of the foreign device table is read back.
LEMMA FdtListBack ==
    ASSUME NEW l \in Seq(FdtWire), FdtEntryListValid(l)
    PROVE  \E body \in Seq(Octet) :
              /\ FdtEntryListEncode(l) = {body} /\ Len(body) = 10 * Len(l)
              /\ FdtEntryListDecode(body) = {l}
<1>0. PICK n \in Nat : n = Len(l)
    OBVIOUS
<1>2. l \in [1 .. n -> FdtWire] /\ DOMAIN l = 1 .. n /\ \A i \in 1 .. n : FdtEntryValid(l[i])
    BY <1>0 DEF FdtEntryListValid
<1> DEFINE p == [i \in 1 .. n |-> The(FdtEntryEncode(l[i]))]
           body == Joined(p)
<1>1. ASSUME NEW i \in 1 .. n
      PROVE  /\ FdtEntryEncode(l[i]) # {} /\ p[i] \in Seq(Octet) /\ Len(p[i]) = EntryLen
             /\ FdtEntryDecode(p[i]) = {l[i]}
  <2>1. PICK o \in Seq(Octet) :
              FdtEntryEncode(l[i]) = {o} /\ Len(o) = EntryLen /\ FdtEntryDecode(o) = {l[i]}
    BY <1>2, FdtEntryBack
  <2>2. p[i] = o
    BY <2>1 DEF The
  <2> QED BY <2>1, <2>2
<1>3. FdtEntryListEncode(l) = {body}
    BY <1>1, <1>2, Zenon DEF FdtEntryListEncode
<1>4. p \in [1 .. n -> Seq(Octet)]
    BY <1>1
<1> HIDE DEF p
<1>5. body \in Seq(Octet) /\ Len(body) = 10 * n /\ \A i \in 1 .. n : Piece(body, i) = p[i]
    BY <1>1, <1>4, JoinedBack
<1> HIDE DEF body
<1>6. Len(body) \div EntryLen = n /\ Len(body) % EntryLen = 0
    BY <1>5 DEF EntryLen
<1>7. \A i \in 1 .. n : FdtEntryDecode(Piece(body, i)) = {l[i]}
    BY <1>1, <1>5
<1>8. FdtEntryListDecode(body) = {[i \in 1 .. n |-> The(FdtEntryDecode(Piece(body, i)))]}
    BY <1>6, <1>7 DEF FdtEntryListDecode
<1>9. \A i \in 1 .. n : The(FdtEntryDecode(Piece(body, i))) = l[i]
    BY <1>7 DEF The
<1>10. [i \in 1 .. n |-> The(FdtEntryDecode(Piece(body, i)))] = l
    BY <1>2, <1>9
<1> QED BY <1>0, <1>3, <1>5, <1>8, <1>10

\* A list of entries of the broadcast distribution table is read back.
LEMMA BdtListBack ==
    ASSUME NEW l \in Seq(BdtEntries), BdtEntryListValid(l)
    PROVE  \E body \in Seq(Octet) :
              /\ BdtEntryListEncode(l) = {body} /\ Len(body) = 10 * Len(l)
              /\ BdtEntryListDecode(body) = {l}
<1>0. PICK n \in Nat : n = Len(l)
    OBVIOUS
<1>2. l \in [1 .. n -> BdtEntries] /\ DOMAIN l = 1 .. n /\ \A i \in 1 .. n : BdtEntryValid(l[i])
    BY <1>0 DEF BdtEntryListValid
<1> DEFINE p == [i \in 1 .. n |-> The(BdtEntryEncode(l[i]))]
           body == Joined(p)
<1>1. ASSUME NEW i \in 1 .. n
      PROVE  /\ BdtEntryEncode(l[i]) # {} /\ p[i] \in Seq(Octet) /\ Len(p[i]) = EntryLen
             /\ BdtEntryDecode(p[i]) = {l[i]}
  <2>1. PICK o \in Seq(Octet) :
              BdtEntryEncode(l[i]) = {o} /\ Len(o) = EntryLen /\ BdtEntryDecode(o) = {l[i]}
    BY <1>2, BdtEntryBack
  <2>2. p[i] = o
    BY <2>1 DEF The
  <2> QED BY <2>1, <2>2
<1>3. BdtEntryListEncode(l) = {body}
    BY <1>1, <1>2, Zenon DEF BdtEntryListEncode
<1>4. p \in [1 .. n -> Seq(Octet)]
    BY <1>1
<1> HIDE DEF p
<1>5. body \in Seq(Octet) /\ Len(body) = 10 * n /\ \A i \in 1 .. n : Piece(body, i) = p[i]
    BY <1>1, <1>4, JoinedBack
<1> HIDE DEF body
<1>6. Len(body) \div EntryLen = n /\ Len(body) % EntryLen = 0
    BY <1>5 DEF EntryLen
<1>7. \A i \in 1 .. n : BdtEntryDecode(Piece(body, i)) = {l[i]}
    BY <1>1, <1>5
<1>8. BdtEntryListDecode(body) = {[i \in 1 .. n |-> The(BdtEntryDecode(Piece(body, i)))]}
    BY <1>6, <1>7 DEF BdtEntryListDecode
<1>9. \A i \in 1 .. n : The(BdtEntryDecode(Piece(body, i))) = l[i]
    BY <1>7 DEF The
<1>10. [i \in 1 .. n |-> The(BdtEntryDecode(Piece(body, i)))] = l
    BY <1>2, <1>9
<1> QED BY <1>0, <1>3, <1>5, <1>8, <1>10

\* The entries fit into an answer.
Short(l) == Len(l) <= 6553

\* A list of at most 6553 entries fits into an answer and is read back.
LEMMA FdtAckBack ==
    ASSUME NEW l \in Seq(FdtWire), Short(l), FdtEntryListValid(l)
    PROVE  \E m, d : /\ NewReadFDTAck(l) = {m} /\ ReadFDTAckEncode(m) = {d}
                     /\ ReadFDTAckDecode(d) = {m} /\ m.entries = l
<1> DEFINE h == NewHeader(BACnetIP, FnReadFDTAck, HeaderLen + EntryLen * Len(l))
           m == [header |-> h, entries |-> l]
<1>1. Len(l) \in Nat
    OBVIOUS
<1>2. NewReadFDTAck(l) = {m}
  <2>1. NewReadFDTAck(l) = When(FdtEntryListValid(l), m)
    BY DEF NewReadFDTAck
  <2> QED BY <2>1 DEF When
<1>3. PICK body \in Seq(Octet) :
         /\ FdtEntryListEncode(l) = {body} /\ Len(body) = 10 * Len(l)
         /\ FdtEntryListDecode(body) = {l}
    BY FdtListBack
<1>4. h = WholeHeader(7, body) /\ Fits(body)
    BY <1>1, <1>3 DEF WholeHeader, EntryLen, Fits, Short, HeaderLen, MaxUint16, FnReadFDTAck
<1>5. m.header = h /\ m.entries = l
    OBVIOUS
<1> HIDE DEF h
<1>6. PICK d : /\ WholeEncode(h, body) = {d} /\ Len(d) = 4 + Len(body)
               /\ From(d, HeaderLen) = body /\ HeaderOf(d, 7) = {h}
  <2>1. 7 \in 0 .. 11
    OBVIOUS
  <2> QED BY <1>4, <2>1, WholeMessage
<1>7. ReadFDTAckEncode(m) = {d}
    BY <1>3, <1>5, <1>6 DEF ReadFDTAckEncode
<1>8. ReadFDTAckDecode(d) = {m}
  <2>1. ~(Len(d) < HeaderLen)
    BY <1>1, <1>3, <1>6 DEF HeaderLen
  <2> QED BY <1>3, <1>6, <2>1 DEF ReadFDTAckDecode, FnReadFDTAck
<1> QED BY <1>2, <1>5, <1>7, <1>8

\* The same for the broadcast distribution table.
LEMMA BdtAckBack ==
    ASSUME NEW l \in Seq(BdtEntries), Short(l), BdtEntryListValid(l)
    PROVE  \E m, d : /\ NewReadBDTAck(l) = {m} /\ ReadBDTAckEncode(m) = {d}
                     /\ ReadBDTAckDecode(d) = {m} /\ m.entries = l
<1> DEFINE h == NewHeader(BACnetIP, FnReadBDTAck, HeaderLen + EntryLen * Len(l))
           m == [header |-> h, entries |-> l]
<1>1. Len(l) \in Nat
    OBVIOUS
<1>3. NewReadBDTAck(l) = {m}
  <2>1. NewReadBDTAck(l) = When(BdtEntryListValid(l), m)
    BY DEF NewReadBDTAck
  <2> QED BY <2>1 DEF When
<1>4. PICK body \in Seq(Octet) :
         /\ BdtEntryListEncode(l) = {body} /\ Len(body) = 10 * Len(l)
         /\ BdtEntryListDecode(body) = {l}
    BY BdtListBack
<1>5. h = WholeHeader(3, body) /\ Fits(body)
    BY <1>1, <1>4 DEF WholeHeader, EntryLen, Fits, Short, HeaderLen, MaxUint16, FnReadBDTAck
<1>6. m.header = h /\ m.entries = l
    OBVIOUS
<1> HIDE DEF h
<1>7. PICK d : /\ HeaderValid(h)
               /\ WholeEncode(h, body) = {d} /\ Len(d) = 4 + Len(body)
               /\ From(d, HeaderLen) = body /\ HeaderOf(d, 3) = {h}
  <2>1. 3 \in 0 .. 11
    OBVIOUS
  <2> QED BY <1>5, <2>1, WholeMessage
<1>8. ReadBDTAckEncode(m) = {d}
    BY <1>4, <1>6, <1>7 DEF ReadBDTAckEncode
<1>9. ReadBDTAckValid(m)
    BY <1>6, <1>7 DEF ReadBDTAckValid
<1>10. ReadBDTAckDecode(d) = {m}
  <2>1. ~(Len(d) < HeaderLen)
    BY <1>1, <1>4, <1>7 DEF HeaderLen
  <2>2. ReadBDTAckDecode(d) = {x \in {[header |-> g, entries |-> k] : g \in {h}, k \in {l}} :
                                  ReadBDTAckValid(x)}
    BY <1>4, <1>7, <2>1 DEF ReadBDTAckDecode, FnReadBDTAck
  <2> QED BY <1>9, <2>2
<1> QED BY <1>3, <1>6, <1>8, <1>10

-----------------------------------------------------------------------------
(* The table and the leases *)

\* The table promises what the inductive invariant says of it.
LEMMA TablesMatch == TablesOK => TableMatchesLeases
<1> SUFFICES ASSUME TablesOK PROVE TableMatchesLeases
    OBVIOUS
<1>1. ASSUME NEW l \in lease, Until(l) > 0
      PROVE  \E e \in fdt : e.address = l.address /\ e.ttl = l.ttl /\ e.left = Until(l)
  <2>1. PICK e \in fdt : e.address = l.address
    BY <1>1 DEF TablesOK
  <2>2. PICK k \in lease : k.address = e.address /\ k.ttl = e.ttl /\ e.left = Left(k)
    BY DEF TablesOK
  <2>3. k = l
    BY <2>1, <2>2 DEF TablesOK
  <2> QED BY <1>1, <2>1, <2>2, <2>3 DEF Left
<1>2. \A e \in fdt : \E l \in lease : l.address = e.address /\ l.ttl = e.ttl
    BY DEF TablesOK
<1>3. \A e, f \in fdt : e.address = f.address => e = f
    BY DEF TablesOK
<1> QED BY <1>1, <1>2, <1>3 DEF TableMatchesLeases

\* The numbers of a lease.
LEMMA LeaseNumbers ==
    ASSUME TablesOK, NEW l \in lease
    PROVE  l.ttl \in Nat /\ l.age \in Nat /\ Until(l) \in Int
<1>1. l \in Lease
    BY DEF TablesOK
<1>2. l.ttl \in 1 .. MaxUint16 /\ l.age \in Nat
    BY <1>1, Zenon DEF Lease
<1>3. PICK t \in 1 .. MaxUint16, g \in Nat : l.ttl = t /\ l.age = g
    BY <1>2
<1>4. t \in Nat /\ 2 * (IF t + 30 > 65535 THEN 65535 ELSE t + 30) - g \in Int
    BY DEF MaxUint16
<1>5. Until(l) = 2 * (IF t + 30 > 65535 THEN 65535 ELSE t + 30) - g
    BY <1>3 DEF Until
<1>6. l.ttl \in Nat /\ l.age \in Nat
    BY <1>3, <1>4
<1>7. Until(l) \in Int
    BY <1>4, <1>5
<1> QED BY <1>6, <1>7

\* A registration lasts its time to live and the grace period.
LEMMA NewLease ==
    ASSUME NEW a \in Places, NEW ttl \in 1 .. MaxUint16
    PROVE  /\ [address |-> a, ttl |-> ttl, left |-> 2 * gracePeriod(ttl)] \in Entry
           /\ [address |-> a, ttl |-> ttl, age |-> 0] \in Lease
           /\ Left([address |-> a, ttl |-> ttl, age |-> 0]) = 2 * gracePeriod(ttl)
<1>1. gracePeriod(ttl) \in Nat \ {0} /\ gracePeriod(ttl) = IF ttl + 30 > 65535 THEN 65535 ELSE ttl + 30
    BY DEF gracePeriod, Smaller, GracePeriod, MaxUint16
<1>2. [address |-> a, ttl |-> ttl, left |-> 2 * gracePeriod(ttl)] \in Entry
    BY <1>1 DEF Entry
<1>3. [address |-> a, ttl |-> ttl, age |-> 0] \in Lease
    BY DEF Lease
<1>4. Left([address |-> a, ttl |-> ttl, age |-> 0]) = 2 * gracePeriod(ttl)
    BY <1>1 DEF Left, Until
<1> QED BY <1>2, <1>3, <1>4

\* HandleRegisterForeignDevice replaces the entry of a device by a new one.
LEMMA RegisterTables ==
    ASSUME TablesOK, NEW a \in Places, NEW ttl \in 1 .. MaxUint16,
           fdt' = Without(fdt, a) \cup
                    {[address |-> a, ttl |-> ttl, left |-> 2 * gracePeriod(ttl)]},
           lease' = Without(lease, a) \cup {[address |-> a, ttl |-> ttl, age |-> 0]}
    PROVE  TablesOK'
<1> DEFINE e0 == [address |-> a, ttl |-> ttl, left |-> 2 * gracePeriod(ttl)]
           l0 == [address |-> a, ttl |-> ttl, age |-> 0]
<1>1. e0 \in Entry /\ l0 \in Lease /\ Left(l0) = 2 * gracePeriod(ttl)
    BY NewLease
<1>2. /\ e0.address = a /\ e0.ttl = ttl /\ e0.left = Left(l0)
      /\ l0.address = a /\ l0.ttl = ttl
    BY <1>1
<1>3. /\ fdt' = {e \in fdt : e.address # a} \cup {e0}
      /\ lease' = {l \in lease : l.address # a} \cup {l0}
    BY DEF Without
<1> HIDE DEF e0, l0
<1>4. (fdt \subseteq Entry /\ lease \subseteq Lease)'
    BY <1>1, <1>3 DEF TablesOK, Entry, Lease, Places
<1>5. \A e, f \in fdt' : e.address = f.address => e = f
    BY <1>2, <1>3 DEF TablesOK
<1>6. \A k, l \in lease' : k.address = l.address => k = l
    BY <1>2, <1>3 DEF TablesOK
<1>7. ASSUME NEW e \in fdt'
      PROVE  \E l \in lease' : l.address = e.address /\ l.ttl = e.ttl /\ e.left = Left(l)
    BY <1>2, <1>3, <1>7 DEF TablesOK
<1>8. ASSUME NEW l \in lease', Until(l) > 0
      PROVE  \E e \in fdt' : e.address = l.address
    BY <1>2, <1>3, <1>8 DEF TablesOK
<1> QED BY <1>4, <1>5, <1>6, <1>7, <1>8 DEF TablesOK, Entry, Lease, Places, Left, Until

\* Deleting an entry ends its lease; purging takes the expired entries only.
LEMMA DeleteTables ==
    ASSUME TablesOK, NEW a, fdt' = Without(fdt, a), lease' = Without(lease, a)
    PROVE  TablesOK'
<1>1. (fdt \subseteq Entry /\ lease \subseteq Lease)'
    BY DEF TablesOK, Without, Entry, Lease, Places
<1>2. /\ \A e, f \in fdt' : e.address = f.address => e = f
      /\ \A k, l \in lease' : k.address = l.address => k = l
    BY DEF TablesOK, Without
<1>3. /\ \A e \in fdt' : \E l \in lease' :
            l.address = e.address /\ l.ttl = e.ttl /\ e.left = Left(l)
      /\ \A l \in lease' : Until(l) > 0 => \E e \in fdt' : e.address = l.address
    BY DEF TablesOK, Without
<1> QED BY <1>1, <1>2, <1>3 DEF TablesOK, Entry, Lease, Places, Left, Until

LEMMA PurgeTables ==
    ASSUME TablesOK, fdt' = purgeExpired(fdt), UNCHANGED lease
    PROVE  TablesOK'
<1>1. (fdt \subseteq Entry /\ lease \subseteq Lease)'
    BY DEF TablesOK, purgeExpired, Entry, Lease, Places
<1>2. /\ \A e, f \in fdt' : e.address = f.address => e = f
      /\ \A k, l \in lease' : k.address = l.address => k = l
      /\ \A e \in fdt' : \E l \in lease' :
            l.address = e.address /\ l.ttl = e.ttl /\ e.left = Left(l)
    BY DEF TablesOK, purgeExpired
<1>3. ASSUME NEW l \in lease, Until(l) > 0 PROVE \E e \in fdt' : e.address = l.address
  <2>1. PICK e \in fdt : e.address = l.address /\ e.left = Until(l)
    BY <1>3, TablesMatch DEF TableMatchesLeases
  <2>2. l.ttl \in Nat /\ l.age \in Nat
    BY LeaseNumbers
  <2>3. ~expired(e)
    BY <1>3, <2>1, <2>2 DEF expired, Until
  <2> QED BY <2>1, <2>3 DEF purgeExpired
<1> QED BY <1>1, <1>2, <1>3 DEF TablesOK, Entry, Lease, Places, Left, Until

\* The clock takes as much from an entry as it adds to the age of its lease.
LEMMA TickTables ==
    ASSUME TablesOK, NEW j \in Nat,
           fdt' = {[e EXCEPT !.left = IF @ > j THEN @ - j ELSE 0] : e \in fdt},
           lease' = {[e EXCEPT !.age = @ + j] : e \in lease}
    PROVE  TablesOK'
<1> DEFINE Later(e) == [e EXCEPT !.left = IF @ > j THEN @ - j ELSE 0]
           Older(l) == [l EXCEPT !.age = @ + j]
<1>1. ASSUME NEW e \in fdt
      PROVE  /\ Later(e) \in Entry /\ Later(e).address = e.address /\ Later(e).ttl = e.ttl
             /\ e.left \in Nat /\ Later(e).left = IF e.left > j THEN e.left - j ELSE 0
  <2>1. e \in Entry
    BY DEF TablesOK
  <2> QED BY <2>1 DEF Entry
<1>2. ASSUME NEW l \in lease
      PROVE  /\ Older(l) \in Lease /\ Older(l).address = l.address /\ Older(l).ttl = l.ttl
             /\ Until(Older(l)) = Until(l) - j
  <2>1. l \in Lease
    BY DEF TablesOK
  <2>2. Older(l) \in Lease /\ Older(l).address = l.address /\ Older(l).ttl = l.ttl
        /\ Older(l).age = l.age + j
    BY <2>1 DEF Lease
  <2> HIDE DEF Older
  <2>3. Until(Older(l)) = Until(l) - j
    BY <2>2, LeaseNumbers DEF Until
  <2> QED BY <2>2, <2>3
<1>3. fdt' = {Later(e) : e \in fdt} /\ lease' = {Older(l) : l \in lease}
    OBVIOUS
<1> HIDE DEF Later, Older
<1>4. (fdt \subseteq Entry /\ lease \subseteq Lease)'
    BY <1>1, <1>2, <1>3 DEF Entry, Lease, Places
<1>5. \A e, f \in fdt' : e.address = f.address => e = f
    BY <1>1, <1>3 DEF TablesOK
<1>6. \A k, l \in lease' : k.address = l.address => k = l
    BY <1>2, <1>3 DEF TablesOK
<1>7. ASSUME NEW f \in fdt'
      PROVE  \E l \in lease' : l.address = f.address /\ l.ttl = f.ttl /\ f.left = Left(l)
  <2>1. PICK e \in fdt : f = Later(e)
    BY <1>3, <1>7
  <2>2. PICK l \in lease : l.address = e.address /\ l.ttl = e.ttl /\ e.left = Left(l)
    BY DEF TablesOK
  <2>3. f.left = Left(Older(l))
    BY <1>1, <1>2, <2>1, <2>2, LeaseNumbers DEF Left
  <2>4. Older(l) \in lease'
    BY <1>3
  <2> QED BY <1>1, <1>2, <2>1, <2>2, <2>3, <2>4
<1>8. ASSUME NEW k \in lease', Until(k) > 0
      PROVE  \E e \in fdt' : e.address = k.address
  <2>1. PICK l \in lease : k = Older(l)
    BY <1>3, <1>8
  <2>2. Until(l) > 0
    BY <1>2, <1>8, <2>1, LeaseNumbers
  <2>3. PICK e \in fdt : e.address = l.address
    BY <2>2 DEF TablesOK
  <2>4. Later(e) \in fdt'
    BY <1>3
  <2> QED BY <1>1, <1>2, <2>1, <2>3, <2>4
<1> QED BY <1>4, <1>5, <1>6, <1>7, <1>8 DEF TablesOK

-----------------------------------------------------------------------------
(* The calls *)

\* One call of a device.
Call == [pc : {"idle", "read"}, calls : Nat, result : {"none", "nil", "error", "rejected"}]

\* A call begins: its number is new, and what is left of earlier ones belongs
\* to calls that gave up.
LEMMA RegisterCalls ==
    ASSUME CallsOK, NilMeansRegistered, NEW d \in Devices, RegisterAsForeignDevice(d)
    PROVE  CallsOK' /\ NilMeansRegistered'
<1> DEFINE c == dev[d].calls
<1>1. /\ dev \in [Devices -> Call] /\ dev[d] \in Call /\ dev[d].pc = "idle" /\ c \in Nat
  <2>1. dev \in [Devices -> Call]
    BY DEF CallsOK, Call
  <2>2. dev[d] \in Call
    BY <2>1
  <2> QED BY <2>1, <2>2 DEF Call, RegisterAsForeignDevice
<1>2. /\ inbox' = inbox /\ granted' = granted \ {d} /\ failed \subseteq failed'
      /\ failed' \subseteq failed \cup {d}
    BY DEF RegisterAsForeignDevice
<1>3. /\ dev' \in [Devices -> Call] /\ dev'[d].calls = c + 1 /\ dev'[d].result # "nil"
      /\ \A x \in Devices \ {d} : dev'[x] = dev[x]
    BY <1>1 DEF RegisterAsForeignDevice, Call
<1>4. \/ requests' = requests
      \/ \E m \in NewRegister(Ttl[d]) : \E data \in RegisterEncode(m) :
            /\ requests' = requests \cup {[src |-> d, data |-> data, call |-> c + 1]}
            /\ dev'[d].pc = "read" \/ d \in failed'
    BY <1>1 DEF RegisterAsForeignDevice, Call
<1> HIDE DEF c
<1>5. ASSUME NEW q \in requests PROVE RequestOK(q)'
  <2>1. RequestOK(q)
    BY DEF CallsOK
  <2>2. CASE q.src = d
    <3>1. q.src \in failed /\ q.call \in 1 .. c
      BY <1>1, <2>1, <2>2 DEF RequestOK, Over, c
    <3>2. q.call \in 1 .. c + 1
      BY <1>1, <3>1
    <3> QED BY <1>2, <1>3, <2>1, <2>2, <3>1, <3>2 DEF RequestOK
  <2>3. CASE q.src # d
    BY <1>2, <1>3, <2>1, <2>3 DEF RequestOK, Over
  <2> QED BY <2>2, <2>3
<1>6. ASSUME NEW q \in requests', q \notin requests
      PROVE  RequestOK(q)' /\ q.src = d /\ q.call = c + 1
  <2>1. PICK m \in NewRegister(Ttl[d]) : \E data \in RegisterEncode(m) :
            /\ requests' = requests \cup {[src |-> d, data |-> data, call |-> c + 1]}
            /\ dev'[d].pc = "read" \/ d \in failed'
    BY <1>4, <1>6
  <2>2. PICK data \in RegisterEncode(m) :
            /\ requests' = requests \cup {[src |-> d, data |-> data, call |-> c + 1]}
            /\ dev'[d].pc = "read" \/ d \in failed'
    BY <2>1
  <2>3. q = [src |-> d, data |-> data, call |-> c + 1]
    BY <1>6, <2>2
  <2>4. q.src = d /\ q.data = data /\ q.call = c + 1
    BY <2>3
  <2>5. q.call \in 1 .. dev'[d].calls /\ ~(q.call < dev'[d].calls)
    BY <1>1, <1>3, <2>4
  <2>6. RequestOK(q)'
    BY <2>2, <2>4, <2>5 DEF RequestOK, Over
  <2> QED BY <2>4, <2>6
<1>7. ASSUME NEW r \in inbox PROVE DatagramOK(r)'
  <2>1. DatagramOK(r)
    BY DEF CallsOK
  <2>2. CASE r.to = d
    <3>1. r.call \in 0 .. c /\ (r.call # 0 => r.to \in failed)
      BY <1>1, <2>1, <2>2 DEF DatagramOK, Over, c
    <3>2. r.call \in 0 .. c + 1 /\ r.call < c + 1
      BY <1>1, <3>1
    <3> QED BY <1>2, <1>3, <2>1, <2>2, <3>1, <3>2 DEF DatagramOK, Over, Success
  <2>3. CASE r.to # d
    BY <1>2, <1>3, <2>1, <2>3 DEF DatagramOK, Over, Success
  <2> QED BY <2>2, <2>3
<1>8. /\ \A q \in requests : q.src = d => q.call # c + 1
      /\ \A r \in inbox : r.to = d => r.call # c + 1
  <2>1. \A q \in requests : q.src = d => q.call \in 1 .. c
    BY DEF CallsOK, RequestOK, c
  <2>2. \A r \in inbox : r.to = d => r.call \in 0 .. c
    BY DEF CallsOK, DatagramOK, c
  <2> QED BY <1>1, <2>1, <2>2
<1>9. /\ \A q, p \in requests' : q.src = p.src /\ q.call = p.call => q = p
      /\ \A q \in requests', r \in inbox' : q.src = r.to => q.call # r.call
  <2>1. \A q, p \in requests' : q \notin requests /\ p \notin requests => q = p
    BY <1>4
  <2> QED BY <1>2, <1>6, <1>8, <2>1 DEF CallsOK
<1>10. \A r, t \in inbox' : r.to = t.to /\ r.call = t.call /\ r.call # 0 => r = t
    BY <1>2 DEF CallsOK
<1>11. CallsOK'
    BY <1>2, <1>3, <1>5, <1>6, <1>7, <1>9, <1>10 DEF CallsOK, Call
<1>12. NilMeansRegistered'
    BY <1>2, <1>3 DEF NilMeansRegistered
<1> QED BY <1>11, <1>12

\* Datagrams that are lost, or read and skipped.
LEMMA FewerDatagrams ==
    ASSUME CallsOK, NilMeansRegistered, requests' \subseteq requests, inbox' \subseteq inbox,
           UNCHANGED <<dev, granted, failed>>
    PROVE  CallsOK' /\ NilMeansRegistered'
<1>1. /\ \A q \in requests' : RequestOK(q)'
      /\ \A r \in inbox' : DatagramOK(r)'
    BY DEF CallsOK, RequestOK, DatagramOK, Over, Success
<1>2. CallsOK'
    BY <1>1 DEF CallsOK
<1> QED BY <1>2 DEF NilMeansRegistered

\* A call returns: nothing of it is on its way any more, or it gave up.
LEMMA ReturnCalls ==
    ASSUME CallsOK, NilMeansRegistered, NEW d \in Devices, NEW result, Return(d, result),
           result \in {"nil", "error", "rejected"},
           UNCHANGED <<requests, granted>>, inbox' \subseteq inbox,
           failed \subseteq failed', failed' \subseteq failed \cup {d},
           \/ d \in failed'
           \/ /\ \A q \in requests : q.src = d => q.call # dev[d].calls
              /\ \A r \in inbox' : r.to = d => r.call = 0 \/ r.call # dev[d].calls,
           result = "nil" => d \in granted \/ d \in failed'
    PROVE  CallsOK' /\ NilMeansRegistered'
<1>1. dev \in [Devices -> Call]
    BY DEF CallsOK, Call
<1>2. dev[d] \in Call
    BY <1>1
<1>3. /\ dev' \in [Devices -> Call] /\ dev'[d].calls = dev[d].calls
      /\ dev'[d].pc = "idle" /\ dev'[d].result = result
      /\ \A x \in Devices \ {d} : dev'[x] = dev[x]
    BY <1>1, <1>2 DEF Return, Call
<1>4. dev[d].calls \in Nat
    BY <1>2 DEF Call
<1>5. ASSUME NEW q \in requests PROVE RequestOK(q)'
  <2>1. RequestOK(q)
    BY DEF CallsOK
  <2>2. CASE q.src # d
    BY <1>3, <2>1, <2>2 DEF RequestOK, Over
  <2>3. CASE q.src = d
    <3>1. q.call \in 1 .. dev[d].calls
      BY <2>1, <2>3 DEF RequestOK
    <3>2. d \in failed' \/ q.call < dev[d].calls
      BY <1>4, <2>3, <3>1
    <3>3. d \in failed'
      BY <2>1, <2>3, <3>2 DEF RequestOK, Over
    <3> QED BY <1>3, <2>1, <2>3, <3>3 DEF RequestOK
  <2> QED BY <2>2, <2>3
<1>6. ASSUME NEW r \in inbox' PROVE DatagramOK(r)'
  <2>1. DatagramOK(r)
    BY DEF CallsOK
  <2>2. CASE r.to # d
    BY <1>3, <2>1, <2>2 DEF DatagramOK, Over, Success
  <2>3. CASE r.to = d
    <3>1. r.call \in 0 .. dev[d].calls
      BY <2>1, <2>3 DEF DatagramOK
    <3>2. r.call = 0 \/ d \in failed' \/ r.call < dev[d].calls
      BY <1>4, <2>3, <3>1
    <3>3. r.call = 0 \/ d \in failed'
      BY <2>1, <2>3, <3>2 DEF DatagramOK, Over
    <3> QED BY <1>3, <2>1, <2>3, <3>3 DEF DatagramOK, Over, Success
  <2> QED BY <2>2, <2>3
<1>7. CallsOK'
    BY <1>3, <1>5, <1>6 DEF CallsOK, Call
<1>8. NilMeansRegistered'
    BY <1>3 DEF NilMeansRegistered
<1> QED BY <1>7, <1>8

\* The loop of RegisterAsForeignDevice reads a datagram.
LEMMA ReadCalls ==
    ASSUME CallsOK, NilMeansRegistered, NEW d \in Devices, Read(d)
    PROVE  CallsOK' /\ NilMeansRegistered'
<1>1. PICK r \in inbox :
        /\ r.to = d
        /\ IF Outcome(d, r) = "again" THEN UNCHANGED <<dev, failed>>
           ELSE /\ Return(d, Outcome(d, r))
                /\ failed' = IF Outcome(d, r) = "error" THEN failed \cup {d} ELSE failed
        /\ inbox' = inbox \ {r}
    BY DEF Read
<1>2. dev[d].pc = "read" /\ UNCHANGED <<requests, granted>>
    BY DEF Read
<1>3. Outcome(d, r) \in {"again", "error", "nil", "rejected"}
    BY DEF Outcome
<1>4. CASE Outcome(d, r) = "again"
    BY <1>1, <1>2, <1>4, FewerDatagrams
<1>5. CASE Outcome(d, r) = "error"
    BY <1>1, <1>2, <1>5, ReturnCalls
<1>6. CASE Outcome(d, r) \in {"nil", "rejected"}
  <2>1. r.from = Bbmd /\ BVLCResultDecode(r.data) # {}
    BY <1>6 DEF Outcome
  <2>2. DatagramOK(r)
    BY DEF CallsOK
  <2>3. r.call # 0
    BY <2>1, <2>2 DEF DatagramOK
  <2>4. r.call \in 1 .. dev[d].calls /\ dev[d].calls \in Nat
    BY <1>1, <2>2, <2>3 DEF DatagramOK, CallsOK
  <2>5. Outcome(d, r) = "nil" => Success(r)
    BY <2>1 DEF Outcome, Success, The
  <2>6. CASE Over(d, r.call)
    <3>1. d \in failed
      BY <1>1, <2>2, <2>3, <2>6 DEF DatagramOK
    <3> QED BY <1>1, <1>2, <1>6, <3>1, ReturnCalls
  <2>7. CASE ~Over(d, r.call)
    <3>1. r.call = dev[d].calls
      BY <2>4, <2>7 DEF Over
    <3>2. Outcome(d, r) = "nil" => d \in granted
      BY <1>1, <2>2, <2>3, <2>5, <2>7 DEF DatagramOK
    <3>3. \A q \in requests : q.src = d => q.call # dev[d].calls
      BY <1>1, <3>1 DEF CallsOK
    <3>4. \A x \in inbox' : x.to = d => x.call = 0 \/ x.call # dev[d].calls
      BY <1>1, <2>3, <3>1 DEF CallsOK
    <3> QED BY <1>1, <1>2, <1>6, <3>2, <3>3, <3>4, ReturnCalls
  <2> QED BY <2>6, <2>7
<1> QED BY <1>3, <1>4, <1>5, <1>6

\* Serve: the request leaves, its answer is on its way.
LEMMA ServeCalls ==
    ASSUME CallsOK, NilMeansRegistered, Serve
    PROVE  CallsOK' /\ NilMeansRegistered'
<1>1. PICK q, src :
        /\ q \in requests
        /\ requests' = requests \ {q}
        /\ granted' = IF RegisterCode(src) = CodeSuccess /\ dev[q.src].pc = "read"
                            /\ dev[q.src].calls = q.call
                      THEN granted \cup {q.src} ELSE granted
        /\ \E r \in NewBVLCResult(RegisterCode(src)) : \E data \in BVLCResultEncode(r) :
            inbox' = inbox \cup {[to |-> q.src, from |-> Bbmd, data |-> data, call |-> q.call]}
        /\ UNCHANGED <<dev, failed>>
    BY DEF Serve
<1>2. ResultCodeValid(RegisterCode(src))
    BY DEF ResultCodeValid, RegisterCode
<1>3. PICK r, data : /\ NewBVLCResult(RegisterCode(src)) = {r} /\ BVLCResultEncode(r) = {data}
                     /\ BVLCResultDecode(data) = {r} /\ r.resultCode = RegisterCode(src)
    BY <1>2, ResultBack
<1> DEFINE new == [to |-> q.src, from |-> Bbmd, data |-> data, call |-> q.call]
<1>4. inbox' = inbox \cup {new}
    BY <1>1, <1>3
<1>5. new.to = q.src /\ new.data = data /\ new.call = q.call
    OBVIOUS
<1>6. RequestOK(q) /\ dev \in [Devices -> Call]
    BY <1>1 DEF CallsOK, Call
<1>7. q.src \in Devices /\ q.call \in 1 .. dev[q.src].calls /\ dev[q.src].calls \in Nat
    BY <1>6 DEF RequestOK, Call
<1> HIDE DEF new
<1>8. DatagramOK(new)'
  <2>1. Success(new) => RegisterCode(src) = CodeSuccess
    BY <1>3, <1>5 DEF Success
  <2>2. new.call \in 0 .. dev[q.src].calls /\ new.call # 0
    BY <1>5, <1>7
  <2>3. ~Over(q.src, q.call) => dev[q.src].pc = "read" /\ dev[q.src].calls = q.call
    BY <1>6, <1>7 DEF Over, Call
  <2>4. ~Over(q.src, q.call) /\ Success(new) => q.src \in granted'
    BY <1>1, <2>1, <2>3
  <2>5. Over(q.src, q.call) => q.src \in failed
    BY <1>6 DEF RequestOK
  <2> QED BY <1>1, <1>5, <1>7, <2>2, <2>4, <2>5 DEF DatagramOK, Over, Success
<1>9. /\ \A x \in requests' : RequestOK(x)'
      /\ \A x \in inbox : DatagramOK(x)'
    BY <1>1 DEF CallsOK, RequestOK, DatagramOK, Over, Success
<1>10. /\ \A x, y \in requests' : x.src = y.src /\ x.call = y.call => x = y
       /\ \A x \in requests', y \in inbox' : x.src = y.to => x.call # y.call
    BY <1>1, <1>4, <1>5 DEF CallsOK
<1>11. \A x, y \in inbox' : x.to = y.to /\ x.call = y.call /\ x.call # 0 => x = y
    BY <1>1, <1>4, <1>5 DEF CallsOK
<1>12. CallsOK'
    BY <1>1, <1>4, <1>8, <1>9, <1>10, <1>11 DEF CallsOK
<1>13. NilMeansRegistered'
    BY <1>1 DEF NilMeansRegistered
<1> QED BY <1>12, <1>13

\* Other: datagrams of others, and of the BBMD that are no results.
LEMMA OtherCalls ==
    ASSUME CallsOK, NilMeansRegistered, Other
    PROVE  CallsOK' /\ NilMeansRegistered'
<1>1. PICK n \in Noise :
        inbox' = inbox \cup {[to |-> n.to, from |-> n.from, data |-> n.data, call |-> 0]}
    BY DEF Other
<1>2. UNCHANGED <<dev, requests, granted, failed>>
    BY DEF Other
<1> DEFINE new == [to |-> n.to, from |-> n.from, data |-> n.data, call |-> 0]
<1>3. new.to = n.to /\ new.from = n.from /\ new.data = n.data /\ new.call = 0
    OBVIOUS
<1>4. inbox' = inbox \cup {new}
    BY <1>1
<1> HIDE DEF new
<1>5. n.to \in Devices /\ (n.from = Bbmd => BVLCResultDecode(n.data) = {})
    BY NoiseAssumption
<1>6. dev[n.to].calls \in Nat
    BY <1>5 DEF CallsOK
<1>7. 0 \in 0 .. dev[n.to].calls
    BY <1>6
<1>8. DatagramOK(new)'
    BY <1>2, <1>3, <1>5, <1>7 DEF DatagramOK
<1>9. /\ \A x \in requests' : RequestOK(x)'
      /\ \A x \in inbox : DatagramOK(x)'
    BY <1>2 DEF CallsOK, RequestOK, DatagramOK, Over, Success
<1>10. \A x \in requests', y \in inbox' : x.src = y.to => x.call # y.call
  <2>1. \A x \in requests : x.src = n.to => x.call # 0
    BY <1>6 DEF CallsOK, RequestOK
  <2> QED BY <1>2, <1>3, <1>4, <2>1 DEF CallsOK
<1>11. \A x, y \in inbox' : x.to = y.to /\ x.call = y.call /\ x.call # 0 => x = y
    BY <1>3, <1>4 DEF CallsOK
<1>12. CallsOK'
    BY <1>2, <1>4, <1>8, <1>9, <1>10, <1>11 DEF CallsOK
<1> QED BY <1>2, <1>12 DEF NilMeansRegistered

-----------------------------------------------------------------------------
(* Theorems *)

IInv == TablesOK /\ CallsOK /\ NilMeansRegistered

\* A request that is served registers its device for the time it asked for.
LEMMA ServeTables ==
    ASSUME IInv, Serve
    PROVE  TablesOK'
<1>1. PICK q \in requests : \E src \in Seen[q.src] : \E req \in RegisterDecode(q.data) :
        HandleRegisterForeignDevice(src, req)
    BY DEF Serve
<1>2. PICK src \in Seen[q.src] : \E req \in RegisterDecode(q.data) :
        HandleRegisterForeignDevice(src, req)
    BY <1>1
<1>3. PICK req \in RegisterDecode(q.data) : HandleRegisterForeignDevice(src, req)
    BY <1>2
<1>4. q.src \in Devices /\ \E m \in NewRegister(Ttl[q.src]) : q.data \in RegisterEncode(m)
    BY DEF IInv, CallsOK, RequestOK
<1>5. Ttl[q.src] \in 1 .. MaxUint16
    BY <1>4, TtlAssumption
<1>6. req.ttl \in 1 .. MaxUint16
  <2>1. PICK m, data : /\ NewRegister(Ttl[q.src]) = {m} /\ RegisterEncode(m) = {data}
                       /\ RegisterDecode(data) = {m} /\ m.ttl = Ttl[q.src]
    BY <1>5, RegisterBack
  <2>2. q.data = data
    BY <1>4, <2>1
  <2>3. req = m
    BY <2>1, <2>2
  <2> QED BY <1>5, <2>1, <2>3
<1>7. src \in Places
    BY <1>4 DEF Places
<1>8. CASE RegisterCode(src) = CodeSuccess
    BY <1>3, <1>6, <1>7, <1>8, RegisterTables DEF HandleRegisterForeignDevice, IInv
<1>9. CASE RegisterCode(src) # CodeSuccess
    BY <1>3, <1>9 DEF HandleRegisterForeignDevice, IInv, TablesOK
<1> QED BY <1>8, <1>9

\* The inductive invariant holds.
THEOREM Invariance == Spec => []IInv
<1>1. Init => IInv
    BY DEF Init, TablesInit, IInv, TablesOK, CallsOK, NilMeansRegistered
<1>2. IInv /\ [Next]_vars => IInv'
  <2> SUFFICES ASSUME IInv, [Next]_vars PROVE IInv'
    OBVIOUS
  <2>0. TablesOK /\ CallsOK /\ NilMeansRegistered
    BY DEF IInv
  <2>1. UNCHANGED <<fdt, lease>> => TablesOK'
    BY <2>0 DEF TablesOK
  <2>2. UNCHANGED devices => CallsOK' /\ NilMeansRegistered'
    BY <2>0, FewerDatagrams DEF devices
  <2>3. ASSUME NEW d \in Devices, RegisterAsForeignDevice(d) PROVE IInv'
    BY <2>0, <2>1, <2>3, RegisterCalls DEF IInv, RegisterAsForeignDevice
  <2>4. ASSUME NEW d \in Devices, Read(d) PROVE IInv'
    BY <2>0, <2>1, <2>4, ReadCalls DEF IInv, Read
  <2>5. ASSUME NEW d \in Devices, ReadFails(d) PROVE IInv'
    BY <2>0, <2>1, <2>5, ReturnCalls DEF IInv, ReadFails
  <2>6. CASE Serve
    BY <2>0, <2>6, ServeTables, ServeCalls DEF IInv
  <2>7. CASE Other
    BY <2>0, <2>1, <2>7, OtherCalls DEF IInv, Other
  <2>8. CASE Lose
    <3>1. requests' \subseteq requests /\ inbox' \subseteq inbox
      BY <2>8 DEF Lose
    <3> QED BY <2>0, <2>1, <2>8, <3>1, FewerDatagrams DEF IInv, Lose
  <2>9. CASE AdminDelete
    <3>1. PICK a : fdt' = Without(fdt, a) /\ lease' = Without(lease, a)
      BY <2>9 DEF AdminDelete, HandleDeleteForeignDeviceTableEntry
    <3> QED BY <2>0, <2>2, <2>9, <3>1, DeleteTables DEF IInv, AdminDelete
  <2>10. CASE AdminPurge
    BY <2>0, <2>2, <2>10, PurgeTables DEF IInv, AdminPurge, PurgeFDT
  <2>11. CASE AdminBuild \/ AdminWrite \/ AdminReadBDT
    <3>1. UNCHANGED <<fdt, lease>>
      BY <2>11 DEF AdminBuild, BuildFDT, AdminWrite, HandleWriteBroadcastDistributionTable,
         AdminReadBDT, HandleReadBroadcastDistributionTable
    <3> QED BY <2>1, <2>2, <2>11, <3>1 DEF IInv, AdminBuild, AdminWrite, AdminReadBDT
  <2>12. CASE Clock
    <3>1. PICK j \in Jumps :
            /\ fdt' = {[e EXCEPT !.left = IF @ > j THEN @ - j ELSE 0] : e \in fdt}
            /\ lease' = {[e EXCEPT !.age = @ + j] : e \in lease}
      BY <2>12 DEF Clock, Tick
    <3>2. j \in Nat
      BY JumpsAssumption
    <3> QED BY <2>0, <2>2, <2>12, <3>1, <3>2, TickTables DEF IInv, Clock
  <2>13. CASE UNCHANGED vars
    BY <2>1, <2>2, <2>13 DEF IInv, vars, devices
  <2> QED BY <2>3, <2>4, <2>5, <2>6, <2>7, <2>8, <2>9, <2>10, <2>11, <2>12, <2>13 DEF Next
<1> QED BY <1>1, <1>2, PTL DEF Spec

\* The foreign device table forgets no device whose lease runs and keeps no
\* entry without a lease, whatever is registered, deleted and purged when
\* (fdt of bbmdImpl, gracePeriod, purgeExpired).
THEOREM TableKeepsLeases == Spec => []TableMatchesLeases
<1>1. IInv => TableMatchesLeases
    BY TablesMatch DEF IInv
<1> QED BY Invariance, <1>1, PTL

\* RegisterAsForeignDevice returns nil only to a device the BBMD registered
\* during the call, unless an earlier call of the device gave up waiting.
THEOREM NilOnlyIfRegistered == Spec => []NilMeansRegistered
<1>1. IInv => NilMeansRegistered
    BY DEF IInv
<1> QED BY Invariance, <1>1, PTL

-----------------------------------------------------------------------------
(* What the answers to reads say *)

\* The half seconds left of a lease, in whole seconds.
LEMMA WholeSeconds ==
    ASSUME NEW u \in Nat, NEW g \in Nat, NEW f \in Nat,
           2 * u - g > 0 => f = 2 * u - g, ~(2 * u - g > 0) => f = 0
    PROVE  /\ f <= 2 * u /\ f \div 2 \in Nat /\ f \div 2 <= u
           /\ f \div 2 = IF 2 * u - g > 0 THEN (2 * u - g) \div 2 ELSE 0
<1>1. CASE f = 0
  <2>1. ~(2 * u - g > 0) /\ f \div 2 = 0
    BY <1>1
  <2> QED BY <1>1, <2>1
<1>2. CASE f # 0
  <2>1. f = 2 * u - g /\ 2 * u - g > 0
    BY <1>2
  <2>2. f <= 2 * u
    BY <2>1
  <2> QED BY <2>1, <2>2
<1> QED BY <1>1, <1>2

\* An entry of the table as it is listed: it can be encoded, and says what its
\* lease says.
LEMMA WireEntry ==
    ASSUME TablesOK, NEW e \in fdt, Is4(e.address)
    PROVE  /\ toWireFdtEntry(e) \in FdtWire /\ FdtEntryValid(toWireFdtEntry(e))
           /\ toWireFdtEntry(e).address = e.address
           /\ \E l \in lease :
                /\ e.address = l.address /\ toWireFdtEntry(e).registeredTtl = l.ttl
                /\ toWireFdtEntry(e).remainingTtl = IF Until(l) > 0 THEN Until(l) \div 2 ELSE 0
<1>1. PICK l \in lease : l.address = e.address /\ l.ttl = e.ttl /\ e.left = Left(l)
    BY DEF TablesOK
<1>2. e \in Entry
    BY DEF TablesOK
<1>3. PICK a \in Places, t \in 1 .. MaxUint16, f \in Nat : e.address = a /\ e.ttl = t /\ e.left = f
    BY <1>2 DEF Entry
<1>4. a \in AddrPort
    BY SeenAssumption DEF Places
<1>5. PICK g \in Nat : l.age = g
    BY LeaseNumbers
<1>6. PICK u : u = Smaller(t + GracePeriod, MaxUint16)
    OBVIOUS
<1>7. u \in Nat /\ u <= MaxUint16 /\ u = IF t + 30 > 65535 THEN 65535 ELSE t + 30
    BY <1>6 DEF Smaller, GracePeriod, MaxUint16
<1>8. Until(l) = 2 * u - g
  <2>1. l.ttl = t
    BY <1>1, <1>3
  <2> QED BY <1>5, <1>7, <2>1 DEF Until
<1>9. (2 * u - g > 0 => f = 2 * u - g) /\ (~(2 * u - g > 0) => f = 0)
  <2>1. f = Left(l)
    BY <1>1, <1>3
  <2> QED BY <1>8, <2>1, Zenon DEF Left
<1>10. u \in Nat /\ u <= MaxUint16
    BY <1>7
<1>11. /\ f <= 2 * u /\ f \div 2 \in Nat /\ f \div 2 <= u
       /\ f \div 2 = IF 2 * u - g > 0 THEN (2 * u - g) \div 2 ELSE 0
    BY <1>9, <1>10, WholeSeconds
<1> DEFINE r == f \div 2
<1>12. r \in Nat /\ r <= u /\ f <= 2 * u
    BY <1>11
<1>13. remainingTTL(e) = r
  <2>1. MaxUint16 \in Nat
    BY DEF MaxUint16
  <2>2. ~(f > 2 * MaxUint16) /\ (f <= 0 => f \div 2 = 0)
    BY <1>10, <1>12, <2>1
  <2> QED BY <1>3, <2>2, Zenon DEF remainingTTL
<1> DEFINE w == toWireFdtEntry(e)
<1> HIDE DEF r
<1>14. w = [address |-> a, registeredTtl |-> t, remainingTtl |-> r]
    BY <1>3, <1>13, Zenon DEF toWireFdtEntry
<1>15. w.address = a /\ w.registeredTtl = t /\ w.remainingTtl = r
    BY <1>14
<1>16. r \in 0 .. MaxUint16 /\ t \in 0 .. MaxUint16 /\ t > 0
  <2>1. MaxUint16 \in Nat
    BY DEF MaxUint16
  <2> QED BY <1>10, <1>12, <2>1
<1>17. w \in FdtWire
    BY <1>4, <1>14, <1>16 DEF FdtWire
<1> HIDE DEF w
<1>18. FdtEntryValid(w)
  <2>1. Is4(a)
    BY <1>3
  <2> QED BY <1>6, <1>12, <1>15, <1>16, <2>1, Zenon DEF FdtEntryValid
<1>19. r = IF Until(l) > 0 THEN Until(l) \div 2 ELSE 0
    BY <1>8, <1>11, Zenon DEF r
<1>20. w.address = e.address /\ e.address = l.address /\ w.registeredTtl = l.ttl
    BY <1>1, <1>3, <1>15, Zenon
<1> QED BY <1>15, <1>17, <1>18, <1>19, <1>20, Zenon DEF w

\* What the answer to a read must say, given the devices with a lease when the
\* read began.
ListsLeases(entries, present) ==
    LET Listed == {entries[i] : i \in DOMAIN entries}
    IN  /\ Cardinality({e.address : e \in Listed}) = Len(entries)
        /\ \A l \in lease : Until(l) > 0 => \E e \in Listed : e.address = l.address
        /\ \A e \in Listed : e.address \in present
        /\ \A e \in Listed : \E l \in lease :
              /\ e.address = l.address /\ e.registeredTtl = l.ttl
              /\ e.remainingTtl = IF Until(l) > 0 THEN Until(l) \div 2 ELSE 0

\* The tables are short enough for a datagram: their lists of 10 octets per
\* entry, with a header of 4, have a length of 16 bits.
TablesFit ==
    /\ \A t \in Tables : Short(t)
    /\ \A w \in WriteRequests : Short(w.entries)
    /\ IsFiniteSet(Places) /\ Cardinality(Places) <= 6553

\* The table has at most one entry per address.
LEMMA TableSize ==
    ASSUME TablesOK, TablesFit
    PROVE  /\ IsFiniteSet(fdt) /\ Cardinality(fdt) \in Nat /\ Cardinality(fdt) <= 6553
           /\ Cardinality({e.address : e \in fdt}) = Cardinality(fdt)
<1> DEFINE A == {e.address : e \in fdt}
           g == [e \in fdt |-> e.address]
<1>1. g \in [fdt -> A] /\ \A x, y \in fdt : g[x] = g[y] => x = y
    BY DEF TablesOK
<1>2. \A a \in A : \E x \in fdt : g[x] = a
    OBVIOUS
<1>3. A \subseteq Places
    BY DEF TablesOK, Entry
<1> HIDE DEF g, A
<1>4. g \in Injection(fdt, A)
    BY <1>1, Fun_IsInj
<1>5. g \in Surjection(fdt, A)
    BY <1>1, <1>2, Fun_IsSurj
<1>6. IsFiniteSet(A) /\ Cardinality(A) <= Cardinality(Places) /\ Cardinality(Places) \in Nat
    BY <1>3, FS_Subset, FS_CardinalityType DEF TablesFit
<1>7. IsFiniteSet(fdt) /\ Cardinality(fdt) = Cardinality(A)
    BY <1>4, <1>5, <1>6, FS_Injection
<1>8. Cardinality(fdt) \in Nat
    BY <1>7, FS_CardinalityType
<1> QED BY <1>6, <1>7, <1>8 DEF TablesFit, A

\* The answer to a read of the foreign device table.
LEMMA FdtAnswer ==
    ASSUME TablesOK, TablesFit, \A e \in fdt : Is4(e.address) /\ e.address \in live,
           NEW s \in Orders(fdt)
    PROVE  \E m, d :
              /\ NewReadFDTAck([i \in DOMAIN s |-> toWireFdtEntry(s[i])]) = {m}
              /\ ReadFDTAckEncode(m) = {d} /\ m \in ReadFDTAckDecode(d)
              /\ ListsLeases(m.entries, live)
<1> DEFINE N == Cardinality(fdt)
           wire == [i \in DOMAIN s |-> toWireFdtEntry(s[i])]
<1>1. IsFiniteSet(fdt) /\ N \in Nat /\ N <= 6553 /\ Cardinality({e.address : e \in fdt}) = N
    BY TableSize
<1>2. s \in [1 .. N -> fdt] /\ DOMAIN s = 1 .. N /\ \A i, j \in 1 .. N : s[i] = s[j] => i = j
    BY DEF Orders
<1>3. \A e \in fdt : \E i \in 1 .. N : s[i] = e
  <2>1. s \in Injection(1 .. N, fdt)
    BY <1>2, Fun_IsInj
  <2>2. IsFiniteSet(1 .. N) /\ Cardinality(1 .. N) = N
    <3> HIDE DEF N
    <3> QED BY <1>1, FS_Interval
  <2>3. s \in Surjection(1 .. N, fdt)
    BY <1>1, <2>1, <2>2, FS_Injection
  <2> QED BY <2>3 DEF Surjection
<1> HIDE DEF N
<1>4. \A i \in 1 .. N : s[i] \in fdt /\ wire[i] = toWireFdtEntry(s[i])
    BY <1>2
<1>5. \A i \in 1 .. N : wire[i] \in FdtWire /\ FdtEntryValid(wire[i])
    BY <1>4, WireEntry
<1>6. wire \in [1 .. N -> FdtWire] /\ DOMAIN wire = 1 .. N
    BY <1>2, <1>5
<1> HIDE DEF wire
<1>7. wire \in Seq(FdtWire) /\ Len(wire) = N
    BY <1>1, <1>6
<1>8. FdtEntryListValid(wire) /\ Short(wire)
    BY <1>1, <1>5, <1>6, <1>7 DEF FdtEntryListValid, Short
<1>9. PICK m, d : /\ NewReadFDTAck(wire) = {m} /\ ReadFDTAckEncode(m) = {d}
                  /\ ReadFDTAckDecode(d) = {m} /\ m.entries = wire
    BY <1>7, <1>8, FdtAckBack
<1> DEFINE Listed == {wire[i] : i \in DOMAIN wire}
<1>10. Listed = {toWireFdtEntry(e) : e \in fdt}
    BY <1>3, <1>4, <1>6
<1>11. \A e \in fdt : toWireFdtEntry(e) \in Listed /\ toWireFdtEntry(e).address = e.address
    BY <1>10, WireEntry
<1>12. \A w \in Listed : \E e \in fdt : w = toWireFdtEntry(e)
    BY <1>10
<1> HIDE DEF Listed
<1>13. {w.address : w \in Listed} = {e.address : e \in fdt}
    BY <1>11, <1>12
<1>14. \A l \in lease : Until(l) > 0 => \E w \in Listed : w.address = l.address
    BY <1>11 DEF TablesOK
<1>15. \A w \in Listed : w.address \in live
    BY <1>11, <1>12
<1>16. ASSUME NEW w \in Listed
       PROVE  \E l \in lease :
                /\ w.address = l.address /\ w.registeredTtl = l.ttl
                /\ w.remainingTtl = IF Until(l) > 0 THEN Until(l) \div 2 ELSE 0
  <2>1. PICK e \in fdt : w = toWireFdtEntry(e)
    BY <1>12, <1>16
  <2>2. PICK l \in lease :
                /\ e.address = l.address /\ toWireFdtEntry(e).registeredTtl = l.ttl
                /\ toWireFdtEntry(e).remainingTtl = IF Until(l) > 0 THEN Until(l) \div 2 ELSE 0
    BY WireEntry
  <2>3. w.address = l.address
    BY <1>11, <2>1, <2>2
  <2> QED BY <2>1, <2>2, <2>3
<1>17. Cardinality({w.address : w \in Listed}) = Len(wire)
  <2>1. Cardinality({e.address : e \in fdt}) = N
    BY <1>1
  <2>2. Len(wire) = N
    BY <1>7
  <2> QED BY <1>13, <2>1, <2>2, Zenon
<1>18. ListsLeases(wire, live)
    BY <1>14, <1>15, <1>16, <1>17, Zenon DEF ListsLeases, Listed
<1> QED BY <1>9, <1>18 DEF wire

\* What makes the answers exact: the broadcast table is the one written last and
\* can be encoded, and a table that is being read holds only entries with a lease
\* that ran when the read began.
ReadsOK ==
    /\ written = bdt
    /\ bdt \in Seq(BdtEntries) /\ BdtEntryListValid(bdt) /\ Short(bdt)
    /\ \A e \in fdt : Is4(e.address)
    /\ reading => \A e \in fdt : e.address \in live

\* A purged entry had a lease that runs.
LEMMA PurgeReads ==
    ASSUME TablesOK, ReadsOK, PurgeFDT
    PROVE  ReadsOK'
<1>1. ASSUME NEW e \in fdt'
      PROVE  e \in fdt /\ e.address \in live'
  <2>1. e \in fdt /\ ~expired(e)
    BY <1>1 DEF PurgeFDT, purgeExpired
  <2>2. PICK l \in lease : l.address = e.address /\ e.left = Left(l)
    BY <2>1 DEF TablesOK
  <2>3. Until(l) > 0
    BY <2>1, <2>2 DEF expired, Left
  <2> QED BY <2>1, <2>2, <2>3 DEF PurgeFDT
<1> QED BY <1>1 DEF ReadsOK, PurgeFDT

\* The clock changes no address.
LEMMA TickReads ==
    ASSUME TablesOK, ReadsOK, Tick
    PROVE  ReadsOK'
<1>1. PICK j \in Jumps : fdt' = {[e EXCEPT !.left = IF @ > j THEN @ - j ELSE 0] : e \in fdt}
    BY DEF Tick
<1>2. ASSUME NEW f \in fdt' PROVE \E e \in fdt : f.address = e.address
  <2>1. PICK e \in fdt : f = [e EXCEPT !.left = IF @ > j THEN @ - j ELSE 0]
    BY <1>1, <1>2
  <2>2. e \in Entry
    BY DEF TablesOK
  <2> QED BY <2>1, <2>2 DEF Entry
<1>3. UNCHANGED <<bdt, reading, live, written>>
    BY DEF Tick
<1> QED BY <1>2, <1>3 DEF ReadsOK

\* Registrations, deletions and writes keep the tables readable.
LEMMA HandlersRead ==
    ASSUME ReadsOK, TablesFit
    PROVE  /\ \A src, req : HandleRegisterForeignDevice(src, req) => ReadsOK'
           /\ \A req : HandleDeleteForeignDeviceTableEntry(req) => ReadsOK'
           /\ \A req \in WriteRequests : HandleWriteBroadcastDistributionTable(req) => ReadsOK'
<1>1. ASSUME NEW src, NEW req, HandleRegisterForeignDevice(src, req) PROVE ReadsOK'
  <2>1. ~reading /\ UNCHANGED <<bdt, reading, live, written>>
    BY <1>1 DEF HandleRegisterForeignDevice
  <2>2. CASE RegisterCode(src) = CodeSuccess
    <3>1. Is4(src)
      BY <2>2 DEF RegisterCode, CodeSuccess, CodeRegisterNak
    <3>2. PICK x : x.address = src /\ fdt' = Without(fdt, src) \cup {x}
      BY <1>1, <2>2 DEF HandleRegisterForeignDevice
    <3> QED BY <2>1, <3>1, <3>2 DEF ReadsOK, Without
  <2>3. CASE RegisterCode(src) # CodeSuccess
    <3>1. UNCHANGED fdt
      BY <1>1, <2>3 DEF HandleRegisterForeignDevice
    <3> QED BY <2>1, <3>1 DEF ReadsOK
  <2> QED BY <2>2, <2>3
<1>2. ASSUME NEW req, HandleDeleteForeignDeviceTableEntry(req) PROVE ReadsOK'
    BY <1>2 DEF HandleDeleteForeignDeviceTableEntry, ReadsOK, Without
<1>3. ASSUME NEW req \in WriteRequests, HandleWriteBroadcastDistributionTable(req)
      PROVE  ReadsOK'
  <2>1. UNCHANGED <<fdt, reading, live>>
    BY <1>3 DEF HandleWriteBroadcastDistributionTable
  <2>2. CASE WriteBDTValid(req)
    <3>1. bdt' = req.entries /\ written' = req.entries
      BY <1>3, <2>2 DEF HandleWriteBroadcastDistributionTable, WriteCode
    <3>2. req.entries \in Seq(BdtEntries) /\ Short(req.entries)
      BY WriteRequestsAssumption DEF TablesFit
    <3>3. BdtEntryListValid(req.entries)
      BY <2>2 DEF WriteBDTValid
    <3> QED BY <2>1, <3>1, <3>2, <3>3 DEF ReadsOK
  <2>3. CASE ~WriteBDTValid(req)
    <3>1. UNCHANGED <<bdt, written>>
      BY <1>3, <2>3 DEF HandleWriteBroadcastDistributionTable, WriteCode, CodeSuccess, CodeWriteBDTNak
    <3> QED BY <2>1, <3>1 DEF ReadsOK
  <2> QED BY <2>2, <2>3
<1> QED BY <1>1, <1>2, <1>3

\* The answers of a step are exact.
LEMMA AnswersRight ==
    ASSUME TablesOK, ReadsOK, TablesFit
    PROVE  /\ BuildFDT => TableReads'
           /\ HandleReadBroadcastDistributionTable => TableReads'
<1>1. ASSUME BuildFDT PROVE TableReads'
  <2>1. PICK s \in Orders(fdt) :
        ack' = {[kind |-> "fdt", live |-> live,
                 octets |-> UNION {ReadFDTAckEncode(m) :
                        m \in NewReadFDTAck([i \in DOMAIN s |-> toWireFdtEntry(s[i])])}]}
    BY <1>1 DEF BuildFDT
  <2>2. \A e \in fdt : Is4(e.address) /\ e.address \in live
    BY <1>1 DEF ReadsOK, BuildFDT
  <2>3. PICK m, d :
              /\ NewReadFDTAck([i \in DOMAIN s |-> toWireFdtEntry(s[i])]) = {m}
              /\ ReadFDTAckEncode(m) = {d} /\ m \in ReadFDTAckDecode(d)
              /\ ListsLeases(m.entries, live)
    BY <2>2, FdtAnswer
  <2>4. PICK a : ack' = {a} /\ a.kind = "fdt" /\ a.live = live /\ a.octets = {d}
    <3> DEFINE All(S) == UNION {ReadFDTAckEncode(x) : x \in S}
               answers == NewReadFDTAck([i \in DOMAIN s |-> toWireFdtEntry(s[i])])
    <3>1. All(answers) = {d}
      <4>1. answers = {m}
        BY <2>3
      <4>2. {ReadFDTAckEncode(x) : x \in {m}} = {{d}}
        BY <2>3
      <4>3. UNION {{d}} = {d}
        OBVIOUS
      <4>4. All({m}) = {d}
        BY <4>2, <4>3, Zenon
      <4> HIDE DEF All, answers
      <4> QED BY <4>1, <4>4, Zenon
    <3> DEFINE w == [kind |-> "fdt", live |-> live, octets |-> {d}]
    <3>2. ack' = {w}
      BY <2>1, <3>1, Zenon
    <3>3. w.kind = "fdt" /\ w.live = live /\ w.octets = {d}
      OBVIOUS
    <3> HIDE DEF w
    <3> QED BY <3>2, <3>3
  <2>5. lease' = lease
    BY <1>1 DEF BuildFDT
  <2>6. FDTAnswersExact'
    <3> SUFFICES ASSUME NEW b \in ack', b.kind = "fdt"
                 PROVE  \E x \in b.octets : \E y \in ReadFDTAckDecode(x) : ListsLeases(y.entries, b.live)'
      BY Zenon DEF FDTAnswersExact, ListsLeases
    <3>1. b = a /\ d \in b.octets /\ b.live = live
      BY <2>4
    <3>2. ListsLeases(m.entries, b.live)'
      BY <2>3, <2>5, <3>1 DEF ListsLeases, Until
    <3> QED BY <2>3, <3>1, <3>2
  <2>7. BDTAnswersExact'
    BY <2>4 DEF BDTAnswersExact
  <2> QED BY <2>6, <2>7 DEF TableReads
<1>2. ASSUME HandleReadBroadcastDistributionTable PROVE TableReads'
  <2>1. PICK m, d : /\ NewReadBDTAck(bdt) = {m} /\ ReadBDTAckEncode(m) = {d}
                    /\ ReadBDTAckDecode(d) = {m} /\ m.entries = bdt
    BY BdtAckBack DEF ReadsOK
  <2>2. PICK a : ack' = {a} /\ a.kind = "bdt" /\ a.octets = {d}
    <3> DEFINE All(S) == UNION {ReadBDTAckEncode(x) : x \in S}
               answers == NewReadBDTAck(bdt)
    <3>1. All(answers) = {d}
      <4>1. answers = {m}
        BY <2>1
      <4>2. {ReadBDTAckEncode(x) : x \in {m}} = {{d}}
        BY <2>1
      <4>3. UNION {{d}} = {d}
        OBVIOUS
      <4>4. All({m}) = {d}
        BY <4>2, <4>3, Zenon
      <4> HIDE DEF All, answers
      <4> QED BY <4>1, <4>4, Zenon
    <3> DEFINE w == [kind |-> "bdt", octets |-> {d}]
    <3>2. ack' = {w}
      BY <1>2, <3>1, Zenon DEF HandleReadBroadcastDistributionTable
    <3>3. w.kind = "bdt" /\ w.octets = {d}
      OBVIOUS
    <3> HIDE DEF w
    <3> QED BY <3>2, <3>3
  <2>3. written' = bdt
    BY <1>2 DEF HandleReadBroadcastDistributionTable, ReadsOK
  <2>4. FDTAnswersExact' /\ BDTAnswersExact'
    BY <2>1, <2>2, <2>3 DEF FDTAnswersExact, BDTAnswersExact
  <2> QED BY <2>4 DEF TableReads
<1> QED BY <1>1, <1>2

\* An administrator is told exactly what the tables hold: every read of the
\* foreign device table or the broadcast distribution table is answered with
\* octets that decode to it, as long as the tables fit into a datagram
\* (HandleReadForeignDeviceTable, HandleReadBroadcastDistributionTable).
THEOREM ReadsAreExact ==
    ASSUME TablesFit
    PROVE  Spec => []TableReads
<1> DEFINE J == ReadsOK /\ TableReads
<1>1. Init => J
  <2> SUFFICES ASSUME Init PROVE J
    OBVIOUS
  <2>1. PICK t \in Tables : bdt \in NewBBMD(t)
    BY DEF Init, TablesInit
  <2>2. bdt = t /\ BdtEntryListValid(t)
    BY <2>1 DEF NewBBMD, When, BdtEntryListValid
  <2>3. bdt \in Seq(BdtEntries) /\ Short(bdt)
    BY <2>2, TablesAssumption DEF TablesFit
  <2>4. fdt = {} /\ ack = {} /\ written = bdt
    BY DEF Init, TablesInit
  <2> QED BY <2>2, <2>3, <2>4 DEF ReadsOK, TableReads, FDTAnswersExact, BDTAnswersExact
<1>2. IInv /\ J /\ [Next]_vars => J'
  <2> SUFFICES ASSUME IInv, J, [Next]_vars PROVE J'
    OBVIOUS
  <2>0. TablesOK /\ ReadsOK /\ TableReads
    BY DEF IInv
  <2>1. ack' = {} => TableReads'
    BY DEF TableReads, FDTAnswersExact, BDTAnswersExact
  <2>2. UNCHANGED <<bdt, fdt, reading, live, written>> => ReadsOK'
    BY <2>0 DEF ReadsOK
  <2>3. ASSUME NEW d \in Devices, RegisterAsForeignDevice(d) PROVE J'
    BY <2>1, <2>2, <2>3 DEF RegisterAsForeignDevice
  <2>4. ASSUME NEW d \in Devices, Read(d) \/ ReadFails(d) PROVE J'
    BY <2>1, <2>2, <2>4 DEF Read, ReadFails
  <2>5. CASE Serve
    <3>1. PICK src, req : HandleRegisterForeignDevice(src, req)
      BY <2>5 DEF Serve
    <3>2. ack' = {}
      BY <3>1 DEF HandleRegisterForeignDevice
    <3> QED BY <2>0, <2>1, <3>1, <3>2, HandlersRead
  <2>6. CASE Other \/ Lose
    BY <2>1, <2>2, <2>6 DEF Other, Lose
  <2>7. CASE AdminDelete
    <3>1. PICK req : HandleDeleteForeignDeviceTableEntry(req)
      BY <2>7 DEF AdminDelete
    <3>2. ack' = {}
      BY <3>1 DEF HandleDeleteForeignDeviceTableEntry
    <3> QED BY <2>0, <2>1, <3>1, <3>2, HandlersRead
  <2>8. CASE AdminPurge
    <3>1. PurgeFDT /\ ack' = {}
      BY <2>8 DEF AdminPurge, PurgeFDT
    <3> QED BY <2>0, <2>1, <3>1, PurgeReads
  <2>9. CASE AdminBuild
    <3>1. BuildFDT /\ UNCHANGED <<bdt, fdt, written>> /\ reading' = FALSE
      BY <2>9 DEF AdminBuild, BuildFDT
    <3>2. ReadsOK'
      BY <2>0, <3>1 DEF ReadsOK
    <3> QED BY <2>0, <3>1, <3>2, AnswersRight
  <2>10. CASE AdminWrite
    <3>1. PICK req \in WriteRequests : HandleWriteBroadcastDistributionTable(req)
      BY <2>10 DEF AdminWrite
    <3>2. ack' = {}
      BY <3>1 DEF HandleWriteBroadcastDistributionTable
    <3> QED BY <2>0, <2>1, <3>1, <3>2, HandlersRead
  <2>11. CASE AdminReadBDT
    <3>1. HandleReadBroadcastDistributionTable
      BY <2>11 DEF AdminReadBDT
    <3>2. ReadsOK'
      BY <2>2, <3>1 DEF HandleReadBroadcastDistributionTable
    <3> QED BY <2>0, <3>1, <3>2, AnswersRight
  <2>12. CASE Clock
    <3>1. Tick /\ ack' = {}
      BY <2>12 DEF Clock, Tick
    <3> QED BY <2>0, <2>1, <3>1, TickReads
  <2>13. CASE UNCHANGED vars
    <3>1. UNCHANGED <<bdt, fdt, reading, live, written>> /\ UNCHANGED <<ack, lease>>
      BY <2>13 DEF vars
    <3>2. TableReads'
      <4>1. FDTAnswersExact'
        <5> SUFFICES ASSUME NEW b \in ack', b.kind = "fdt"
                     PROVE  \E x \in b.octets : \E y \in ReadFDTAckDecode(x) :
                                ListsLeases(y.entries, b.live)'
          BY Zenon DEF FDTAnswersExact, ListsLeases
        <5>1. b \in ack
          BY <3>1
        <5>2. PICK x \in b.octets : \E y \in ReadFDTAckDecode(x) : ListsLeases(y.entries, b.live)
          BY <2>0, <5>1, Zenon DEF TableReads, FDTAnswersExact, ListsLeases
        <5>3. PICK y \in ReadFDTAckDecode(x) : ListsLeases(y.entries, b.live)
          BY <5>2
        <5>4. ListsLeases(y.entries, b.live)'
          BY <3>1, <5>3 DEF ListsLeases, Until
        <5> QED BY <5>3, <5>4
      <4>2. BDTAnswersExact'
        BY <2>0, <2>13 DEF TableReads, BDTAnswersExact, vars
      <4> QED BY <4>1, <4>2 DEF TableReads
    <3> QED BY <2>2, <3>1, <3>2
  <2> QED BY <2>3, <2>4, <2>5, <2>6, <2>7, <2>8, <2>9, <2>10, <2>11, <2>12, <2>13 DEF Next
<1>3. J => TableReads
    OBVIOUS
<1> QED BY <1>1, <1>2, <1>3, Invariance, PTL DEF Spec

=============================================================================
