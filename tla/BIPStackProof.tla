---------------------------- MODULE BIPStackProof -----------------------------
(***************************************************************************)
(* What holds of the BACnet/IP stack for every set of letters, messages,   *)
(* replies and malformed octets: the octets of every layer say what they   *)
(* were meant to say (frame, NPDU, APDU, network-layer message), and the   *)
(* receive loop hands it up as meant.  The first sections are about the    *)
(* codecs alone; LoopInv is the inductive invariant of the receive loop.   *)
(***************************************************************************)
EXTENDS BIPStack, SequenceTheorems, NaturalsInduction, WellFoundedInduction, TLAPS

-----------------------------------------------------------------------------
(***************************************************************************)
(* Octet strings: pieces, concatenation and 16-bit fields.                 *)
(***************************************************************************)

Octets == Seq(Octet)

\* An octet string of two parts.
LEMMA Concatenation ==
    ASSUME NEW s \in Octets, NEW t \in Octets
    PROVE  /\ s \o t \in Octets /\ Len(s \o t) = Len(s) + Len(t)
           /\ \A i \in 1 .. Len(s) : (s \o t)[i] = s[i]
           /\ \A i \in 1 .. Len(t) : (s \o t)[Len(s) + i] = t[i]
<1> USE DEF Octets, Octet
<1> QED BY ConcatProperties

\* Two octet strings with the same octets.
LEMMA SameOctets ==
    ASSUME NEW s \in Octets, NEW t \in Octets, Len(s) = Len(t),
           \A i \in 1 .. Len(s) : s[i] = t[i]
    PROVE  s = t
BY SeqEqual DEF Octets

\* A piece of an octet string.
LEMMA PieceOctets ==
    ASSUME NEW d \in Octets, NEW a \in Nat, NEW b \in Nat, a <= b, b <= Len(d)
    PROVE  /\ SubSeq(d, a + 1, b) \in Octets /\ Len(SubSeq(d, a + 1, b)) = b - a
           /\ \A i \in 1 .. b - a : SubSeq(d, a + 1, b)[i] = d[a + i]
<1>1. a + 1 \in 1 .. Len(d) + 1 /\ b \in a + 1 - 1 .. Len(d) /\ Len(d) \in Nat
    BY DEF Octets
<1>2. /\ SubSeq(d, a + 1, b) \in Seq(Octet) /\ Len(SubSeq(d, a + 1, b)) = IF a + 1 <= b THEN b - (a + 1) + 1 ELSE 0
      /\ \A i \in 1 .. b - (a + 1) + 1 : SubSeq(d, a + 1, b)[i] = d[a + 1 + i - 1]
    BY <1>1, SubSeqProperties DEF Octets
<1>3. b - (a + 1) + 1 = b - a /\ \A i \in 1 .. b - a : a + 1 + i - 1 = a + i
    OBVIOUS
<1> QED BY <1>2, <1>3 DEF Octets

\* The octet string s stands in d behind the first at octets.
In(d, at, s) == at + Len(s) <= Len(d) /\ \A i \in 1 .. Len(s) : d[at + i] = s[i]

\* What stands in a string is a piece of it.
LEMMA InPiece ==
    ASSUME NEW d \in Octets, NEW s \in Octets, NEW at \in Nat, In(d, at, s)
    PROVE  SubSeq(d, at + 1, at + Len(s)) = s
<1>1. Len(s) \in Nat /\ Len(d) \in Nat
    BY DEF Octets
<1> DEFINE q == SubSeq(d, at + 1, at + Len(s))
<1>2. q \in Octets /\ Len(q) = at + Len(s) - at /\ \A i \in 1 .. at + Len(s) - at : q[i] = d[at + i]
    BY <1>1, PieceOctets DEF In
<1> HIDE DEF q
<1>3. Len(q) = Len(s) /\ \A i \in 1 .. Len(s) : q[i] = s[i]
    BY <1>1, <1>2 DEF In
<1>4. q = s
    BY <1>2, <1>3, SameOctets
<1> QED BY <1>4 DEF q

\* The parts of a string of two parts, and what stands in the first one.
LEMMA InConcatenation ==
    ASSUME NEW s \in Octets, NEW t \in Octets
    PROVE  /\ In(s \o t, 0, s) /\ In(s \o t, Len(s), t)
           /\ Upto(s \o t, Len(s)) = s /\ From(s \o t, Len(s)) = t
           /\ \A at \in Nat : \A x \in Octets : In(s, at, x) => In(s \o t, at, x)
           /\ \A at \in Nat : \A x \in Octets : In(t, at, x) => In(s \o t, Len(s) + at, x)
<1> DEFINE d == s \o t
<1>0. Len(s) \in Nat /\ Len(t) \in Nat
    BY DEF Octets
<1>1. /\ d \in Octets /\ Len(d) = Len(s) + Len(t)
      /\ \A i \in 1 .. Len(s) : d[i] = s[i]
      /\ \A i \in 1 .. Len(t) : d[Len(s) + i] = t[i]
    BY Concatenation
<1> HIDE DEF d
<1>2. In(d, 0, s) /\ In(d, Len(s), t)
    BY <1>0, <1>1 DEF In
<1>3. Upto(d, Len(s)) = s
    BY <1>0, <1>1, <1>2, InPiece DEF Upto
<1>4. From(d, Len(s)) = t
    BY <1>0, <1>1, <1>2, InPiece DEF From
<1>5. ASSUME NEW at \in Nat, NEW x \in Octets, In(s, at, x) PROVE In(d, at, x)
  <2>1. Len(x) \in Nat
    BY DEF Octets
  <2>2. \A i \in 1 .. Len(x) : at + i \in 1 .. Len(s)
    BY <1>0, <1>5, <2>1 DEF In
  <2> QED BY <1>0, <1>1, <1>5, <2>1, <2>2 DEF In
<1>6. ASSUME NEW at \in Nat, NEW x \in Octets, In(t, at, x) PROVE In(d, Len(s) + at, x)
  <2>1. Len(x) \in Nat
    BY DEF Octets
  <2>2. \A i \in 1 .. Len(x) : at + i \in 1 .. Len(t) /\ Len(s) + at + i = Len(s) + (at + i)
    BY <1>0, <1>6, <2>1 DEF In
  <2> QED BY <1>0, <1>1, <1>6, <2>1, <2>2 DEF In
<1> QED BY <1>2, <1>3, <1>4, <1>5, <1>6 DEF d

\* A string is what comes before a place and what comes behind it.
LEMMA Split ==
    ASSUME NEW d \in Octets, NEW a \in Nat, NEW b \in Nat, a <= b, b <= Len(d)
    PROVE  SubSeq(d, 1, a) \o SubSeq(d, a + 1, b) = SubSeq(d, 1, b)
<1> DEFINE s == SubSeq(d, 1, a)
           t == SubSeq(d, a + 1, b)
           u == SubSeq(d, 1, b)
           v == s \o t
<1>0. Len(d) \in Nat /\ a <= Len(d) /\ 0 + 1 = 1 /\ b - 0 = b /\ a - 0 = a
    BY DEF Octets
<1>1. s \in Octets /\ Len(s) = a /\ \A i \in 1 .. a : s[i] = d[0 + i]
    BY <1>0, PieceOctets
<1>2. t \in Octets /\ Len(t) = b - a /\ \A i \in 1 .. b - a : t[i] = d[a + i]
    BY <1>0, PieceOctets
<1>3. u \in Octets /\ Len(u) = b /\ \A i \in 1 .. b : u[i] = d[0 + i]
    BY <1>0, PieceOctets
<1> HIDE DEF s, t, u
<1>4. /\ v \in Octets /\ Len(v) = Len(s) + Len(t)
      /\ \A i \in 1 .. Len(s) : v[i] = s[i]
      /\ \A i \in 1 .. Len(t) : v[Len(s) + i] = t[i]
    BY <1>1, <1>2, Concatenation
<1> HIDE DEF v
<1>5. \A i \in 1 .. b : v[i] = u[i]
  <2> TAKE i \in 1 .. b
  <2>1. CASE i <= a
    BY <1>0, <1>1, <1>3, <1>4, <2>1
  <2>2. CASE i > a
    <3>1. i - a \in 1 .. b - a /\ a + (i - a) = i /\ 0 + i = i
      BY <2>2
    <3>2. v[a + (i - a)] = d[a + (i - a)]
      BY <1>1, <1>2, <1>4, <3>1
    <3> QED BY <1>3, <3>1, <3>2
  <2> QED BY <2>1, <2>2
<1>6. Len(v) = Len(u) /\ \A i \in 1 .. Len(v) : v[i] = u[i]
    BY <1>1, <1>2, <1>3, <1>4, <1>5
<1>7. v = u
    BY <1>3, <1>4, <1>6, SameOctets
<1> QED BY <1>7 DEF v, s, t, u

\* A whole string is a piece of itself.
LEMMA WholePiece ==
    ASSUME NEW d \in Octets PROVE SubSeq(d, 1, Len(d)) = d
<1>1. Len(d) \in Nat /\ In(d, 0, d) /\ 0 + Len(d) = Len(d) /\ 0 + 1 = 1
    BY DEF Octets, In
<1> QED BY <1>1, InPiece

\* A uint16 and its two octets.
LEMMA PutOctets ==
    ASSUME NEW n \in 0 .. MaxUint16
    PROVE  PutUint16(n) \in Octets /\ Len(PutUint16(n)) = 2
           /\ 256 * PutUint16(n)[1] + PutUint16(n)[2] = n
BY DEF PutUint16, MaxUint16, Octet, Octets

\* Strings of one and of two octets.
LEMMA PairOctets ==
    ASSUME NEW a \in Octet, NEW b \in Octet
    PROVE  /\ <<a>> \in Octets /\ Len(<<a>>) = 1 /\ <<a>>[1] = a
           /\ <<a, b>> \in Octets /\ Len(<<a, b>>) = 2
           /\ <<a, b>>[1] = a /\ <<a, b>>[2] = b
           /\ <<>> \in Octets /\ Len(<<>>) = 0
BY DEF Octets

\* Two octets and the uint16 they are.
LEMMA GetOctets ==
    ASSUME NEW a \in Octet, NEW b \in Octet
    PROVE  256 * a + b \in 0 .. MaxUint16 /\ PutUint16(256 * a + b) = <<a, b>>
<1>1. (256 * a + b) \div 256 = a /\ (256 * a + b) % 256 = b
    BY DEF Octet
<1>2. 256 * a + b \in 0 .. MaxUint16
  <2>1. a \in Int /\ 0 <= a /\ a <= 255 /\ b \in Int /\ 0 <= b /\ b <= 255
    BY DEF Octet
  <2>2. MaxUint16 \in Int
    BY DEF MaxUint16
  <2>3. MaxUint16 = 256 * 255 + 255
    BY SMT DEF MaxUint16
  <2>4. 256 * a + b \in Int /\ 0 <= 256 * a + b /\ 256 * a + b <= MaxUint16
    BY <2>1, <2>3, SMT
  <2> DEFINE x == 256 * a + b
  <2>5. x \in Int /\ 0 <= x /\ x <= MaxUint16
    BY <2>4, SMT
  <2> HIDE DEF x
  <2>6. x \in 0 .. MaxUint16
    BY <2>2, <2>5
  <2> QED BY <2>6 DEF x
<1>3. PutUint16(256 * a + b) = <<a, b>>
    BY <1>1, Zenon DEF PutUint16
<1> QED BY <1>2, <1>3

\* A uint16 that stands in a string is read.
LEMMA InUint16 ==
    ASSUME NEW d, NEW at \in Nat, NEW n \in 0 .. MaxUint16, In(d, at, PutUint16(n))
    PROVE  Uint16(d, at + 1) = n
<1>1. d[at + 1] = PutUint16(n)[1] /\ d[at + 2] = PutUint16(n)[2] /\ at + 1 + 1 = at + 2
    BY PutOctets DEF In
<1> QED BY <1>1, PutOctets DEF Uint16

-----------------------------------------------------------------------------
(***************************************************************************)
(* Frames: the datagram of a frame and what DecodeFrame makes of it.       *)
(***************************************************************************)

\* The datagram of a frame.
Framed(f, body) == <<BACnetIP, f>> \o PutUint16(HeaderLen + Len(body)) \o body

\* A body that a frame can carry.
Carried(body) == body \in Octets /\ Len(body) + HeaderLen <= MaxUint16

\* A length that a header can say.
LEMMA SaidLength ==
    ASSUME NEW k \in Nat, k + HeaderLen <= MaxUint16
    PROVE  HeaderLen + k = 4 + k /\ HeaderLen + k \in 0 .. MaxUint16
<1>1. MaxUint16 \in Nat /\ HeaderLen = 4
    BY DEF HeaderLen, MaxUint16
<1> QED BY <1>1

\* What the octets of a frame are, and what DecodeFrame makes of them.
LEMMA FramedOctets ==
    ASSUME NEW f \in FnResult .. FnOriginalBroadcast, NEW body, Carried(body)
    PROVE  /\ Framed(f, body) \in Octets /\ Len(Framed(f, body)) = 4 + Len(body)
           /\ Framed(f, body)[1] = BACnetIP /\ Framed(f, body)[2] = f
           /\ Uint16(Framed(f, body), 3) = 4 + Len(body)
           /\ From(Framed(f, body), 4) = body
<1> DEFINE n == HeaderLen + Len(body)
           s == <<BACnetIP, f>>
           u == PutUint16(n)
           v == s \o u
           d == v \o body
<1>0. body \in Octets /\ Len(body) \in Nat /\ n = 4 + Len(body) /\ n \in 0 .. MaxUint16
  <2>1. body \in Octets /\ Len(body) \in Nat
    BY DEF Carried, Octets
  <2>2. Len(body) + HeaderLen <= MaxUint16
    BY DEF Carried
  <2> QED BY <2>1, <2>2, SaidLength
<1>1. s \in Octets /\ Len(s) = 2 /\ s[1] = BACnetIP /\ s[2] = f
  <2>1. BACnetIP \in Octet /\ f \in Octet
    BY DEF Octet, BACnetIP, FnResult, FnOriginalBroadcast
  <2> QED BY <2>1, PairOctets
<1>2. u \in Octets /\ Len(u) = 2
    BY <1>0, PutOctets
<1> HIDE DEF s, n
<1>3. v \in Octets /\ Len(v) = 4 /\ In(v, 0, s) /\ In(v, 2, u)
  <2> HIDE DEF u
  <2>1. v \in Octets /\ Len(v) = Len(s) + Len(u)
    BY <1>1, <1>2, Concatenation
  <2>2. In(v, 0, s) /\ In(v, Len(s), u)
    BY <1>1, <1>2, InConcatenation
  <2> QED BY <1>1, <1>2, <2>1, <2>2
<1>4. In(v, 2, PutUint16(n))
    BY <1>3
<1> HIDE DEF v, u
<1>5. /\ d \in Octets /\ Len(d) = 4 + Len(body) /\ From(d, 4) = body
      /\ In(d, 0, s) /\ In(d, 2, PutUint16(n))
  <2>0. PutUint16(n) \in Octets
    BY <1>0, PutOctets
  <2>1. d \in Octets /\ Len(d) = Len(v) + Len(body)
    BY <1>0, <1>3, Concatenation
  <2>2. /\ From(d, Len(v)) = body
        /\ \A at \in Nat : \A x \in Octets : In(v, at, x) => In(d, at, x)
    BY <1>0, <1>3, InConcatenation
  <2> HIDE DEF d
  <2>3. 0 \in Nat /\ 2 \in Nat
    OBVIOUS
  <2>4. In(d, 0, s) /\ In(d, 2, PutUint16(n))
    BY <1>1, <1>3, <1>4, <2>0, <2>2, <2>3
  <2> QED BY <1>3, <2>1, <2>2, <2>4
<1>6. Uint16(d, 2 + 1) = n
    BY <1>0, <1>5, InUint16
<1>7. d[0 + 1] = s[1] /\ d[0 + 2] = s[2]
    BY <1>1, <1>5 DEF In
<1>8. d = Framed(f, body)
    BY DEF Framed, d, v, u, n, s
<1> HIDE DEF d
<1> QED BY <1>0, <1>1, <1>5, <1>6, <1>7, <1>8

\* A frame is read back.
LEMMA FrameBack ==
    ASSUME NEW f \in FnResult .. FnOriginalBroadcast, NEW body, Carried(body)
    PROVE  DecodeFrame(Framed(f, body)) = {[type |-> BACnetIP, function |-> f, payload |-> body]}
<1> DEFINE d == Framed(f, body)
<1>1. /\ d \in Octets /\ Len(d) = 4 + Len(body) /\ d[1] = BACnetIP /\ d[2] = f
      /\ Uint16(d, 3) = 4 + Len(body) /\ From(d, 4) = body /\ Len(body) \in Nat
    BY FramedOctets DEF Carried, Octets
<1> HIDE DEF d
<1>2. /\ Len(d) >= HeaderLen /\ TypeValid(d[1]) /\ FunctionValid(d[2])
      /\ Uint16(d, 3) >= HeaderLen /\ Uint16(d, 3) = Len(d) /\ HeaderLen = 4
    BY <1>1 DEF HeaderLen, TypeValid, FunctionValid
<1>3. DecodeFrame(d) = {[type |-> d[1], function |-> d[2], payload |-> From(d, 4)]}
    BY <1>2 DEF DecodeFrame
<1> QED BY <1>1, <1>3 DEF d

\* FrameEncode and the encoders of the functions make such datagrams.
LEMMA EncodesFrame ==
    ASSUME NEW f \in FnResult .. FnOriginalBroadcast, NEW body, Carried(body)
    PROVE  /\ FrameEncode([type |-> BACnetIP, function |-> f, payload |-> body])
                = {Framed(f, body)}
           /\ HeaderEncode(NewHeader(BACnetIP, f, HeaderLen + Len(body)), body)
                = {Framed(f, body)}
           /\ WholeEncode(NewHeader(BACnetIP, f, HeaderLen + Len(body)), body)
                = {Framed(f, body)}
<1> DEFINE n == HeaderLen + Len(body)
           h == NewHeader(BACnetIP, f, n)
           rest == [i \in 1 .. n - HeaderLen |-> IF i <= Len(body) THEN body[i] ELSE 0]
<1>0. body \in Octets /\ Len(body) \in Nat /\ n \in Nat /\ n <= 65535 /\ n <= MaxUint16
      /\ n - HeaderLen = Len(body) /\ n >= HeaderLen
    BY DEF Carried, Octets, HeaderLen, MaxUint16
<1>1. h = [type |-> BACnetIP, function |-> f, length |-> n]
  <2>1. n % 65536 = n
    BY <1>0, SMT
  <2>2. BVLCLength(n) = n
    BY <2>1, SMT DEF BVLCLength, MaxUint16
  <2> QED BY <2>2 DEF NewHeader
<1>2. TypeValid(BACnetIP) /\ FunctionValid(f)
    BY DEF TypeValid, FunctionValid
<1>3. rest = body
  <2>1. body = [i \in 1 .. Len(body) |-> body[i]]
    BY <1>0 DEF Octets
  <2> QED BY <1>0, <2>1
<1> HIDE DEF n
<1>4. FrameEncode([type |-> BACnetIP, function |-> f, payload |-> body]) = {Framed(f, body)}
    BY <1>0, <1>2 DEF FrameEncode, When, Framed, n
<1>5. HeaderValid(h) /\ h.length = n /\ h.type = BACnetIP /\ h.function = f
    BY <1>1, <1>2 DEF HeaderValid
<1> HIDE DEF h
<1>6. HeaderEncode(h, body) = {<<BACnetIP, f>> \o PutUint16(n) \o rest}
    BY <1>0, <1>5 DEF HeaderEncode, When
<1>7. HeaderEncode(h, body) = {Framed(f, body)}
    BY <1>3, <1>6 DEF Framed, n
<1>8. WholeEncode(h, body) = HeaderEncode(h, body)
    BY <1>0, <1>5 DEF WholeEncode
<1> QED BY <1>4, <1>7, <1>8 DEF h, n

\* The octets of an IPv4 address and its port, which are read back.
LEMMA AddressBack ==
    ASSUME NEW a \in AddrPort, Is4(a)
    PROVE  /\ encodeAddressPortIpV4(a) \in Octets /\ Len(encodeAddressPortIpV4(a)) = 6
           /\ decodeAddressPortIpV4(encodeAddressPortIpV4(a)) = {a}
<1> DEFINE u == PutUint16(a.port)
           e == a.ip \o u
<1>1. a = [ip |-> a.ip, port |-> a.port] /\ a.ip \in Octets /\ a.port \in 0 .. MaxUint16 /\ Len(a.ip) = 4
    BY DEF AddrPort, Is4, Octets
<1>2. u \in Octets /\ Len(u) = 2
    BY <1>1, PutOctets
<1> HIDE DEF u
<1>3. e \in Octets /\ Len(e) = 6 /\ Upto(e, 4) = a.ip /\ In(e, 4, u)
  <2>1. e \in Octets /\ Len(e) = Len(a.ip) + Len(u)
    BY <1>1, <1>2, Concatenation
  <2>2. Upto(e, Len(a.ip)) = a.ip /\ In(e, Len(a.ip), u)
    BY <1>1, <1>2, InConcatenation
  <2> HIDE DEF e
  <2> QED BY <1>1, <1>2, <2>1, <2>2
<1>4. e = encodeAddressPortIpV4(a)
    BY DEF encodeAddressPortIpV4, u
<1> HIDE DEF e
<1>5. Uint16(e, 4 + 1) = a.port
    BY <1>1, <1>3, InUint16 DEF u
<1>6. decodeAddressPortIpV4(e) = {[ip |-> Upto(e, 4), port |-> Uint16(e, 5)]}
    BY <1>3 DEF decodeAddressPortIpV4, When
<1> QED BY <1>1, <1>3, <1>4, <1>5, <1>6

\* A frame with a body.
Frame(f, body) == [type |-> BACnetIP, function |-> f, payload |-> body]

\* What dispatchFrame takes out of the frame of an NPDU of m.
InnerMeant(m, octets) ==
    IF m.via = "distribute" \/ ~Is4(m.origin) THEN {}
    ELSE {[src |-> Local(m.origin), octets |-> octets]}

\* The address of a sender of a datagram.
LEMMA SourceAddress ==
    ASSUME NEW a \in AddrPort
    PROVE  AddrPortToAddress(a) = IF Is4(a) THEN {Local(a)} ELSE {}
BY DEF AddrPortToAddress, IsValidAddr, Is4, When

\* An NPDU in its own frame.
LEMMA NpduFrame ==
    ASSUME NEW f \in {FnDistributeBroadcast, FnOriginalUnicast, FnOriginalBroadcast},
           NEW octets \in Octets, NEW u \in NpduMessage(BACnetIP, f, octets)
    PROVE  /\ Carried(octets) /\ f \in FnResult .. FnOriginalBroadcast
           /\ u = [header |-> NewHeader(BACnetIP, f, HeaderLen + Len(octets)), npdu |-> octets]
           /\ HeaderValid(u.header) /\ u.header.function = f /\ octets # <<>>
<1>0. f \in FnResult .. FnOriginalBroadcast /\ Len(octets) \in Nat /\ HeaderLen \in Nat
    BY DEF FnResult, FnOriginalBroadcast, FnDistributeBroadcast, FnOriginalUnicast, Octets, HeaderLen
<1>1. /\ HeaderLen + Len(octets) <= MaxUint16 /\ octets # <<>>
      /\ u = [header |-> NewHeader(BACnetIP, f, HeaderLen + Len(octets)), npdu |-> octets]
    BY DEF NpduMessage, When
<1>2. HeaderLen + Len(octets) = Len(octets) + HeaderLen
    BY <1>0
<1>3. Carried(octets)
    BY <1>1, <1>2 DEF Carried
<1>4. TypeValid(BACnetIP) /\ FunctionValid(f)
    BY <1>0 DEF TypeValid, FunctionValid
<1>5. u.header.type = BACnetIP /\ u.header.function = f
    BY <1>1 DEF NewHeader
<1> QED BY <1>0, <1>1, <1>3, <1>4, <1>5 DEF HeaderValid

\* A datagram around an NPDU is a frame, out of which dispatchFrame takes it.
LEMMA WrappedFrame ==
    ASSUME NEW m, Sender(m), NEW octets \in Octets, octets # <<>>, NEW data \in Wrapped(m, octets)
    PROVE  \E f \in FnResult .. FnOriginalBroadcast : \E body :
              /\ Carried(body) /\ data = Framed(f, body)
              /\ Inner(Frame(f, body), m.from) = InnerMeant(m, octets)
              /\ NPDUOctets(Frame(f, body)) = octets
<1> DEFINE Goal(f, body) ==
             /\ Carried(body) /\ data = Framed(f, body)
             /\ Inner(Frame(f, body), m.from) = InnerMeant(m, octets)
             /\ NPDUOctets(Frame(f, body)) = octets
<1>0. /\ FnOriginalUnicast \in FnResult .. FnOriginalBroadcast
      /\ FnOriginalBroadcast \in FnResult .. FnOriginalBroadcast
      /\ FnForwardedNPDU \in FnResult .. FnOriginalBroadcast
      /\ FnDistributeBroadcast \in FnResult .. FnOriginalBroadcast
    BY DEF FnOriginalUnicast, FnResult, FnOriginalBroadcast, FnForwardedNPDU, FnDistributeBroadcast
<1>1. m.via \in Ways /\ m.from \in AddrPort /\ m.origin \in AddrPort
      /\ (m.via # "forward" => m.origin = m.from)
    BY DEF Sender
<1>2. ASSUME NEW f \in {FnOriginalUnicast, FnOriginalBroadcast},
             m.via \in {"stack", "unicast", "broadcast"}
      PROVE  Inner(Frame(f, octets), m.from) = InnerMeant(m, octets)
  <2>1. Inner(Frame(f, octets), m.from)
          = {[src |-> a, octets |-> octets] : a \in AddrPortToAddress(m.origin)}
    BY <1>1, <1>2 DEF Inner, Frame
  <2>2. AddrPortToAddress(m.origin) = IF Is4(m.origin) THEN {Local(m.origin)} ELSE {}
    BY <1>1, SourceAddress
  <2>3. m.via # "distribute"
    BY <1>2
  <2> QED BY <2>1, <2>2, <2>3 DEF InnerMeant
<1>b. \A f \in {FnOriginalUnicast, FnOriginalBroadcast, FnDistributeBroadcast} :
        NPDUOctets(Frame(f, octets)) = octets
    BY DEF NPDUOctets, Frame, FnOriginalUnicast, FnOriginalBroadcast, FnForwardedNPDU,
           FnDistributeBroadcast
<1>3. CASE m.via = "stack"
  <2>1. PICK fr \in NewFrameWithType(BACnetIP, FnOriginalUnicast, octets) : data \in FrameEncode(fr)
    BY <1>3 DEF Wrapped
  <2>2. fr = Frame(FnOriginalUnicast, octets) /\ Carried(octets)
    BY <2>1 DEF NewFrameWithType, When, Carried, Frame
  <2>3. FrameEncode(fr) = {Framed(FnOriginalUnicast, octets)}
    BY <1>0, <2>2, EncodesFrame DEF Frame
  <2> QED BY <1>0, <1>2, <1>b, <1>3, <2>1, <2>2, <2>3
<1>4. CASE m.via = "unicast"
  <2>1. PICK u \in NpduMessage(BACnetIP, FnOriginalUnicast, octets) :
            data \in OriginalUnicastEncode(u)
    BY <1>4 DEF Wrapped, NewOriginalUnicast
  <2>2. /\ Carried(octets) /\ u.header = NewHeader(BACnetIP, FnOriginalUnicast, HeaderLen + Len(octets))
        /\ u.npdu = octets /\ OriginalUnicastValid(u)
    BY <2>1, NpduFrame DEF OriginalUnicastValid
  <2>3. OriginalUnicastEncode(u) = {Framed(FnOriginalUnicast, octets)}
    BY <1>0, <2>2, EncodesFrame DEF OriginalUnicastEncode
  <2> QED BY <1>0, <1>2, <1>b, <1>4, <2>1, <2>2, <2>3
<1>5. CASE m.via = "broadcast"
  <2>1. PICK u \in NpduMessage(BACnetIP, FnOriginalBroadcast, octets) :
            data \in OriginalBroadcastEncode(u)
    BY <1>5 DEF Wrapped, NewOriginalBroadcast
  <2>2. /\ Carried(octets) /\ u.header = NewHeader(BACnetIP, FnOriginalBroadcast, HeaderLen + Len(octets))
        /\ u.npdu = octets /\ OriginalBroadcastValid(u)
    BY <2>1, NpduFrame DEF OriginalBroadcastValid
  <2>3. OriginalBroadcastEncode(u) = {Framed(FnOriginalBroadcast, octets)}
    BY <1>0, <2>2, EncodesFrame DEF OriginalBroadcastEncode
  <2> QED BY <1>0, <1>2, <1>b, <1>5, <2>1, <2>2, <2>3
<1>6. CASE m.via = "distribute"
  <2>1. PICK u \in NpduMessage(BACnetIP, FnDistributeBroadcast, octets) : data \in DistributeEncode(u)
    BY <1>6 DEF Wrapped, NewDistribute
  <2>2. /\ Carried(octets) /\ u.header = NewHeader(BACnetIP, FnDistributeBroadcast, HeaderLen + Len(octets))
        /\ u.npdu = octets
    BY <2>1, NpduFrame
  <2>3. DistributeEncode(u) = {Framed(FnDistributeBroadcast, octets)}
    BY <1>0, <2>2, EncodesFrame DEF DistributeEncode
  <2>4. Inner(Frame(FnDistributeBroadcast, octets), m.from) = {}
    BY DEF Inner, Frame, FnOriginalUnicast, FnOriginalBroadcast, FnForwardedNPDU, FnDistributeBroadcast
  <2> QED BY <1>0, <1>b, <1>6, <2>1, <2>2, <2>3, <2>4 DEF InnerMeant
<1>7. CASE m.via = "forward"
  <2> DEFINE a == encodeAddressPortIpV4(m.origin)
             body == a \o octets
             n == HeaderLen + 6 + Len(octets)
  <2>1. PICK u \in NewForwardedNpdu(m.origin, octets) : data \in ForwardedNpduEncode(u)
    BY <1>7 DEF Wrapped
  <2>2. /\ Is4(m.origin) /\ n <= MaxUint16
        /\ u = [header |-> NewHeader(BACnetIP, FnForwardedNPDU, n), origin |-> m.origin, npdu |-> octets]
    BY <2>1 DEF NewForwardedNpdu, When
  <2>3. a \in Octets /\ Len(a) = 6 /\ decodeAddressPortIpV4(a) = {m.origin}
    BY <1>1, <2>2, AddressBack
  <2>4. ForwardedNpduEncode(u) = WholeEncode(NewHeader(BACnetIP, FnForwardedNPDU, n), body)
    BY <2>2 DEF ForwardedNpduEncode
  <2> HIDE DEF a
  <2>5. body \in Octets /\ Len(body) = Len(a) + Len(octets)
    BY <2>3, Concatenation
  <2>6. Upto(body, Len(a)) = a /\ From(body, Len(a)) = octets
    BY <2>3, InConcatenation
  <2> HIDE DEF body
  <2>7. Len(octets) \in Nat /\ Len(octets) # 0
    BY EmptySeq DEF Octets
  <2>8. Len(body) \in Nat /\ Len(body) = 6 + Len(octets) /\ Len(body) > 6
    BY <2>3, <2>5, <2>7
  <2>9. n = HeaderLen + Len(body) /\ n = Len(body) + HeaderLen
    BY <2>7, <2>8 DEF HeaderLen
  <2> HIDE DEF n
  <2>10. Carried(body)
    BY <2>2, <2>5, <2>9 DEF Carried
  <2>11. data = Framed(FnForwardedNPDU, body)
    <3>1. WholeEncode(NewHeader(BACnetIP, FnForwardedNPDU, HeaderLen + Len(body)), body)
            = {Framed(FnForwardedNPDU, body)}
      BY <1>0, <2>10, EncodesFrame, Zenon
    <3>2. WholeEncode(NewHeader(BACnetIP, FnForwardedNPDU, n), body) = {Framed(FnForwardedNPDU, body)}
      BY <2>9, <3>1
    <3> QED BY <2>1, <2>4, <3>2
  <2>12. Inner(Frame(FnForwardedNPDU, body), m.from) = {[src |-> Local(m.origin), octets |-> octets]}
    <3>1. FnForwardedNPDU \notin {FnOriginalUnicast, FnOriginalBroadcast}
      BY DEF FnOriginalUnicast, FnOriginalBroadcast, FnForwardedNPDU
    <3>2. Inner(Frame(FnForwardedNPDU, body), m.from)
            = {[src |-> b, octets |-> octets] :
                  b \in UNION {AddrPortToAddress(o) : o \in {m.origin}}}
      BY <2>3, <2>6, <2>8, <3>1 DEF Inner, Frame
    <3>3. AddrPortToAddress(m.origin) = {Local(m.origin)}
      BY <1>1, <2>2, SourceAddress
    <3> QED BY <3>2, <3>3
  <2>13. InnerMeant(m, octets) = {[src |-> Local(m.origin), octets |-> octets]}
    BY <1>7, <2>2 DEF InnerMeant
  <2>14. NPDUOctets(Frame(FnForwardedNPDU, body)) = octets
    BY <2>3, <2>6 DEF NPDUOctets, Frame
  <2> QED BY <1>0, <2>10, <2>11, <2>12, <2>13, <2>14
<1> QED BY <1>1, <1>3, <1>4, <1>5, <1>6, <1>7 DEF Ways

-----------------------------------------------------------------------------
(***************************************************************************)
(* NPDUs: the parts of an NPDU in its octets, and how they are read back.  *)
(***************************************************************************)

\* A pointer to an element of S, or nil.
Pointer(S) == {{}} \cup {{x} : x \in S}
Uint16s == 0 .. MaxUint16

NPDUs ==
    [version : Octet, flags : Octet, dnet : Pointer(Uint16s), dlen : Pointer(Octet),
     dadr : Pointer(Octets), snet : Pointer(Uint16s), slen : Pointer(Octet),
     sadr : Pointer(Octets), hopCount : Pointer(Octet), messageType : Pointer(Octet),
     vendorId : Pointer(Uint16s), apdu : Octets]

\* What a pointer points to.
LEMMA Pointed ==
    ASSUME NEW S, NEW p \in Pointer(S), p # {}
    PROVE  The(p) \in S /\ p = {The(p)}
<1>1. PICK x \in S : p = {x}
    BY DEF Pointer
<1>2. The({x}) = x
    BY DEF The
<1> QED BY <1>1, <1>2

\* What stands in a part of a string stands in the string.
LEMMA InIn ==
    ASSUME NEW d, NEW s \in Octets, NEW t \in Octets, NEW a \in Nat, NEW b \in Nat,
           In(d, a, s), In(s, b, t), Len(d) \in Nat
    PROVE  In(d, a + b, t)
<1>1. Len(s) \in Nat /\ Len(t) \in Nat
    BY DEF Octets
<1>2. a + Len(s) <= Len(d) /\ b + Len(t) <= Len(s)
    BY DEF In
<1>3. a + b + Len(t) <= Len(d)
    BY <1>1, <1>2
<1>4. ASSUME NEW i \in 1 .. Len(t) PROVE d[a + b + i] = t[i]
  <2>1. b + i \in 1 .. Len(s) /\ a + b + i = a + (b + i)
    BY <1>1, <1>2
  <2>2. d[a + (b + i)] = s[b + i] /\ s[b + i] = t[i]
    BY <2>1 DEF In
  <2> QED BY <2>1, <2>2
<1> QED BY <1>3, <1>4 DEF In

\* A network number, a length and an address.
LEMMA SpecifierOctets ==
    ASSUME NEW net \in Pointer(Uint16s), net # {}, NEW len \in Pointer(Octet), len # {},
           NEW adr \in Pointer(Octets), NEW a, a = IF adr = {} THEN <<>> ELSE The(adr)
    PROVE  /\ Specifier(net, len, adr) \in Octets /\ a \in Octets
           /\ Len(Specifier(net, len, adr)) = 3 + Len(a)
           /\ In(Specifier(net, len, adr), 0, PutUint16(The(net)))
           /\ Specifier(net, len, adr)[3] = The(len)
           /\ In(Specifier(net, len, adr), 3, a)
<1> DEFINE u == PutUint16(The(net))
           l == <<The(len)>>
           v == u \o l
           s == v \o a
<1>1. The(net) \in Uint16s /\ The(len) \in Octet
    BY Pointed
<1>2. u \in Octets /\ Len(u) = 2
    BY <1>1, PutOctets DEF Uint16s
<1>3. l \in Octets /\ Len(l) = 1 /\ l[1] = The(len)
    BY <1>1, PairOctets
<1>4. a \in Octets
  <2>1. <<>> \in Octets
    BY DEF Octets
  <2> QED BY <2>1, Pointed
<1>5. Specifier(net, len, adr) = s
    BY DEF Specifier
<1> HIDE DEF u, l
<1>6. v \in Octets /\ Len(v) = Len(u) + Len(l) /\ In(v, 0, u) /\ In(v, Len(u), l)
    BY <1>2, <1>3, Concatenation, InConcatenation
<1> HIDE DEF v
<1>7. /\ s \in Octets /\ Len(s) = Len(v) + Len(a) /\ In(s, 0, v) /\ In(s, Len(v), a)
    BY <1>4, <1>6, Concatenation, InConcatenation
<1>8. \A at \in Nat : \A x \in Octets : In(v, at, x) => In(s, at, x)
    BY <1>4, <1>6, InConcatenation
<1> HIDE DEF s
<1>9. In(s, 0, u) /\ In(s, 2, l)
    BY <1>2, <1>3, <1>6, <1>8
<1>10. s[2 + 1] = l[1]
    BY <1>3, <1>9 DEF In
<1>11. Len(v) = 3
    BY <1>2, <1>3, <1>6
<1> QED BY <1>3, <1>4, <1>5, <1>7, <1>9, <1>10, <1>11 DEF u

\* The six parts of x, one behind the other.
SixIn(x, a, b, c, d, e, f) ==
    /\ x \in Octets
    /\ Len(x) = Len(a) + Len(b) + Len(c) + Len(d) + Len(e) + Len(f)
    /\ In(x, 0, a) /\ In(x, Len(a), b) /\ In(x, Len(a) + Len(b), c)
    /\ In(x, Len(a) + Len(b) + Len(c), d)
    /\ In(x, Len(a) + Len(b) + Len(c) + Len(d), e)
    /\ From(x, Len(a) + Len(b) + Len(c) + Len(d) + Len(e)) = f

\* Octets of six parts.
LEMMA SixParts ==
    ASSUME NEW a \in Octets, NEW b \in Octets, NEW c \in Octets,
           NEW d \in Octets, NEW e \in Octets, NEW f \in Octets
    PROVE  SixIn(a \o b \o c \o d \o e \o f, a, b, c, d, e, f)
<1> DEFINE p2 == a \o b
           p3 == p2 \o c
           p4 == p3 \o d
           p5 == p4 \o e
           p6 == p5 \o f
<1>0. Len(a) \in Nat /\ Len(b) \in Nat /\ Len(c) \in Nat /\ Len(d) \in Nat /\ Len(e) \in Nat /\ Len(f) \in Nat
    BY DEF Octets
<1>2. /\ p2 \in Octets /\ Len(p2) = Len(a) + Len(b) /\ In(p2, 0, a) /\ In(p2, Len(a), b)
    BY Concatenation, InConcatenation
<1> HIDE DEF p2
<1>3. /\ p3 \in Octets /\ Len(p3) = Len(p2) + Len(c) /\ In(p3, Len(p2), c)
      /\ \A at \in Nat : \A y \in Octets : In(p2, at, y) => In(p3, at, y)
    BY <1>2, Concatenation, InConcatenation
<1> HIDE DEF p3
<1>4. /\ p4 \in Octets /\ Len(p4) = Len(p3) + Len(d) /\ In(p4, Len(p3), d)
      /\ \A at \in Nat : \A y \in Octets : In(p3, at, y) => In(p4, at, y)
    BY <1>3, Concatenation, InConcatenation
<1> HIDE DEF p4
<1>5. /\ p5 \in Octets /\ Len(p5) = Len(p4) + Len(e) /\ In(p5, Len(p4), e)
      /\ \A at \in Nat : \A y \in Octets : In(p4, at, y) => In(p5, at, y)
    BY <1>4, Concatenation, InConcatenation
<1> HIDE DEF p5
<1>6. /\ p6 \in Octets /\ Len(p6) = Len(p5) + Len(f) /\ From(p6, Len(p5)) = f
      /\ \A at \in Nat : \A y \in Octets : In(p5, at, y) => In(p6, at, y)
    BY <1>5, Concatenation, InConcatenation
<1> HIDE DEF p6
<1>7. In(p6, 0, a) /\ In(p6, Len(a), b)
    BY <1>0, <1>2, <1>3, <1>4, <1>5, <1>6
<1>8. In(p6, Len(p2), c) /\ In(p6, Len(p3), d) /\ In(p6, Len(p4), e)
  <2>1. Len(p2) \in Nat /\ Len(p3) \in Nat /\ Len(p4) \in Nat
    BY <1>2, <1>3, <1>4 DEF Octets
  <2> QED BY <2>1, <1>3, <1>4, <1>5, <1>6
<1>9. SixIn(p6, a, b, c, d, e, f)
    BY <1>2, <1>3, <1>4, <1>5, <1>6, <1>7, <1>8 DEF SixIn
<1> QED BY <1>9 DEF p2, p3, p4, p5, p6

\* Where NPDUDecode is behind the destination, the source, the hop count and
\* the message type; what it reads, and what it checks.
Dst(d) == Bit(d[2], BitDestination)
Src(d) == Bit(d[2], BitSource)
Nlm(d) == Bit(d[2], BitNetworkMessage)
C1(d) == IF Dst(d) THEN 5 + d[5] ELSE 2
C2(d) == IF Src(d) THEN C1(d) + 3 + d[C1(d) + 3] ELSE C1(d)
C3(d) == IF Dst(d) THEN C2(d) + 1 ELSE C2(d)
Mt(d) == d[C3(d) + 1]
C4(d) == IF Nlm(d) THEN C3(d) + (IF Mt(d) >= 128 THEN 3 ELSE 1) ELSE C3(d)

ReadNPDU(d) ==
    [version |-> d[1], flags |-> d[2],
     dnet |-> IF Dst(d) THEN {Uint16(d, 3)} ELSE {},
     dlen |-> IF Dst(d) THEN {d[5]} ELSE {},
     dadr |-> IF Dst(d) /\ d[5] > 0 THEN {SubSeq(d, 6, C1(d))} ELSE {},
     snet |-> IF Src(d) THEN {Uint16(d, C1(d) + 1)} ELSE {},
     slen |-> IF Src(d) THEN {d[C1(d) + 3]} ELSE {},
     sadr |-> IF Src(d) THEN {SubSeq(d, C1(d) + 4, C2(d))} ELSE {},
     hopCount |-> IF Dst(d) THEN {d[C3(d)]} ELSE {},
     messageType |-> IF Nlm(d) THEN {Mt(d)} ELSE {},
     vendorId |-> IF Nlm(d) /\ Mt(d) >= 128 THEN {Uint16(d, C3(d) + 2)} ELSE {},
     apdu |-> From(d, C4(d))]

Readable(d) ==
    /\ Len(d) >= 2 /\ d[1] = ProtocolVersion
    /\ ~Bit(d[2], BitReserved4) /\ ~Bit(d[2], BitReserved6)
    /\ Dst(d) => /\ Len(d) >= 5 /\ Uint16(d, 3) # 0
                 /\ d[5] > 0 => Uint16(d, 3) # GlobalBroadcastNetwork /\ C1(d) <= Len(d)
    /\ Src(d) => /\ C1(d) + 3 <= Len(d) /\ SnetValid(Uint16(d, C1(d) + 1))
                 /\ d[C1(d) + 3] # 0 /\ C2(d) <= Len(d)
    /\ C3(d) <= Len(d)
    /\ Nlm(d) => C3(d) < Len(d) /\ C4(d) <= Len(d)
    /\ Nlm(d) => NormalizedPayload(MessageHeaderOf(ReadNPDU(d)), ReadNPDU(d).apdu) # {}

\* NPDUDecode reads what is readable, field by field, and nothing else.
LEMMA NPDUDecodes ==
    ASSUME NEW d PROVE NPDUDecode(d) = IF Readable(d) THEN {ReadNPDU(d)} ELSE {}
BY Zenon DEF NPDUDecode, Readable, ReadNPDU, When, Dst, Src, Nlm, C1, C2, C3, C4, Mt

\* The parts of an encoded NPDU.
PartD(n) == IF Bit(n.flags, BitDestination) THEN Specifier(n.dnet, n.dlen, n.dadr) ELSE <<>>
PartS(n) == IF Bit(n.flags, BitSource) THEN Specifier(n.snet, n.slen, n.sadr) ELSE <<>>
PartH(n) == IF Bit(n.flags, BitDestination) THEN <<The(n.hopCount)>> ELSE <<>>
PartT(n) ==
    IF Bit(n.flags, BitNetworkMessage)
    THEN <<The(n.messageType)>>
         \o (IF The(n.messageType) >= 128 THEN PutUint16(The(n.vendorId)) ELSE <<>>)
    ELSE <<>>

\* NPDUEncode of a valid NPDU is its six parts in a row.
LEMMA NPDUEncodes ==
    ASSUME NEW n, NPDUValid(n)
    PROVE  NPDUEncode(n) = {<<n.version, n.flags>> \o PartD(n) \o PartS(n) \o PartH(n)
                            \o PartT(n) \o n.apdu}
BY Zenon DEF NPDUEncode, PartD, PartS, PartH, PartT

\* The fields of an NPDU.
LEMMA NPDUFields ==
    ASSUME NEW n \in NPDUs
    PROVE  /\ n = [version |-> n.version, flags |-> n.flags, dnet |-> n.dnet, dlen |-> n.dlen,
                   dadr |-> n.dadr, snet |-> n.snet, slen |-> n.slen, sadr |-> n.sadr,
                   hopCount |-> n.hopCount, messageType |-> n.messageType,
                   vendorId |-> n.vendorId, apdu |-> n.apdu]
           /\ n.version \in Octet /\ n.flags \in Octet
           /\ n.dnet \in Pointer(Uint16s) /\ n.dlen \in Pointer(Octet)
           /\ n.dadr \in Pointer(Octets) /\ n.snet \in Pointer(Uint16s)
           /\ n.slen \in Pointer(Octet) /\ n.sadr \in Pointer(Octets)
           /\ n.hopCount \in Pointer(Octet) /\ n.messageType \in Pointer(Octet)
           /\ n.vendorId \in Pointer(Uint16s) /\ n.apdu \in Octets
BY DEF NPDUs

\* The destination of a valid NPDU, as it is encoded.
LEMMA PartDOctets ==
    ASSUME NEW n \in NPDUs, NPDUValid(n)
    PROVE  /\ PartD(n) \in Octets /\ PartH(n) \in Octets
           /\ ~Bit(n.flags, BitDestination) => Len(PartD(n)) = 0 /\ Len(PartH(n)) = 0
           /\ Bit(n.flags, BitDestination) =>
                /\ n.dnet = {The(n.dnet)} /\ n.dlen = {The(n.dlen)} /\ n.hopCount = {The(n.hopCount)}
                /\ The(n.dnet) \in Uint16s /\ The(n.dlen) \in Octet /\ The(n.hopCount) \in Octet
                /\ Len(PartD(n)) = 3 + The(n.dlen) /\ Len(PartH(n)) = 1
                /\ In(PartD(n), 0, PutUint16(The(n.dnet))) /\ PartD(n)[3] = The(n.dlen)
                /\ IF The(n.dlen) = 0 THEN n.dadr = {}
                   ELSE /\ n.dadr = {The(n.dadr)} /\ The(n.dadr) \in Octets
                        /\ Len(The(n.dadr)) = The(n.dlen) /\ In(PartD(n), 3, The(n.dadr))
                /\ PartH(n)[1] = The(n.hopCount)
<1>0. /\ n.dnet \in Pointer(Uint16s) /\ n.dlen \in Pointer(Octet)
      /\ n.dadr \in Pointer(Octets) /\ n.hopCount \in Pointer(Octet)
    BY NPDUFields
<1>1. CASE ~Bit(n.flags, BitDestination)
  <2>1. PartD(n) = <<>> /\ PartH(n) = <<>>
    BY <1>1 DEF PartD, PartH
  <2> QED BY <1>1, <2>1, EmptySeq DEF Octets
<1>2. CASE Bit(n.flags, BitDestination)
  <2>1. /\ n.dnet # {} /\ n.dlen # {} /\ n.hopCount # {}
        /\ IF The(n.dlen) = 0 THEN n.dadr = {}
           ELSE n.dadr # {} /\ Len(The(n.dadr)) = The(n.dlen)
    BY <1>2, Zenon DEF NPDUValid
  <2>2. /\ n.dnet = {The(n.dnet)} /\ n.dlen = {The(n.dlen)} /\ n.hopCount = {The(n.hopCount)}
        /\ The(n.dnet) \in Uint16s /\ The(n.dlen) \in Octet /\ The(n.hopCount) \in Octet
    BY <1>0, <2>1, Pointed
  <2> DEFINE a == IF n.dadr = {} THEN <<>> ELSE The(n.dadr)
             s == Specifier(n.dnet, n.dlen, n.dadr)
  <2>3. s = PartD(n) /\ PartH(n) = <<The(n.hopCount)>>
    BY <1>2 DEF PartD, PartH
  <2>4. /\ s \in Octets /\ a \in Octets /\ Len(s) = 3 + Len(a)
        /\ In(s, 0, PutUint16(The(n.dnet))) /\ s[3] = The(n.dlen) /\ In(s, 3, a)
    BY <1>0, <2>1, SpecifierOctets
  <2> HIDE DEF s
  <2>5. Len(a) = The(n.dlen)
    <3>1. CASE The(n.dlen) = 0
      BY <2>1, <3>1
    <3>2. CASE The(n.dlen) # 0
      BY <2>1, <3>2
    <3> QED BY <3>1, <3>2
  <2>6. The(n.dlen) # 0 => /\ n.dadr = {The(n.dadr)} /\ The(n.dadr) \in Octets /\ a = The(n.dadr)
    BY <1>0, <2>1, Pointed
  <2> HIDE DEF a
  <2>7. PartH(n) \in Octets /\ Len(PartH(n)) = 1 /\ PartH(n)[1] = The(n.hopCount)
    BY <2>2, <2>3, PairOctets
  <2>8. /\ Len(PartD(n)) = 3 + The(n.dlen) /\ PartD(n) \in Octets
        /\ In(PartD(n), 0, PutUint16(The(n.dnet))) /\ PartD(n)[3] = The(n.dlen)
        /\ The(n.dlen) # 0 => In(PartD(n), 3, The(n.dadr))
    BY <2>3, <2>4, <2>5, <2>6
  <2> QED BY <1>2, <2>1, <2>2, <2>6, <2>7, <2>8
<1> QED BY <1>1, <1>2

\* The same for the source.
LEMMA PartSOctets ==
    ASSUME NEW n \in NPDUs, NPDUValid(n)
    PROVE  /\ PartS(n) \in Octets
           /\ ~Bit(n.flags, BitSource) => Len(PartS(n)) = 0
           /\ Bit(n.flags, BitSource) =>
                /\ n.snet = {The(n.snet)} /\ n.slen = {The(n.slen)} /\ n.sadr = {The(n.sadr)}
                /\ The(n.snet) \in Uint16s /\ The(n.slen) \in Octet /\ The(n.sadr) \in Octets
                /\ Len(The(n.sadr)) = The(n.slen)
                /\ Len(PartS(n)) = 3 + The(n.slen)
                /\ In(PartS(n), 0, PutUint16(The(n.snet))) /\ PartS(n)[3] = The(n.slen)
                /\ In(PartS(n), 3, The(n.sadr))
<1>0. n.snet \in Pointer(Uint16s) /\ n.slen \in Pointer(Octet) /\ n.sadr \in Pointer(Octets)
    BY NPDUFields
<1>1. CASE ~Bit(n.flags, BitSource)
  <2>1. PartS(n) = <<>>
    BY <1>1 DEF PartS
  <2> QED BY <1>1, <2>1, EmptySeq DEF Octets
<1>2. CASE Bit(n.flags, BitSource)
  <2>1. n.snet # {} /\ n.slen # {} /\ n.sadr # {} /\ Len(The(n.sadr)) = The(n.slen)
    BY <1>2, Zenon DEF NPDUValid
  <2>2. /\ n.snet = {The(n.snet)} /\ n.slen = {The(n.slen)} /\ n.sadr = {The(n.sadr)}
        /\ The(n.snet) \in Uint16s /\ The(n.slen) \in Octet /\ The(n.sadr) \in Octets
    BY <1>0, <2>1, Pointed
  <2> DEFINE a == The(n.sadr)
             s == Specifier(n.snet, n.slen, n.sadr)
  <2>3. s = PartS(n) /\ a = IF n.sadr = {} THEN <<>> ELSE The(n.sadr)
    BY <1>2, <2>1 DEF PartS
  <2> HIDE DEF s, a
  <2>4. /\ Specifier(n.snet, n.slen, n.sadr) \in Octets /\ a \in Octets
        /\ Len(Specifier(n.snet, n.slen, n.sadr)) = 3 + Len(a)
        /\ In(Specifier(n.snet, n.slen, n.sadr), 0, PutUint16(The(n.snet)))
        /\ Specifier(n.snet, n.slen, n.sadr)[3] = The(n.slen)
        /\ In(Specifier(n.snet, n.slen, n.sadr), 3, a)
    BY <1>0, <2>1, <2>3, SpecifierOctets
  <2>5. /\ s \in Octets /\ Len(s) = 3 + Len(a)
        /\ In(s, 0, PutUint16(The(n.snet))) /\ s[3] = The(n.slen) /\ In(s, 3, a)
    BY <2>4 DEF s
  <2> QED BY <1>2, <2>1, <2>2, <2>3, <2>5 DEF a
<1> QED BY <1>1, <1>2

\* The same for the message type and its vendor.
LEMMA PartTOctets ==
    ASSUME NEW n \in NPDUs, NPDUValid(n)
    PROVE  /\ PartT(n) \in Octets
           /\ ~Bit(n.flags, BitNetworkMessage) =>
                Len(PartT(n)) = 0 /\ n.messageType = {} /\ n.vendorId = {}
           /\ Bit(n.flags, BitNetworkMessage) =>
                /\ n.messageType = {The(n.messageType)} /\ The(n.messageType) \in Octet
                /\ PartT(n)[1] = The(n.messageType)
                /\ IF The(n.messageType) >= 128
                   THEN /\ n.vendorId = {The(n.vendorId)} /\ The(n.vendorId) \in Uint16s
                        /\ Len(PartT(n)) = 3 /\ In(PartT(n), 1, PutUint16(The(n.vendorId)))
                   ELSE n.vendorId = {} /\ Len(PartT(n)) = 1
<1>0. n.messageType \in Pointer(Octet) /\ n.vendorId \in Pointer(Uint16s)
    BY NPDUFields
<1>1. CASE ~Bit(n.flags, BitNetworkMessage)
  <2>1. PartT(n) = <<>>
    BY <1>1 DEF PartT
  <2>2. n.messageType = {} /\ n.vendorId = {}
    BY <1>1, Zenon DEF NPDUValid
  <2> QED BY <1>1, <2>1, <2>2, EmptySeq DEF Octets
<1>2. CASE Bit(n.flags, BitNetworkMessage)
  <2>1. n.messageType # {} /\ (The(n.messageType) >= 128 <=> n.vendorId # {})
    BY <1>2, Zenon DEF NPDUValid
  <2>2. n.messageType = {The(n.messageType)} /\ The(n.messageType) \in Octet
    BY <1>0, <2>1, Pointed
  <2> DEFINE t == <<The(n.messageType)>>
             v == IF The(n.messageType) >= 128 THEN PutUint16(The(n.vendorId)) ELSE <<>>
             s == t \o v
  <2>3. PartT(n) = s
    BY <1>2 DEF PartT
  <2>4. t \in Octets /\ Len(t) = 1 /\ t[1] = The(n.messageType)
    BY <2>2, PairOctets
  <2>5. The(n.messageType) >= 128 => /\ n.vendorId = {The(n.vendorId)} /\ The(n.vendorId) \in Uint16s
    BY <1>0, <2>1, Pointed
  <2>6. /\ v \in Octets
        /\ Len(v) = IF The(n.messageType) >= 128 THEN 2 ELSE 0
    <3>1. CASE The(n.messageType) >= 128
      BY <2>5, <3>1, PutOctets DEF Uint16s
    <3>2. CASE ~(The(n.messageType) >= 128)
      <4>1. v = <<>>
        BY <3>2
      <4> QED BY <3>2, <4>1, EmptySeq DEF Octets
    <3> QED BY <3>1, <3>2
  <2>7. The(n.messageType) >= 128 => v = PutUint16(The(n.vendorId))
    OBVIOUS
  <2> HIDE DEF t, v
  <2>8. s \in Octets /\ Len(s) = Len(t) + Len(v) /\ In(s, 0, t) /\ In(s, Len(t), v)
    BY <2>4, <2>6, Concatenation, InConcatenation
  <2> HIDE DEF s
  <2>9. s[0 + 1] = t[1] /\ Len(s) = 1 + Len(v) /\ In(s, 1, v)
    BY <2>4, <2>8 DEF In
  <2>10. /\ PartT(n) \in Octets /\ PartT(n)[1] = The(n.messageType)
         /\ Len(PartT(n)) = IF The(n.messageType) >= 128 THEN 3 ELSE 1
    BY <2>3, <2>4, <2>6, <2>8, <2>9
  <2>11. The(n.messageType) >= 128 => In(PartT(n), 1, PutUint16(The(n.vendorId)))
    BY <2>3, <2>7, <2>9
  <2> QED BY <1>2, <2>1, <2>2, <2>5, <2>10, <2>11
<1> QED BY <1>1, <1>2

\* An octet is a number.
LEMMA OctetNat == \A o \in Octet : o \in Nat
BY DEF Octet

\* The parts of an encoded NPDU and where they stand.
Layout(x, n) ==
    LET b == 2 + Len(PartD(n))
        c == b + Len(PartS(n))
        e == c + Len(PartH(n))
        f == e + Len(PartT(n))
    IN  /\ x \in Octets /\ Len(x) = f + Len(n.apdu)
        /\ x[1] = n.version /\ x[2] = n.flags
        /\ In(x, 2, PartD(n)) /\ In(x, b, PartS(n)) /\ In(x, c, PartH(n))
        /\ In(x, e, PartT(n)) /\ From(x, f) = n.apdu

\* Every part of a valid NPDU is found in its octets at the place NPDUDecode reads.
LEMMA NPDULayout ==
    ASSUME NEW n \in NPDUs, NPDUValid(n)
    PROVE  \E x : NPDUEncode(n) = {x} /\ Layout(x, n)
<1> DEFINE h == <<n.version, n.flags>>
           x == h \o PartD(n) \o PartS(n) \o PartH(n) \o PartT(n) \o n.apdu
<1>1. h \in Octets /\ Len(h) = 2 /\ h[1] = n.version /\ h[2] = n.flags
    BY NPDUFields, PairOctets
<1>2. PartD(n) \in Octets /\ PartS(n) \in Octets /\ PartH(n) \in Octets /\ PartT(n) \in Octets
      /\ n.apdu \in Octets
    BY PartDOctets, PartSOctets, PartTOctets, NPDUFields
<1>3. NPDUEncode(n) = {x}
    BY NPDUEncodes
<1>x. x = h \o PartD(n) \o PartS(n) \o PartH(n) \o PartT(n) \o n.apdu
    OBVIOUS
<1> HIDE DEF h, x
<1>4. /\ x \in Octets
      /\ Len(x) = Len(h) + Len(PartD(n)) + Len(PartS(n)) + Len(PartH(n)) + Len(PartT(n)) + Len(n.apdu)
      /\ In(x, 0, h) /\ In(x, Len(h), PartD(n)) /\ In(x, Len(h) + Len(PartD(n)), PartS(n))
      /\ In(x, Len(h) + Len(PartD(n)) + Len(PartS(n)), PartH(n))
      /\ In(x, Len(h) + Len(PartD(n)) + Len(PartS(n)) + Len(PartH(n)), PartT(n))
      /\ From(x, Len(h) + Len(PartD(n)) + Len(PartS(n)) + Len(PartH(n)) + Len(PartT(n))) = n.apdu
  <2>1. PICK a \in Octets, b \in Octets, c \in Octets, d \in Octets, e \in Octets, f \in Octets :
            a = h /\ b = PartD(n) /\ c = PartS(n) /\ d = PartH(n) /\ e = PartT(n) /\ f = n.apdu
    BY <1>1, <1>2
  <2>2. x = a \o b \o c \o d \o e \o f
    BY <1>x, <2>1
  <2>3. SixIn(x, a, b, c, d, e, f)
    BY <2>2, SixParts
  <2> QED BY <2>1, <2>3 DEF SixIn
<1>5. In(x, 0, h)
    BY <1>4
<1>6. x[0 + 1] = h[1] /\ x[0 + 2] = h[2]
    BY <1>1, <1>5 DEF In
<1>7. x[1] = n.version /\ x[2] = n.flags
    BY <1>1, <1>6
<1>8. Len(h) = 2
    BY <1>1
<1>9. Layout(x, n)
    BY <1>4, <1>7, <1>8, Zenon DEF Layout
<1> QED BY <1>3, <1>9

\* Where NPDUDecode is behind each part.
LEMMA CursorsBack ==
    ASSUME NEW n \in NPDUs, NPDUValid(n), NEW x, Layout(x, n)
    PROVE  /\ Dst(x) = Bit(n.flags, BitDestination) /\ Src(x) = Bit(n.flags, BitSource)
           /\ Nlm(x) = Bit(n.flags, BitNetworkMessage)
           /\ C1(x) = 2 + Len(PartD(n)) /\ C2(x) = C1(x) + Len(PartS(n))
           /\ C3(x) = C2(x) + Len(PartH(n)) /\ C4(x) = C3(x) + Len(PartT(n))
           /\ C1(x) \in Nat /\ C2(x) \in Nat /\ C3(x) \in Nat /\ C4(x) \in Nat
           /\ Len(x) \in Nat /\ C4(x) <= Len(x)
           /\ Dst(x) => x[5] = The(n.dlen)
           /\ Src(x) => x[C1(x) + 3] = The(n.slen)
           /\ Dst(x) => x[C3(x)] = The(n.hopCount)
           /\ Nlm(x) => Mt(x) = The(n.messageType)
<1> DEFINE b == 2 + Len(PartD(n))
           c == b + Len(PartS(n))
           e == c + Len(PartH(n))
           f == e + Len(PartT(n))
<1>0. /\ x \in Octets /\ Len(x) = f + Len(n.apdu) /\ x[1] = n.version /\ x[2] = n.flags
      /\ In(x, 2, PartD(n)) /\ In(x, b, PartS(n)) /\ In(x, c, PartH(n)) /\ In(x, e, PartT(n))
    BY DEF Layout
<1>1. /\ Len(PartD(n)) \in Nat /\ Len(PartS(n)) \in Nat /\ Len(PartH(n)) \in Nat
      /\ Len(PartT(n)) \in Nat /\ Len(n.apdu) \in Nat
    BY PartDOctets, PartSOctets, PartTOctets, NPDUFields DEF Octets
<1>2. b \in Nat /\ c \in Nat /\ e \in Nat /\ f \in Nat /\ f <= Len(x) /\ Len(x) \in Nat
  <2>1. Len(x) = f + Len(n.apdu)
    BY <1>0
  <2>2. b \in Nat
    BY <1>1
  <2> HIDE DEF b
  <2>3. c \in Nat
    BY <1>1, <2>2
  <2> HIDE DEF c
  <2>4. e \in Nat
    BY <1>1, <2>3
  <2> HIDE DEF e
  <2>5. f \in Nat
    BY <1>1, <2>4
  <2> HIDE DEF f
  <2> QED BY <1>1, <2>1, <2>2, <2>3, <2>4, <2>5
<1>3. /\ Dst(x) = Bit(n.flags, BitDestination) /\ Src(x) = Bit(n.flags, BitSource)
      /\ Nlm(x) = Bit(n.flags, BitNetworkMessage)
    BY <1>0 DEF Dst, Src, Nlm
<1> HIDE DEF b, c, e, f
<1>4. Dst(x) => x[5] = The(n.dlen) /\ The(n.dlen) \in Nat /\ b = 5 + The(n.dlen)
                /\ e = c + 1
  <2> SUFFICES ASSUME Dst(x) PROVE <1>4!2
    OBVIOUS
  <2>1. /\ Len(PartD(n)) = 3 + The(n.dlen) /\ PartD(n)[3] = The(n.dlen) /\ The(n.dlen) \in Octet
        /\ Len(PartH(n)) = 1
    BY <1>3, PartDOctets
  <2>2. The(n.dlen) \in Nat
    BY <2>1, OctetNat
  <2>3. x[2 + 3] = PartD(n)[3]
    BY <1>0, <2>1, <2>2 DEF In
  <2> QED BY <1>1, <2>1, <2>2, <2>3 DEF b, e
<1>5. ~Dst(x) => b = 2 /\ e = c
    BY <1>1, <1>2, <1>3, PartDOctets DEF b, e
<1>6. C1(x) = b
    BY <1>4, <1>5 DEF C1
<1>7. Src(x) => x[b + 3] = The(n.slen) /\ c = b + 3 + The(n.slen)
  <2> SUFFICES ASSUME Src(x) PROVE <1>7!2
    OBVIOUS
  <2>1. Len(PartS(n)) = 3 + The(n.slen) /\ PartS(n)[3] = The(n.slen) /\ The(n.slen) \in Octet
    BY <1>3, PartSOctets
  <2>2. The(n.slen) \in Nat
    BY <2>1, OctetNat
  <2>3. x[b + 3] = PartS(n)[3]
    BY <1>0, <2>1, <2>2 DEF In
  <2> QED BY <1>1, <1>2, <2>1, <2>2, <2>3 DEF c
<1>8. ~Src(x) => c = b
    BY <1>1, <1>2, <1>3, PartSOctets DEF c
<1>9. C2(x) = c
    BY <1>6, <1>7, <1>8 DEF C2
<1>10. C3(x) = e
    BY <1>4, <1>5, <1>9 DEF C3
<1>11. Dst(x) => x[e] = The(n.hopCount)
  <2> SUFFICES ASSUME Dst(x) PROVE x[e] = The(n.hopCount)
    OBVIOUS
  <2>1. Len(PartH(n)) = 1 /\ PartH(n)[1] = The(n.hopCount)
    BY <1>3, PartDOctets
  <2>2. x[c + 1] = PartH(n)[1]
    BY <1>0, <2>1 DEF In
  <2> QED BY <1>4, <2>1, <2>2
<1>12. Nlm(x) => /\ Mt(x) = The(n.messageType)
                 /\ f = e + (IF The(n.messageType) >= 128 THEN 3 ELSE 1)
  <2> SUFFICES ASSUME Nlm(x) PROVE <1>12!2
    OBVIOUS
  <2>1. /\ Len(PartT(n)) = IF The(n.messageType) >= 128 THEN 3 ELSE 1
        /\ PartT(n)[1] = The(n.messageType)
    BY <1>3, PartTOctets
  <2>2. x[e + 1] = PartT(n)[1]
    BY <1>0, <2>1 DEF In
  <2> QED BY <1>10, <2>1, <2>2 DEF Mt, f
<1>13. ~Nlm(x) => f = e
    BY <1>1, <1>2, <1>3, PartTOctets DEF f
<1>14. C4(x) = f
    BY <1>10, <1>12, <1>13 DEF C4
<1> QED BY <1>2, <1>3, <1>4, <1>6, <1>7, <1>9, <1>10, <1>11, <1>12, <1>14 DEF b, c, e, f

\* What NPDUDecode reads.
LEMMA FieldsBack ==
    ASSUME NEW n \in NPDUs, NPDUValid(n), NEW x, Layout(x, n)
    PROVE  ReadNPDU(x) = n
<1>0. /\ Dst(x) = Bit(n.flags, BitDestination) /\ Src(x) = Bit(n.flags, BitSource)
      /\ Nlm(x) = Bit(n.flags, BitNetworkMessage)
      /\ C1(x) = 2 + Len(PartD(n)) /\ C2(x) = C1(x) + Len(PartS(n))
      /\ C3(x) = C2(x) + Len(PartH(n)) /\ C4(x) = C3(x) + Len(PartT(n))
      /\ C1(x) \in Nat /\ C2(x) \in Nat /\ C3(x) \in Nat /\ C4(x) \in Nat
      /\ Len(x) \in Nat /\ C4(x) <= Len(x)
      /\ Dst(x) => x[5] = The(n.dlen)
      /\ Src(x) => x[C1(x) + 3] = The(n.slen)
      /\ Dst(x) => x[C3(x)] = The(n.hopCount)
      /\ Nlm(x) => Mt(x) = The(n.messageType)
    BY CursorsBack
<1>1. /\ x \in Octets /\ x[1] = n.version /\ x[2] = n.flags /\ In(x, 2, PartD(n))
      /\ In(x, C1(x), PartS(n)) /\ In(x, C3(x), PartT(n)) /\ From(x, C4(x)) = n.apdu
  <2>1. /\ x \in Octets /\ x[1] = n.version /\ x[2] = n.flags /\ In(x, 2, PartD(n))
        /\ In(x, 2 + Len(PartD(n)), PartS(n))
        /\ In(x, 2 + Len(PartD(n)) + Len(PartS(n)) + Len(PartH(n)), PartT(n))
        /\ From(x, 2 + Len(PartD(n)) + Len(PartS(n)) + Len(PartH(n)) + Len(PartT(n))) = n.apdu
    BY DEF Layout
  <2> QED BY <1>0, <2>1
<1>2. PartD(n) \in Octets /\ PartS(n) \in Octets /\ PartT(n) \in Octets /\ 0 \in Nat /\ 1 \in Nat
      /\ 2 \in Nat /\ 3 \in Nat
    BY PartDOctets, PartSOctets, PartTOctets
<1>3. Dst(x) => /\ n.dnet = {Uint16(x, 3)} /\ n.dlen = {x[5]} /\ n.hopCount = {x[C3(x)]}
                /\ n.dadr = IF x[5] > 0 THEN {SubSeq(x, 6, C1(x))} ELSE {}
  <2> SUFFICES ASSUME Dst(x) PROVE <1>3!2
    OBVIOUS
  <2>1. /\ n.dnet = {The(n.dnet)} /\ n.dlen = {The(n.dlen)} /\ n.hopCount = {The(n.hopCount)}
        /\ The(n.dnet) \in Uint16s /\ The(n.dlen) \in Octet
        /\ Len(PartD(n)) = 3 + The(n.dlen)
        /\ In(PartD(n), 0, PutUint16(The(n.dnet)))
        /\ IF The(n.dlen) = 0 THEN n.dadr = {}
           ELSE /\ n.dadr = {The(n.dadr)} /\ The(n.dadr) \in Octets
                /\ Len(The(n.dadr)) = The(n.dlen) /\ In(PartD(n), 3, The(n.dadr))
    BY <1>0, PartDOctets
  <2>2. PutUint16(The(n.dnet)) \in Octets /\ The(n.dlen) \in Nat
    BY <2>1, PutOctets, OctetNat DEF Uint16s
  <2>3. In(x, 2 + 0, PutUint16(The(n.dnet)))
    BY <1>0, <1>1, <1>2, <2>1, <2>2, InIn
  <2>4. Uint16(x, 3) = The(n.dnet)
    <3>1. In(x, 2, PutUint16(The(n.dnet))) /\ The(n.dnet) \in 0 .. MaxUint16
      BY <2>1, <2>3 DEF Uint16s
    <3>2. Uint16(x, 2 + 1) = The(n.dnet)
      BY <1>2, <3>1, InUint16
    <3> QED BY <3>2
  <2>5. ASSUME The(n.dlen) # 0 PROVE SubSeq(x, 6, C1(x)) = The(n.dadr)
    <3>1. In(x, 2 + 3, The(n.dadr))
      BY <1>0, <1>1, <1>2, <2>1, <2>5, InIn
    <3>2. SubSeq(x, 5 + 1, 5 + Len(The(n.dadr))) = The(n.dadr)
      BY <1>1, <2>1, <2>5, <3>1, InPiece
    <3>3. 5 + Len(The(n.dadr)) = C1(x)
      <4>1. C1(x) = 2 + Len(PartD(n)) /\ Len(PartD(n)) = 3 + The(n.dlen) /\ Len(The(n.dadr)) = The(n.dlen)
        BY <1>0, <2>1, <2>5
      <4> QED BY <2>2, <4>1
    <3> QED BY <3>2, <3>3
  <2>6. x[5] = The(n.dlen) /\ (x[5] > 0 <=> The(n.dlen) # 0)
    BY <1>0, <2>2
  <2>7. n.dadr = IF x[5] > 0 THEN {SubSeq(x, 6, C1(x))} ELSE {}
    BY <2>1, <2>5, <2>6
  <2>8. x[C3(x)] = The(n.hopCount)
    BY <1>0
  <2> QED BY <2>1, <2>4, <2>6, <2>7, <2>8
<1>4. Src(x) => /\ n.snet = {Uint16(x, C1(x) + 1)} /\ n.slen = {x[C1(x) + 3]}
                /\ n.sadr = {SubSeq(x, C1(x) + 4, C2(x))}
  <2> SUFFICES ASSUME Src(x) PROVE <1>4!2
    OBVIOUS
  <2>1. /\ n.snet = {The(n.snet)} /\ n.slen = {The(n.slen)} /\ n.sadr = {The(n.sadr)}
        /\ The(n.snet) \in Uint16s /\ The(n.slen) \in Octet /\ The(n.sadr) \in Octets
        /\ Len(The(n.sadr)) = The(n.slen) /\ Len(PartS(n)) = 3 + The(n.slen)
        /\ In(PartS(n), 0, PutUint16(The(n.snet))) /\ In(PartS(n), 3, The(n.sadr))
    BY <1>0, PartSOctets
  <2>2. PutUint16(The(n.snet)) \in Octets /\ The(n.slen) \in Nat
    BY <2>1, PutOctets, OctetNat DEF Uint16s
  <2>3. In(x, C1(x) + 0, PutUint16(The(n.snet)))
    BY <1>0, <1>1, <1>2, <2>1, <2>2, InIn
  <2>4. Uint16(x, C1(x) + 1) = The(n.snet)
    <3>1. C1(x) \in Nat /\ C1(x) + 0 = C1(x) /\ The(n.snet) \in 0 .. MaxUint16
      BY <1>0, <2>1 DEF Uint16s
    <3>2. In(x, C1(x), PutUint16(The(n.snet)))
      BY <2>3, <3>1
    <3> QED BY <3>1, <3>2, InUint16
  <2>5. In(x, C1(x) + 3, The(n.sadr))
    BY <1>0, <1>1, <1>2, <2>1, InIn
  <2>6. C1(x) + 3 \in Nat
    BY <1>0
  <2>7. SubSeq(x, C1(x) + 3 + 1, C1(x) + 3 + Len(The(n.sadr))) = The(n.sadr)
    BY <1>1, <2>1, <2>5, <2>6, InPiece
  <2>8. C1(x) + 3 + 1 = C1(x) + 4 /\ C1(x) + 3 + Len(The(n.sadr)) = C2(x)
    BY <1>0, <2>1, <2>2
  <2> QED BY <1>0, <2>1, <2>4, <2>7, <2>8
<1>5. Nlm(x) => /\ n.messageType = {Mt(x)}
                /\ n.vendorId = IF Mt(x) >= 128 THEN {Uint16(x, C3(x) + 2)} ELSE {}
  <2> SUFFICES ASSUME Nlm(x) PROVE <1>5!2
    OBVIOUS
  <2>1. /\ n.messageType = {The(n.messageType)}
        /\ IF The(n.messageType) >= 128
           THEN /\ n.vendorId = {The(n.vendorId)} /\ The(n.vendorId) \in Uint16s
                /\ In(PartT(n), 1, PutUint16(The(n.vendorId)))
           ELSE n.vendorId = {}
    BY <1>0, PartTOctets
  <2>2. ASSUME The(n.messageType) >= 128 PROVE Uint16(x, C3(x) + 2) = The(n.vendorId)
    <3>1. PutUint16(The(n.vendorId)) \in Octets
      BY <2>1, <2>2, PutOctets DEF Uint16s
    <3>2. In(x, C3(x) + 1, PutUint16(The(n.vendorId)))
      BY <1>0, <1>1, <1>2, <2>1, <2>2, <3>1, InIn
    <3>3. C3(x) + 1 \in Nat /\ C3(x) + 1 + 1 = C3(x) + 2
      BY <1>0
    <3>4. Uint16(x, C3(x) + 1 + 1) = The(n.vendorId)
      BY <2>1, <2>2, <3>2, <3>3, InUint16 DEF Uint16s
    <3> QED BY <3>3, <3>4
  <2> QED BY <1>0, <2>1, <2>2
<1>6. /\ ~Dst(x) => n.dnet = {} /\ n.dlen = {} /\ n.dadr = {} /\ n.hopCount = {}
      /\ ~Src(x) => n.snet = {} /\ n.slen = {} /\ n.sadr = {}
      /\ ~Nlm(x) => n.messageType = {} /\ n.vendorId = {}
    BY <1>0, Zenon DEF NPDUValid
<1>7. n = [version |-> n.version, flags |-> n.flags, dnet |-> n.dnet, dlen |-> n.dlen,
           dadr |-> n.dadr, snet |-> n.snet, slen |-> n.slen, sadr |-> n.sadr,
           hopCount |-> n.hopCount, messageType |-> n.messageType,
           vendorId |-> n.vendorId, apdu |-> n.apdu]
    BY NPDUFields
<1>8. /\ n.dnet = (IF Dst(x) THEN {Uint16(x, 3)} ELSE {})
      /\ n.dlen = (IF Dst(x) THEN {x[5]} ELSE {})
      /\ n.dadr = (IF Dst(x) /\ x[5] > 0 THEN {SubSeq(x, 6, C1(x))} ELSE {})
      /\ n.hopCount = (IF Dst(x) THEN {x[C3(x)]} ELSE {})
    BY <1>3, <1>6
<1>9. /\ n.snet = (IF Src(x) THEN {Uint16(x, C1(x) + 1)} ELSE {})
      /\ n.slen = (IF Src(x) THEN {x[C1(x) + 3]} ELSE {})
      /\ n.sadr = (IF Src(x) THEN {SubSeq(x, C1(x) + 4, C2(x))} ELSE {})
    BY <1>4, <1>6
<1>10. /\ n.messageType = (IF Nlm(x) THEN {Mt(x)} ELSE {})
       /\ n.vendorId = (IF Nlm(x) /\ Mt(x) >= 128 THEN {Uint16(x, C3(x) + 2)} ELSE {})
    BY <1>5, <1>6
<1> QED BY <1>1, <1>7, <1>8, <1>9, <1>10, Zenon DEF ReadNPDU

\* NPDUDecode accepts it.
LEMMA ReadableBack ==
    ASSUME NEW n \in NPDUs, NPDUValid(n), NEW x, Layout(x, n)
    PROVE  Readable(x)
<1>0. /\ Dst(x) = Bit(n.flags, BitDestination) /\ Src(x) = Bit(n.flags, BitSource)
      /\ Nlm(x) = Bit(n.flags, BitNetworkMessage)
      /\ C1(x) = 2 + Len(PartD(n)) /\ C2(x) = C1(x) + Len(PartS(n))
      /\ C3(x) = C2(x) + Len(PartH(n)) /\ C4(x) = C3(x) + Len(PartT(n))
      /\ C1(x) \in Nat /\ C2(x) \in Nat /\ C3(x) \in Nat /\ C4(x) \in Nat
      /\ Len(x) \in Nat /\ C4(x) <= Len(x)
    BY CursorsBack
<1>1. ReadNPDU(x) = n
    BY FieldsBack
<1>2. x[1] = n.version /\ x[2] = n.flags
    BY DEF Layout
<1>3. Len(PartD(n)) \in Nat /\ Len(PartS(n)) \in Nat /\ Len(PartH(n)) \in Nat /\ Len(PartT(n)) \in Nat
    BY PartDOctets, PartSOctets, PartTOctets DEF Octets
<1>4. C1(x) <= C2(x) /\ C2(x) <= C3(x) /\ C3(x) <= C4(x) /\ C1(x) >= 2
    BY <1>0, <1>3
<1>5. C1(x) <= Len(x) /\ C2(x) <= Len(x) /\ C3(x) <= Len(x) /\ Len(x) >= 2
    BY <1>0, <1>4
<1>6. x[1] = ProtocolVersion /\ ~Bit(x[2], BitReserved4) /\ ~Bit(x[2], BitReserved6)
    BY <1>2, Zenon DEF NPDUValid
<1>7. /\ n.dnet = (IF Dst(x) THEN {Uint16(x, 3)} ELSE {})
      /\ n.dlen = (IF Dst(x) THEN {x[5]} ELSE {})
      /\ n.snet = (IF Src(x) THEN {Uint16(x, C1(x) + 1)} ELSE {})
      /\ n.slen = (IF Src(x) THEN {x[C1(x) + 3]} ELSE {})
    BY <1>1, Zenon DEF ReadNPDU
<1>8. ASSUME NEW y PROVE The({y}) = y
    BY DEF The
<1>9. Dst(x) => /\ Len(x) >= 5 /\ Uint16(x, 3) # 0
                /\ x[5] > 0 => Uint16(x, 3) # GlobalBroadcastNetwork /\ C1(x) <= Len(x)
  <2> SUFFICES ASSUME Dst(x) PROVE <1>9!2
    OBVIOUS
  <2>1. The(n.dnet) = Uint16(x, 3) /\ The(n.dlen) = x[5]
    BY <1>7, <1>8
  <2>2. Len(PartD(n)) = 3 + The(n.dlen) /\ The(n.dlen) \in Octet
    BY <1>0, PartDOctets
  <2>3. /\ The(n.dnet) # 0
        /\ The(n.dlen) # 0 => The(n.dnet) # GlobalBroadcastNetwork
    BY <1>0, Zenon DEF NPDUValid
  <2>4. The(n.dlen) \in Nat
    BY <2>2, OctetNat
  <2>5. Len(x) >= 5
    <3>1. C1(x) = 2 + Len(PartD(n)) /\ Len(x) \in Nat
      BY <1>0
    <3> QED BY <1>5, <2>2, <2>4, <3>1
  <2>6. x[5] > 0 => The(n.dlen) # 0
    BY <2>1, <2>4
  <2> QED BY <1>5, <2>1, <2>3, <2>5, <2>6
<1>10. Src(x) => /\ C1(x) + 3 <= Len(x) /\ SnetValid(Uint16(x, C1(x) + 1))
                 /\ x[C1(x) + 3] # 0 /\ C2(x) <= Len(x)
  <2> SUFFICES ASSUME Src(x) PROVE <1>10!2
    OBVIOUS
  <2>1. The(n.snet) = Uint16(x, C1(x) + 1) /\ The(n.slen) = x[C1(x) + 3]
    BY <1>7, <1>8
  <2>2. Len(PartS(n)) = 3 + The(n.slen) /\ The(n.slen) \in Octet
    BY <1>0, PartSOctets
  <2>3. The(n.slen) # 0 /\ SnetValid(The(n.snet))
    BY <1>0, Zenon DEF NPDUValid
  <2>4. The(n.slen) \in Nat
    BY <2>2, OctetNat
  <2>5. C1(x) + 3 <= Len(x)
    BY <1>0, <1>5, <2>2, <2>4
  <2> QED BY <1>5, <2>1, <2>3, <2>5
<1>11. Nlm(x) => C3(x) < Len(x) /\ C4(x) <= Len(x)
  <2> SUFFICES ASSUME Nlm(x) PROVE C3(x) < Len(x) /\ C4(x) <= Len(x)
    OBVIOUS
  <2>1. Len(PartT(n)) \in {1, 3}
    BY <1>0, PartTOctets
  <2>2. C4(x) = C3(x) + Len(PartT(n)) /\ C4(x) <= Len(x) /\ C3(x) \in Nat /\ Len(x) \in Nat
    BY <1>0
  <2>3. C4(x) = C3(x) + 1 \/ C4(x) = C3(x) + 3
    BY <2>1, <2>2
  <2> QED BY <2>2, <2>3
<1>12. Nlm(x) => NormalizedPayload(MessageHeaderOf(ReadNPDU(x)), ReadNPDU(x).apdu) # {}
    BY <1>0, <1>1, Zenon DEF NPDUValid
<1> QED BY <1>5, <1>6, <1>9, <1>10, <1>11, <1>12 DEF Readable

\* A valid NPDU is read back.
LEMMA NPDUBack ==
    ASSUME NEW n \in NPDUs, NPDUValid(n)
    PROVE  \E x \in Octets : /\ NPDUEncode(n) = {x} /\ NPDUDecode(x) = {n} /\ x # <<>>
                             /\ Layout(x, n)
<1>1. PICK x : NPDUEncode(n) = {x} /\ Layout(x, n)
    BY NPDULayout
<1>2. NPDUDecode(x) = {n}
    BY <1>1, NPDUDecodes, FieldsBack, ReadableBack
<1>3. x \in Octets
    BY <1>1 DEF Layout
<1>4. x # <<>>
  <2>1. Len(x) >= 2
    BY <1>1, ReadableBack DEF Readable
  <2> QED BY <2>1
<1> QED BY <1>1, <1>2, <1>3, <1>4

\* The flags of an NPDU of an application.
Flags(p, r, d, s) ==
    p + Flag(r, BitExpectingReply) + Flag(d, BitDestination) + Flag(s, BitSource)

\* The control octet keeps the priority and each of the flags.
LEMMA FlagBits ==
    ASSUME NEW p \in 0 .. MaxPriority, NEW r \in BOOLEAN, NEW d \in BOOLEAN, NEW s \in BOOLEAN
    PROVE  /\ Flags(p, r, d, s) \in Octet /\ Flags(p, r, d, s) % 4 = p
           /\ Bit(Flags(p, r, d, s), BitDestination) <=> d
           /\ Bit(Flags(p, r, d, s), BitSource) <=> s
           /\ ~Bit(Flags(p, r, d, s), BitNetworkMessage)
<1> DEFINE f == Flags(p, r, d, s)
<1>1. p \in 0 .. 3
    BY DEF MaxPriority
<1>2. f = p + (IF r THEN 4 ELSE 0) + (IF d THEN 32 ELSE 0) + (IF s THEN 8 ELSE 0)
    BY DEF Flags, Flag, BitExpectingReply, BitDestination, BitSource
<1> HIDE DEF f
<1>3. f \in 0 .. 47 /\ f % 4 = p
    BY <1>1, <1>2
<1>4. ((f \div 32) % 2 = 1) <=> d
    BY <1>1, <1>2
<1>5. ((f \div 8) % 2 = 1) <=> s
    BY <1>1, <1>2
<1>6. (f \div 128) % 2 = 0
    BY <1>3
<1>7. f \in Octet
    BY <1>3 DEF Octet
<1> QED BY <1>3, <1>4, <1>5, <1>6, <1>7 DEF f, Bit, BitDestination, BitSource, BitNetworkMessage

\* A source or a destination as an NPCI has it.
Sources == Pointer([snet : Uint16s, sadr : Octets])
Destinations == Pointer([dnet : Uint16s, dadr : Octets, hopCount : Octet])

\* The NPDU of an application, and what its accessors say of it.
Carries(n, p, to, by, payload) ==
    /\ n \in NPDUs /\ n.apdu = payload
    /\ ~IsNetworkLayerMessage(n) /\ Priority(n) = p
    /\ (HasSourceSpecifier(n) <=> by # {}) /\ (HasDestinationSpecifier(n) <=> to # {})
    /\ \A s \in by : /\ n.snet = {s.snet} /\ n.sadr = {s.sadr}
                     /\ SnetValid(s.snet) /\ Len(s.sadr) \in 1 .. 255
    /\ \A t \in to : /\ n.dnet = {t.dnet} /\ n.hopCount = {t.hopCount}
                     /\ n.dadr = IF t.dadr = <<>> THEN {} ELSE {t.dadr}

\* NewApplicationNPDU keeps the route, the priority and the APDU it was given.
LEMMA ApplicationNPDU ==
    ASSUME NEW p \in Nat, NEW r \in BOOLEAN, NEW to \in Destinations, NEW by \in Sources,
           NEW payload \in Octets,
           NEW n \in NewApplicationNPDU(ApplicationNPCI(p, r, to, by), payload)
    PROVE  Carries(n, p, to, by, payload)
<1> DEFINE dst == to # {}
           src == by # {}
           t == The(to)
           s == The(by)
           f == Flags(p, r, dst, src)
           d == IF dst THEN {t.dnet} ELSE {}
           dl == IF dst THEN {Len(t.dadr)} ELSE {}
           da == IF dst /\ t.dadr # <<>> THEN {t.dadr} ELSE {}
           hc == IF dst THEN {t.hopCount} ELSE {}
           sn == IF src THEN {s.snet} ELSE {}
           sl == IF src THEN {Len(s.sadr)} ELSE {}
           sa == IF src THEN {s.sadr} ELSE {}
           base == [version |-> ProtocolVersion, flags |-> f, dnet |-> d, dlen |-> dl, dadr |-> da,
                    hopCount |-> hc, snet |-> sn, slen |-> sl, sadr |-> sa,
                    messageType |-> {}, vendorId |-> {}, apdu |-> <<>>]
<1>1. /\ p <= MaxPriority /\ n = [base EXCEPT !.apdu = payload]
      /\ dst => Len(t.dadr) <= 255
      /\ src => Len(s.sadr) \in 1 .. 255 /\ SnetValid(s.snet)
  <2>1. ~(p > MaxPriority)
    BY DEF NewApplicationNPDU, ApplicationNPCI
  <2>2. PICK m \in newNPDUWithNPCI(ApplicationNPCI(p, r, to, by)) : n = [m EXCEPT !.apdu = payload]
    BY DEF NewApplicationNPDU, ApplicationNPCI
  <2>3. m = base /\ (dst => Len(t.dadr) <= 255)
        /\ (src => Len(s.sadr) \in 1 .. 255 /\ SnetValid(s.snet))
    BY <2>2, Zenon DEF newNPDUWithNPCI, ApplicationNPCI, When, Flags
  <2>4. p <= MaxPriority
    BY <2>1 DEF MaxPriority
  <2> QED BY <2>2, <2>3, <2>4
<1> HIDE DEF f, d, dl, da, hc, sn, sl, sa
<1>2. n = [version |-> ProtocolVersion, flags |-> f, dnet |-> d, dlen |-> dl, dadr |-> da,
           hopCount |-> hc, snet |-> sn, slen |-> sl, sadr |-> sa,
           messageType |-> {}, vendorId |-> {}, apdu |-> payload]
    BY <1>1
<1> HIDE DEF base
<1>3. /\ f \in Octet /\ f % 4 = p
      /\ (Bit(f, BitDestination) <=> dst) /\ (Bit(f, BitSource) <=> src)
      /\ ~Bit(f, BitNetworkMessage)
  <2>1. p \in 0 .. MaxPriority
    BY <1>1 DEF MaxPriority
  <2>2. dst \in BOOLEAN /\ src \in BOOLEAN
    OBVIOUS
  <2> HIDE DEF dst, src
  <2> QED BY <2>1, <2>2, FlagBits DEF f
<1>4. dst => t \in [dnet : Uint16s, dadr : Octets, hopCount : Octet] /\ to = {t}
    BY Pointed DEF Destinations
<1>5. src => s \in [snet : Uint16s, sadr : Octets] /\ by = {s}
    BY Pointed DEF Sources
<1> HIDE DEF t, s
<1>6. /\ d \in Pointer(Uint16s) /\ dl \in Pointer(Octet) /\ da \in Pointer(Octets) /\ hc \in Pointer(Octet)
  <2>1. CASE dst
    <3>1. t.dnet \in Uint16s /\ t.dadr \in Octets /\ t.hopCount \in Octet
      BY <1>4, <2>1
    <3>2. Len(t.dadr) \in Octet
      <4>1. Len(t.dadr) \in Nat /\ Len(t.dadr) <= 255
        BY <1>1, <2>1, <3>1 DEF Octets
      <4>2. \A k \in Nat : k <= 255 => k \in Octet
        BY DEF Octet
      <4> QED BY <4>1, <4>2, Zenon
    <3> QED BY <2>1, <3>1, <3>2 DEF d, dl, da, hc, Pointer
  <2>2. CASE ~dst
    BY <2>2 DEF d, dl, da, hc, Pointer
  <2> QED BY <2>1, <2>2
<1>7. sn \in Pointer(Uint16s) /\ sl \in Pointer(Octet) /\ sa \in Pointer(Octets)
  <2>1. CASE src
    <3>1. s.snet \in Uint16s /\ s.sadr \in Octets
      BY <1>5, <2>1
    <3>2. Len(s.sadr) \in Octet
      BY <1>1, <2>1, <3>1 DEF Octet, Octets
    <3> QED BY <2>1, <3>1, <3>2 DEF sn, sl, sa, Pointer
  <2>2. CASE ~src
    BY <2>2 DEF sn, sl, sa, Pointer
  <2> QED BY <2>1, <2>2
<1>8. n \in NPDUs
  <2>1. ProtocolVersion \in Octet
    BY DEF ProtocolVersion, Octet
  <2>2. \A S : {} \in Pointer(S)
    BY DEF Pointer
  <2> QED BY <1>2, <1>3, <1>6, <1>7, <2>1, <2>2 DEF NPDUs
<1>9. /\ n.apdu = payload /\ n.flags = f /\ n.dnet = d /\ n.dadr = da /\ n.hopCount = hc
      /\ n.snet = sn /\ n.sadr = sa
    BY <1>2
<1>10. /\ ~IsNetworkLayerMessage(n) /\ Priority(n) = p
       /\ (HasSourceSpecifier(n) <=> src) /\ (HasDestinationSpecifier(n) <=> dst)
    BY <1>3, <1>9 DEF IsNetworkLayerMessage, Priority, HasSourceSpecifier, HasDestinationSpecifier
<1>11. \A q \in by : /\ n.snet = {q.snet} /\ n.sadr = {q.sadr}
                     /\ SnetValid(q.snet) /\ Len(q.sadr) \in 1 .. 255
    BY <1>1, <1>5, <1>9 DEF sn, sa
<1>12. \A q \in to : /\ n.dnet = {q.dnet} /\ n.hopCount = {q.hopCount}
                     /\ n.dadr = IF q.dadr = <<>> THEN {} ELSE {q.dadr}
    BY <1>4, <1>9 DEF d, da, hc
<1> QED BY <1>8, <1>9, <1>10, <1>11, <1>12 DEF Carries

-----------------------------------------------------------------------------
(***************************************************************************)
(* APDUs: encodeAPDU and decodeAPDU, type by type.                         *)
(***************************************************************************)

\* Octets with a head.
LEMMA Headed ==
    ASSUME NEW h \in Octets, NEW p \in Octets
    PROVE  /\ h \o p \in Octets /\ Len(h \o p) = Len(h) + Len(p)
           /\ \A i \in 1 .. Len(h) : (h \o p)[i] = h[i]
           /\ From(h \o p, Len(h)) = p
BY Concatenation, InConcatenation

\* Heads of two, three and four octets.
Head2In(x, a, b, p) ==
    /\ x \in Octets /\ Len(x) = 2 + Len(p) /\ Len(p) \in Nat /\ From(x, 2) = p
    /\ x[1] = a /\ x[2] = b

\* A head of two octets in front of the rest.
LEMMA Head2 ==
    ASSUME NEW a \in Octet, NEW b \in Octet, NEW p \in Octets
    PROVE  Head2In(<<a, b>> \o p, a, b, p)
<1> DEFINE h == <<a, b>>
<1>1. h \in Octets /\ Len(h) = 2 /\ h[1] = a /\ h[2] = b /\ Len(p) \in Nat
    BY DEF Octets
<1> HIDE DEF h
<1>2. /\ h \o p \in Octets /\ Len(h \o p) = Len(h) + Len(p)
      /\ \A i \in 1 .. Len(h) : (h \o p)[i] = h[i]
      /\ From(h \o p, Len(h)) = p
    BY <1>1, Headed
<1> DEFINE x == h \o p
<1>3. x \in Octets /\ Len(x) = Len(h) + Len(p) /\ (\A i \in 1 .. Len(h) : x[i] = h[i]) /\ From(x, Len(h)) = p
    BY <1>2
<1> HIDE DEF x
<1>4. Head2In(x, a, b, p)
    BY <1>1, <1>3 DEF Head2In
<1> QED BY <1>4 DEF x, h

Head3In(x, a, b, c, p) ==
    /\ x \in Octets /\ Len(x) = 3 + Len(p) /\ Len(p) \in Nat /\ From(x, 3) = p
    /\ x[1] = a /\ x[2] = b /\ x[3] = c

\* A head of three octets in front of the rest.
LEMMA Head3 ==
    ASSUME NEW a \in Octet, NEW b \in Octet, NEW c \in Octet, NEW p \in Octets
    PROVE  Head3In(<<a, b, c>> \o p, a, b, c, p)
<1> DEFINE h == <<a, b, c>>
<1>1. h \in Octets /\ Len(h) = 3 /\ h[1] = a /\ h[2] = b /\ h[3] = c /\ Len(p) \in Nat
    BY DEF Octets
<1> HIDE DEF h
<1>2. /\ h \o p \in Octets /\ Len(h \o p) = Len(h) + Len(p)
      /\ \A i \in 1 .. Len(h) : (h \o p)[i] = h[i]
      /\ From(h \o p, Len(h)) = p
    BY <1>1, Headed
<1> DEFINE x == h \o p
<1>3. x \in Octets /\ Len(x) = Len(h) + Len(p) /\ (\A i \in 1 .. Len(h) : x[i] = h[i]) /\ From(x, Len(h)) = p
    BY <1>2
<1> HIDE DEF x
<1>4. Head3In(x, a, b, c, p)
    BY <1>1, <1>3 DEF Head3In
<1> QED BY <1>4 DEF x, h

Head4In(x, a, b, c, d, p) ==
    /\ x \in Octets /\ Len(x) = 4 + Len(p) /\ Len(p) \in Nat /\ From(x, 4) = p
    /\ x[1] = a /\ x[2] = b /\ x[3] = c /\ x[4] = d

\* A head of four octets in front of the rest.
LEMMA Head4 ==
    ASSUME NEW a \in Octet, NEW b \in Octet, NEW c \in Octet, NEW d \in Octet, NEW p \in Octets
    PROVE  Head4In(<<a, b, c, d>> \o p, a, b, c, d, p)
<1> DEFINE h == <<a, b, c, d>>
<1>1. h \in Octets /\ Len(h) = 4 /\ h[1] = a /\ h[2] = b /\ h[3] = c /\ h[4] = d /\ Len(p) \in Nat
    BY DEF Octets
<1> HIDE DEF h
<1>2. /\ h \o p \in Octets /\ Len(h \o p) = Len(h) + Len(p)
      /\ \A i \in 1 .. Len(h) : (h \o p)[i] = h[i]
      /\ From(h \o p, Len(h)) = p
    BY <1>1, Headed
<1> DEFINE x == h \o p
<1>3. x \in Octets /\ Len(x) = Len(h) + Len(p) /\ (\A i \in 1 .. Len(h) : x[i] = h[i]) /\ From(x, Len(h)) = p
    BY <1>2
<1> HIDE DEF x
<1>4. Head4In(x, a, b, c, d, p)
    BY <1>1, <1>3 DEF Head4In
<1> QED BY <1>4 DEF x, h

\* The fields of an APDU.
Fields == {"type", "segmented", "more", "accepted", "negative", "server", "maxSegments",
           "maxLength", "invoke", "seq", "window", "service", "payload"}
IsAPDU(r) == r = [x \in Fields |-> r[x]]
Agree(r, s, F) == \A x \in Fields \ F : r[x] = s[x]

\* Two APDUs that agree in every field are the same.
LEMMA SameAPDU ==
    ASSUME NEW r, NEW s, IsAPDU(r), IsAPDU(s), NEW F, Agree(r, s, F), \A x \in F : r[x] = s[x]
    PROVE  r = s
<1>1. \A x \in Fields : r[x] = s[x]
    BY DEF Agree
<1> QED BY <1>1 DEF IsAPDU

\* The fields of a normal APDU have the types of inboundAPDU.
LEMMA APDUFields ==
    ASSUME NEW a, Normal(a)
    PROVE  /\ IsAPDU(a)
           /\ a.type \in 0 .. 7 /\ a.segmented \in BOOLEAN /\ a.more \in BOOLEAN
           /\ a.accepted \in BOOLEAN /\ a.negative \in BOOLEAN /\ a.server \in BOOLEAN
           /\ a.maxSegments \in 0 .. 7 /\ a.invoke \in Octet /\ a.seq \in Octet
           /\ a.window \in Octet /\ a.service \in Octet /\ a.payload \in Octets
<1>1. a = [type |-> a.type, segmented |-> a.segmented, more |-> a.more,
           accepted |-> a.accepted, negative |-> a.negative, server |-> a.server,
           maxSegments |-> a.maxSegments, maxLength |-> a.maxLength,
           invoke |-> a.invoke, seq |-> a.seq, window |-> a.window,
           service |-> a.service, payload |-> a.payload]
    BY DEF Normal
<1>2. IsAPDU(a)
    BY <1>1 DEF IsAPDU, Fields
<1> QED BY <1>2 DEF Normal, ConfirmedRequest, Abort, Octets

\* The APDU that PDUDecode starts from.
Blank(t) == [ZeroAPDU EXCEPT !.type = t]

\* decodeAPDU starts from an APDU of zeros.
LEMMA BlankFields ==
    ASSUME NEW t
    PROVE  /\ IsAPDU(Blank(t)) /\ Blank(t).type = t
           /\ Blank(t).segmented = FALSE /\ Blank(t).more = FALSE /\ Blank(t).accepted = FALSE
           /\ Blank(t).negative = FALSE /\ Blank(t).server = FALSE
           /\ Blank(t).maxSegments = 0 /\ Blank(t).maxLength = 0 /\ Blank(t).invoke = 0
           /\ Blank(t).seq = 0 /\ Blank(t).window = 0 /\ Blank(t).service = 0
           /\ Blank(t).payload = <<>>
<1> DEFINE z == ZeroAPDU
<1>1. IsAPDU(z)
    BY DEF IsAPDU, Fields, ZeroAPDU
<1>2. /\ z.segmented = FALSE /\ z.more = FALSE /\ z.accepted = FALSE
      /\ z.negative = FALSE /\ z.server = FALSE /\ z.maxSegments = 0 /\ z.maxLength = 0
      /\ z.invoke = 0 /\ z.seq = 0 /\ z.window = 0 /\ z.service = 0 /\ z.payload = <<>>
    BY DEF ZeroAPDU
<1>3. Blank(t) = [z EXCEPT !.type = t]
    BY DEF Blank
<1> HIDE DEF z
<1> DEFINE b == Blank(t)
<1>4. b = [z EXCEPT !.type = t]
    BY <1>3
<1> HIDE DEF b
<1>5. IsAPDU(b) /\ b.type = t
    BY <1>1, <1>4 DEF IsAPDU, Fields
<1>6. \A x \in Fields \ {"type"} : b[x] = z[x]
    BY <1>1, <1>4 DEF IsAPDU
<1>7. /\ b.segmented = z.segmented /\ b.more = z.more /\ b.accepted = z.accepted
      /\ b.negative = z.negative /\ b.server = z.server /\ b.maxSegments = z.maxSegments
      /\ b.maxLength = z.maxLength /\ b.invoke = z.invoke /\ b.seq = z.seq /\ b.window = z.window
      /\ b.service = z.service /\ b.payload = z.payload
    BY <1>6 DEF Fields
<1> QED BY <1>2, <1>5, <1>7 DEF b

\* decodeAPDU takes the PDU type from the first octet and decodes the rest by it.
LEMMA StartsBlank ==
    ASSUME NEW raw \in Octets, Len(raw) >= 1, NEW t, raw[1] \div 16 = t
    PROVE  raw # <<>> /\ decodeAPDU(raw) = PDUDecode(Blank(t), raw)
<1>1. raw # <<>>
    OBVIOUS
<1> QED BY <1>1 DEF decodeAPDU, Blank

\* What is left of a blank APDU that a normal one of the type has as well.
LEMMA BlankAgrees ==
    ASSUME NEW a, Normal(a), NEW F,
           \A x \in {"segmented", "more", "accepted", "negative", "server"} \ F : a[x] = FALSE,
           \A x \in {"maxSegments", "maxLength", "invoke", "seq", "window", "service"} \ F : a[x] = 0,
           "payload" \notin F => a.payload = <<>>
    PROVE  Agree(Blank(a.type), a, F)
<1> DEFINE b == Blank(a.type)
<1>1. /\ b.type = a.type
      /\ \A x \in {"segmented", "more", "accepted", "negative", "server"} : b[x] = FALSE
      /\ \A x \in {"maxSegments", "maxLength", "invoke", "seq", "window", "service"} : b[x] = 0
      /\ b.payload = <<>>
  <2> DEFINE t == a.type
  <2>1. b = Blank(t)
    OBVIOUS
  <2> HIDE DEF b
  <2>2. /\ b.type = t
        /\ b.segmented = FALSE /\ b.more = FALSE /\ b.accepted = FALSE
        /\ b.negative = FALSE /\ b.server = FALSE
        /\ b.maxSegments = 0 /\ b.maxLength = 0 /\ b.invoke = 0
        /\ b.seq = 0 /\ b.window = 0 /\ b.service = 0 /\ b.payload = <<>>
    BY <2>1, BlankFields, Zenon
  <2> QED BY <2>2, Zenon
<1> HIDE DEF b
<1>2. \A x \in {"segmented", "more", "accepted", "negative", "server"} \ F : b[x] = a[x]
    BY <1>1, Zenon
<1>3. \A x \in {"maxSegments", "maxLength", "invoke", "seq", "window", "service"} \ F : b[x] = a[x]
    BY <1>1, Zenon
<1>4. "payload" \notin F => b["payload"] = a["payload"]
    BY <1>1
<1>5. b["type"] = a["type"]
    BY <1>1
<1>6. \A x \in Fields \ F : b[x] = a[x]
    BY <1>2, <1>3, <1>4, <1>5, Zenon DEF Fields
<1> QED BY <1>6 DEF Agree, b

\* What the code of a length stands for.
LEMMA CodeBack ==
    ASSUME NEW k \in 1 .. 6
    PROVE  /\ maxAPDUCodeForLength(Lengths[k]) = {k - 1}
           /\ maxAPDULengthForCode(k - 1) = {Lengths[k]}
<1>1. /\ Lengths[1] = 50 /\ Lengths[2] = 128 /\ Lengths[3] = 206
      /\ Lengths[4] = 480 /\ Lengths[5] = 1024 /\ Lengths[6] = 1476
    BY DEF Lengths
<1> DEFINE L(i) == Lengths[i]
<1>2. \A i, j \in 1 .. 6 : (i < j) <=> (Lengths[i] < Lengths[j])
    BY <1>1
<1>3. \A i \in 1 .. 6 : Lengths[i] \in Nat
    BY <1>1
<1> HIDE DEF L
<1>4. \A c \in 0 .. 5 : c + 1 \in 1 .. 6
    OBVIOUS
<1>5. k - 1 \in maxAPDUCodeForLength(Lengths[k])
  <2>1. k - 1 \in 0 .. 5 /\ k - 1 + 1 = k
    OBVIOUS
  <2>2. \A j \in 0 .. k - 1 - 1 : Lengths[k] > Lengths[j + 1]
    BY <1>2, <1>3
  <2>3. Lengths[k] <= Lengths[k]
    BY <1>3
  <2> QED BY <2>1, <2>2, <2>3 DEF maxAPDUCodeForLength
<1>6. ASSUME NEW c \in maxAPDUCodeForLength(Lengths[k]) PROVE c = k - 1
  <2>1. c \in 0 .. 5 /\ Lengths[k] <= Lengths[c + 1] /\ \A j \in 0 .. c - 1 : Lengths[k] > Lengths[j + 1]
    BY DEF maxAPDUCodeForLength
  <2>2. ~(c + 1 < k)
    BY <1>2, <1>3, <2>1
  <2>3. ~(k < c + 1)
    <3> SUFFICES ASSUME k < c + 1 PROVE FALSE
      OBVIOUS
    <3>1. k - 1 \in 0 .. c - 1 /\ k - 1 + 1 = k
      BY <2>1
    <3>2. Lengths[k] > Lengths[k]
      BY <2>1, <3>1
    <3> QED BY <1>3, <3>2
  <2> QED BY <2>1, <2>2, <2>3
<1>7. maxAPDULengthForCode(k - 1) = {Lengths[k]}
  <2>1. k - 1 \in 0 .. 5 /\ k - 1 + 1 = k
    OBVIOUS
  <2> QED BY <2>1 DEF maxAPDULengthForCode
<1> QED BY <1>5, <1>6, <1>7

\* When every field was put, the APDU is the one meant.
LEMMA Put0 ==
    ASSUME NEW a, NEW s, IsAPDU(a), IsAPDU(s), NEW F, NEW G, Agree(s, a, F \ G), F \subseteq G
    PROVE  s = a
<1>1. \A x \in F \ G : s[x] = a[x]
    OBVIOUS
<1> QED BY <1>1, SameAPDU

\* Reading the service and the payload puts these two fields.
LEMMA PutService ==
    ASSUME NEW a, NEW b, NEW F, IsAPDU(a), IsAPDU(b), Agree(b, a, F)
    PROVE  LET s == [b EXCEPT !.service = a.service, !.payload = a.payload]
           IN  IsAPDU(s) /\ Agree(s, a, F \ {"service", "payload"})
<1> DEFINE s == [b EXCEPT !.service = a.service, !.payload = a.payload]
<1> SUFFICES IsAPDU(s) /\ Agree(s, a, F \ {"service", "payload"})
    OBVIOUS
<1>0. s = [b EXCEPT !.service = a.service, !.payload = a.payload]
    OBVIOUS
<1> HIDE DEF s
<1>1. IsAPDU(s)
    BY <1>0 DEF IsAPDU
<1>2. s.service = a.service /\ s.payload = a.payload
    BY <1>0 DEF IsAPDU, Fields
<1>3. \A x \in Fields \ {"service", "payload"} : s[x] = b[x]
    BY <1>0 DEF IsAPDU
<1>4. \A x \in Fields \ F : b[x] = a[x]
    BY DEF Agree
<1>5. \A x \in Fields \ (F \ {"service", "payload"}) : s[x] = a[x]
    BY <1>2, <1>3, <1>4
<1> QED BY <1>1, <1>5 DEF Agree

\* Reading an unsegmented acknowledgement puts its invoke ID, service and payload.
LEMMA PutAck ==
    ASSUME NEW a, NEW b, NEW F, IsAPDU(a), IsAPDU(b), Agree(b, a, F)
    PROVE  LET s == [b EXCEPT !.invoke = a.invoke, !.service = a.service, !.payload = a.payload]
           IN  IsAPDU(s) /\ Agree(s, a, F \ {"invoke", "service", "payload"})
<1> DEFINE s == [b EXCEPT !.invoke = a.invoke, !.service = a.service, !.payload = a.payload]
<1> SUFFICES IsAPDU(s) /\ Agree(s, a, F \ {"invoke", "service", "payload"})
    OBVIOUS
<1>0. s = [b EXCEPT !.invoke = a.invoke, !.service = a.service, !.payload = a.payload]
    OBVIOUS
<1> HIDE DEF s
<1>1. IsAPDU(s)
    BY <1>0 DEF IsAPDU
<1>2. s.invoke = a.invoke /\ s.service = a.service /\ s.payload = a.payload
    BY <1>0 DEF IsAPDU, Fields
<1>3. \A x \in Fields \ {"invoke", "service", "payload"} : s[x] = b[x]
    BY <1>0 DEF IsAPDU
<1>4. \A x \in Fields \ F : b[x] = a[x]
    BY DEF Agree
<1>5. \A x \in Fields \ (F \ {"invoke", "service", "payload"}) : s[x] = a[x]
    BY <1>2, <1>3, <1>4
<1> QED BY <1>1, <1>5 DEF Agree

\* Reading the two segment flags puts them.
LEMMA PutSegmented ==
    ASSUME NEW a, NEW b, NEW F, IsAPDU(a), IsAPDU(b), Agree(b, a, F)
    PROVE  LET s == [b EXCEPT !.segmented = a.segmented, !.more = a.more]
           IN  IsAPDU(s) /\ Agree(s, a, F \ {"segmented", "more"})
<1> DEFINE s == [b EXCEPT !.segmented = a.segmented, !.more = a.more]
<1> SUFFICES IsAPDU(s) /\ Agree(s, a, F \ {"segmented", "more"})
    OBVIOUS
<1>0. s = [b EXCEPT !.segmented = a.segmented, !.more = a.more]
    OBVIOUS
<1> HIDE DEF s
<1>1. IsAPDU(s)
    BY <1>0 DEF IsAPDU
<1>2. s.segmented = a.segmented /\ s.more = a.more
    BY <1>0 DEF IsAPDU, Fields
<1>3. \A x \in Fields \ {"segmented", "more"} : s[x] = b[x]
    BY <1>0 DEF IsAPDU
<1>4. \A x \in Fields \ F : b[x] = a[x]
    BY DEF Agree
<1>5. \A x \in Fields \ (F \ {"segmented", "more"}) : s[x] = a[x]
    BY <1>2, <1>3, <1>4
<1> QED BY <1>1, <1>5 DEF Agree

\* Reading the invoke ID puts it.
LEMMA PutInvoke ==
    ASSUME NEW a, NEW b, NEW F, IsAPDU(a), IsAPDU(b), Agree(b, a, F)
    PROVE  LET s == [b EXCEPT !.invoke = a.invoke]
           IN  IsAPDU(s) /\ Agree(s, a, F \ {"invoke"})
<1> DEFINE s == [b EXCEPT !.invoke = a.invoke]
<1> SUFFICES IsAPDU(s) /\ Agree(s, a, F \ {"invoke"})
    OBVIOUS
<1>0. s = [b EXCEPT !.invoke = a.invoke]
    OBVIOUS
<1> HIDE DEF s
<1>1. IsAPDU(s)
    BY <1>0 DEF IsAPDU
<1>2. s.invoke = a.invoke
    BY <1>0 DEF IsAPDU, Fields
<1>3. \A x \in Fields \ {"invoke"} : s[x] = b[x]
    BY <1>0 DEF IsAPDU
<1>4. \A x \in Fields \ F : b[x] = a[x]
    BY DEF Agree
<1>5. \A x \in Fields \ (F \ {"invoke"}) : s[x] = a[x]
    BY <1>2, <1>3, <1>4
<1> QED BY <1>1, <1>5 DEF Agree

\* Reading a sequence number and a window puts them.
LEMMA PutSequence ==
    ASSUME NEW a, NEW b, NEW F, IsAPDU(a), IsAPDU(b), Agree(b, a, F)
    PROVE  LET s == [b EXCEPT !.seq = a.seq, !.window = a.window]
           IN  IsAPDU(s) /\ Agree(s, a, F \ {"seq", "window"})
<1> DEFINE s == [b EXCEPT !.seq = a.seq, !.window = a.window]
<1> SUFFICES IsAPDU(s) /\ Agree(s, a, F \ {"seq", "window"})
    OBVIOUS
<1>0. s = [b EXCEPT !.seq = a.seq, !.window = a.window]
    OBVIOUS
<1> HIDE DEF s
<1>1. IsAPDU(s)
    BY <1>0 DEF IsAPDU
<1>2. s.seq = a.seq /\ s.window = a.window
    BY <1>0 DEF IsAPDU, Fields
<1>3. \A x \in Fields \ {"seq", "window"} : s[x] = b[x]
    BY <1>0 DEF IsAPDU
<1>4. \A x \in Fields \ F : b[x] = a[x]
    BY DEF Agree
<1>5. \A x \in Fields \ (F \ {"seq", "window"}) : s[x] = a[x]
    BY <1>2, <1>3, <1>4
<1> QED BY <1>1, <1>5 DEF Agree

\* Reading the payload puts it.
LEMMA PutPayload ==
    ASSUME NEW a, NEW b, NEW F, IsAPDU(a), IsAPDU(b), Agree(b, a, F)
    PROVE  LET s == [b EXCEPT !.payload = a.payload]
           IN  IsAPDU(s) /\ Agree(s, a, F \ {"payload"})
<1> DEFINE s == [b EXCEPT !.payload = a.payload]
<1> SUFFICES IsAPDU(s) /\ Agree(s, a, F \ {"payload"})
    OBVIOUS
<1>0. s = [b EXCEPT !.payload = a.payload]
    OBVIOUS
<1> HIDE DEF s
<1>1. IsAPDU(s)
    BY <1>0 DEF IsAPDU
<1>2. s.payload = a.payload
    BY <1>0 DEF IsAPDU, Fields
<1>3. \A x \in Fields \ {"payload"} : s[x] = b[x]
    BY <1>0 DEF IsAPDU
<1>4. \A x \in Fields \ F : b[x] = a[x]
    BY DEF Agree
<1>5. \A x \in Fields \ (F \ {"payload"}) : s[x] = a[x]
    BY <1>2, <1>3, <1>4
<1> QED BY <1>1, <1>5 DEF Agree

\* Reading the head of a confirmed request puts its six fields.
LEMMA PutRequest ==
    ASSUME NEW a, NEW b, NEW F, IsAPDU(a), IsAPDU(b), Agree(b, a, F)
    PROVE  LET s == [b EXCEPT !.segmented = a.segmented, !.more = a.more, !.accepted = a.accepted, !.maxSegments = a.maxSegments, !.maxLength = a.maxLength, !.invoke = a.invoke]
           IN  IsAPDU(s) /\ Agree(s, a, F \ {"segmented", "more", "accepted", "maxSegments", "maxLength", "invoke"})
<1> DEFINE s == [b EXCEPT !.segmented = a.segmented, !.more = a.more, !.accepted = a.accepted, !.maxSegments = a.maxSegments, !.maxLength = a.maxLength, !.invoke = a.invoke]
<1> SUFFICES IsAPDU(s) /\ Agree(s, a, F \ {"segmented", "more", "accepted", "maxSegments", "maxLength", "invoke"})
    OBVIOUS
<1>0. s = [b EXCEPT !.segmented = a.segmented, !.more = a.more, !.accepted = a.accepted, !.maxSegments = a.maxSegments, !.maxLength = a.maxLength, !.invoke = a.invoke]
    OBVIOUS
<1> HIDE DEF s
<1>1. IsAPDU(s)
    BY <1>0 DEF IsAPDU
<1>2. s.segmented = a.segmented /\ s.more = a.more /\ s.accepted = a.accepted /\ s.maxSegments = a.maxSegments /\ s.maxLength = a.maxLength /\ s.invoke = a.invoke
    BY <1>0 DEF IsAPDU, Fields
<1>3. \A x \in Fields \ {"segmented", "more", "accepted", "maxSegments", "maxLength", "invoke"} : s[x] = b[x]
    BY <1>0 DEF IsAPDU
<1>4. \A x \in Fields \ F : b[x] = a[x]
    BY DEF Agree
<1>5. \A x \in Fields \ (F \ {"segmented", "more", "accepted", "maxSegments", "maxLength", "invoke"}) : s[x] = a[x]
    BY <1>2, <1>3, <1>4
<1> QED BY <1>1, <1>5 DEF Agree

\* Reading a Reject or an Abort puts its fields.
LEMMA PutReason ==
    ASSUME NEW a, NEW b, NEW F, IsAPDU(a), IsAPDU(b), Agree(b, a, F)
    PROVE  LET s == [b EXCEPT !.server = a.server, !.invoke = a.invoke, !.payload = a.payload]
           IN  IsAPDU(s) /\ Agree(s, a, F \ {"server", "invoke", "payload"})
<1> DEFINE s == [b EXCEPT !.server = a.server, !.invoke = a.invoke, !.payload = a.payload]
<1> SUFFICES IsAPDU(s) /\ Agree(s, a, F \ {"server", "invoke", "payload"})
    OBVIOUS
<1>0. s = [b EXCEPT !.server = a.server, !.invoke = a.invoke, !.payload = a.payload]
    OBVIOUS
<1> HIDE DEF s
<1>1. IsAPDU(s)
    BY <1>0 DEF IsAPDU
<1>2. s.server = a.server /\ s.invoke = a.invoke /\ s.payload = a.payload
    BY <1>0 DEF IsAPDU, Fields
<1>3. \A x \in Fields \ {"server", "invoke", "payload"} : s[x] = b[x]
    BY <1>0 DEF IsAPDU
<1>4. \A x \in Fields \ F : b[x] = a[x]
    BY DEF Agree
<1>5. \A x \in Fields \ (F \ {"server", "invoke", "payload"}) : s[x] = a[x]
    BY <1>2, <1>3, <1>4
<1> QED BY <1>1, <1>5 DEF Agree

\* Reading a SegmentACK puts its fields.
LEMMA PutSegmentACK ==
    ASSUME NEW a, NEW b, NEW F, IsAPDU(a), IsAPDU(b), Agree(b, a, F)
    PROVE  LET s == [b EXCEPT !.negative = a.negative, !.server = a.server, !.invoke = a.invoke, !.seq = a.seq, !.window = a.window]
           IN  IsAPDU(s) /\ Agree(s, a, F \ {"negative", "server", "invoke", "seq", "window"})
<1> DEFINE s == [b EXCEPT !.negative = a.negative, !.server = a.server, !.invoke = a.invoke, !.seq = a.seq, !.window = a.window]
<1> SUFFICES IsAPDU(s) /\ Agree(s, a, F \ {"negative", "server", "invoke", "seq", "window"})
    OBVIOUS
<1>0. s = [b EXCEPT !.negative = a.negative, !.server = a.server, !.invoke = a.invoke, !.seq = a.seq, !.window = a.window]
    OBVIOUS
<1> HIDE DEF s
<1>1. IsAPDU(s)
    BY <1>0 DEF IsAPDU
<1>2. s.negative = a.negative /\ s.server = a.server /\ s.invoke = a.invoke /\ s.seq = a.seq /\ s.window = a.window
    BY <1>0 DEF IsAPDU, Fields
<1>3. \A x \in Fields \ {"negative", "server", "invoke", "seq", "window"} : s[x] = b[x]
    BY <1>0 DEF IsAPDU
<1>4. \A x \in Fields \ F : b[x] = a[x]
    BY DEF Agree
<1>5. \A x \in Fields \ (F \ {"negative", "server", "invoke", "seq", "window"}) : s[x] = a[x]
    BY <1>2, <1>3, <1>4
<1> QED BY <1>1, <1>5 DEF Agree

\* The PDU types are eight numbers.
LEMMA PDUTypes ==
    /\ ConfirmedRequest = 0 /\ UnconfirmedRequest = 1 /\ SimpleACK = 2 /\ ComplexACK = 3
    /\ SegmentACK = 4 /\ ErrorPDU = 5 /\ Reject = 6 /\ Abort = 7
BY DEF ConfirmedRequest, UnconfirmedRequest, SimpleACK, ComplexACK, SegmentACK, ErrorPDU,
       Reject, Abort

\* encodeAPDU refuses no normal APDU for its type or its number of segments.
LEMMA Encodable ==
    ASSUME NEW a, Normal(a)
    PROVE  ~(a.type > Abort) /\ MaxSegmentsValid(a.maxSegments)
BY APDUFields DEF Abort, MaxSegmentsValid

\* What the decoder makes of the octets: the APDU and nothing else.
ReadAs(raw, a) == raw \in Octets /\ raw # <<>> /\ decodeAPDU(raw) = {a}

\* An unconfirmed request is read as it was.
LEMMA UnconfirmedBack ==
    ASSUME NEW a, Normal(a), a.type = UnconfirmedRequest, NEW raw \in encodeAPDU(a)
    PROVE  ReadAs(raw, a)
<1> DEFINE b == Blank(a.type)
<1>1. /\ a.type = 1 /\ IsAPDU(a) /\ a.service \in Octet /\ a.payload \in Octets
    BY APDUFields DEF UnconfirmedRequest
<1>2. raw = <<16 * a.type, a.service>> \o a.payload
    BY PDUTypes, Encodable DEF encodeAPDU
<1>3. 16 * a.type = 16 /\ 16 \in Octet
    BY <1>1 DEF Octet
<1>4. Head2In(raw, 16, a.service, a.payload)
    BY <1>1, <1>2, <1>3, Head2
<1>5. raw \in Octets /\ Len(raw) >= 2 /\ raw[1] = 16 /\ raw[2] = a.service /\ From(raw, 2) = a.payload
    BY <1>4 DEF Head2In
<1>6. raw # <<>> /\ decodeAPDU(raw) = PDUDecode(b, raw) /\ b.type = 1
  <2>1. raw[1] \div 16 = a.type
    BY <1>1, <1>5
  <2>2. Len(raw) >= 1
    BY <1>5
  <2> QED BY <1>1, <1>5, <2>1, <2>2, StartsBlank, BlankFields
<1>7. IsAPDU(b) /\ Agree(b, a, {"service", "payload"})
  <2>1. /\ a.segmented = FALSE /\ a.more = FALSE /\ a.accepted = FALSE /\ a.negative = FALSE
        /\ a.server = FALSE /\ a.maxSegments = 0 /\ a.maxLength = 0 /\ a.invoke = 0
        /\ a.seq = 0 /\ a.window = 0
    BY <1>1, APDUFields, PDUTypes DEF Normal
  <2>2. Agree(b, a, {"service", "payload"})
    BY <2>1, BlankAgrees
  <2> QED BY <2>2, BlankFields
<1> HIDE DEF b
<1>8. PDUDecode(b, raw) = {[b EXCEPT !.service = raw[2], !.payload = From(raw, 2)]}
    BY <1>5, <1>6, PDUTypes DEF PDUDecode, When
<1> DEFINE F == {"service", "payload"}
           s == [b EXCEPT !.service = a.service, !.payload = a.payload]
<1>9. IsAPDU(s) /\ Agree(s, a, F \ F)
    BY <1>1, <1>7, PutService
<1>10. s = a
  <2> HIDE DEF s, F
  <2> QED BY <1>1, <1>9, Put0
<1> QED BY <1>5, <1>6, <1>8, <1>10 DEF ReadAs

\* An unsegmented acknowledgement and an Error are read as they were.
LEMMA AckBack ==
    ASSUME NEW a, Normal(a), a.type \in {SimpleACK, ComplexACK, ErrorPDU}, ~a.segmented,
           NEW raw \in encodeAPDU(a)
    PROVE  ReadAs(raw, a)
<1> DEFINE b == Blank(a.type)
           F == {"segmented", "more", "invoke", "service", "payload"}
<1>1. /\ a.type \in {2, 3, 5} /\ IsAPDU(a) /\ a.service \in Octet /\ a.invoke \in Octet
      /\ a.payload \in Octets /\ a.segmented = FALSE /\ a.more = FALSE
    BY APDUFields, PDUTypes DEF Normal
<1>2. raw = <<16 * a.type, a.invoke, a.service>> \o a.payload
    BY <1>1, PDUTypes, Encodable DEF encodeAPDU
<1> DEFINE f == 16 * a.type
<1>3. f \in Octet /\ f \div 16 = a.type /\ (f \div 8) % 2 = 0 /\ (f \div 4) % 2 = 0
    BY <1>1 DEF Octet
<1>3a. raw = <<f, a.invoke, a.service>> \o a.payload
    BY <1>2
<1> HIDE DEF f
<1>4. Head3In(raw, f, a.invoke, a.service, a.payload)
    BY <1>1, <1>3a, <1>3, Head3
<1>5. /\ raw \in Octets /\ Len(raw) >= 3 /\ raw[1] = f /\ raw[2] = a.invoke /\ raw[3] = a.service
      /\ From(raw, 3) = a.payload
    BY <1>4 DEF Head3In
<1>6. raw # <<>> /\ decodeAPDU(raw) = PDUDecode(b, raw) /\ b.type = a.type
  <2>1. raw[1] \div 16 = a.type
    BY <1>3, <1>5
  <2>2. Len(raw) >= 1
    BY <1>5
  <2> QED BY <1>1, <1>5, <2>1, <2>2, StartsBlank, BlankFields
<1>7. IsAPDU(b) /\ Agree(b, a, F)
  <2>1. /\ a.accepted = FALSE /\ a.negative = FALSE
        /\ a.server = FALSE /\ a.maxSegments = 0 /\ a.maxLength = 0
        /\ a.seq = 0 /\ a.window = 0
    BY <1>1, APDUFields, PDUTypes DEF Normal
  <2>2. Agree(b, a, F)
    BY <2>1, BlankAgrees
  <2> QED BY <2>2, BlankFields
<1> HIDE DEF b
<1> DEFINE c == [b EXCEPT !.segmented = a.segmented, !.more = a.more]
           s == [c EXCEPT !.invoke = a.invoke, !.service = a.service, !.payload = a.payload]
<1>8. IsAPDU(c) /\ Agree(c, a, F \ {"segmented", "more"})
    BY <1>1, <1>7, PutSegmented
<1>9. c.segmented = FALSE
  <2>1. "segmented" \in Fields \ (F \ {"segmented", "more"})
    BY DEF Fields
  <2> QED BY <1>1, <1>8, <2>1 DEF Agree
<1>10. AckDecode(b, raw) = {s}
  <2>1. ~Bit(raw[1], BitSegmented) /\ ~Bit(raw[1], BitMoreFollows)
    BY <1>3, <1>5 DEF Bit, BitSegmented, BitMoreFollows
  <2>2. /\ (b.type = ComplexACK /\ Bit(raw[1], BitSegmented)) = a.segmented
        /\ (b.type = ComplexACK /\ Bit(raw[1], BitMoreFollows)) = a.more
    BY <1>1, <2>1, Zenon
  <2>3. AckDecode(b, raw) =
            IF c.segmented
            THEN IF Len(raw) < 4 THEN {} ELSE SegmentDecode([c EXCEPT !.invoke = raw[2]], raw, 3)
            ELSE When(Len(raw) >= 3,
                      [c EXCEPT !.invoke = raw[2], !.service = raw[3], !.payload = From(raw, 3)])
    BY <2>2, Zenon DEF AckDecode
  <2> HIDE DEF c
  <2> QED BY <1>5, <1>9, <2>3 DEF When
<1>11. PDUDecode(b, raw) = AckDecode(b, raw)
    BY <1>1, <1>6, PDUTypes DEF PDUDecode
<1> HIDE DEF c
<1> DEFINE G == F \ {"segmented", "more"}
<1>12. IsAPDU(s) /\ Agree(s, a, G \ {"invoke", "service", "payload"})
    BY <1>1, <1>8, PutAck
<1>13. G \subseteq {"invoke", "service", "payload"}
    OBVIOUS
<1>14. s = a
  <2> HIDE DEF s, G
  <2> QED BY <1>1, <1>12, <1>13, Put0
<1> QED BY <1>5, <1>6, <1>10, <1>11, <1>14 DEF ReadAs

\* A Reject and an Abort are read as they were.
LEMMA ReasonBack ==
    ASSUME NEW a, Normal(a), a.type \in {Reject, Abort}, NEW raw \in encodeAPDU(a)
    PROVE  ReadAs(raw, a)
<1> DEFINE b == Blank(a.type)
           F == {"server", "invoke", "payload"}
           p == a.payload[1]
           f == 16 * a.type + Flag(a.type = Abort /\ a.server, BitServer)
<1>1. /\ a.type \in {6, 7} /\ IsAPDU(a) /\ a.invoke \in Octet
      /\ a.payload \in Octets /\ Len(a.payload) = 1
      /\ a.server \in BOOLEAN /\ (a.server => a.type = 7)
    BY APDUFields, PDUTypes DEF Normal
<1>2. p \in Octet /\ a.payload = <<p>> /\ a.payload # <<>>
    BY <1>1 DEF Octets
<1>3. raw = <<f, a.invoke, p>>
  <2>1. encodeAPDU(a) = ReasonEncode(a)
    BY <1>1, PDUTypes, Encodable DEF encodeAPDU
  <2>2. ReasonEncode(a) = {<<f, a.invoke, IF a.payload = <<>> THEN 0 ELSE a.payload[1]>>}
    BY <1>1 DEF ReasonEncode, When
  <2> HIDE DEF f
  <2> QED BY <1>2, <2>1, <2>2
<1>4. f \in Octet /\ f \div 16 = a.type /\ (((f \div 1) % 2 = 1) <=> a.server)
  <2>1. f = 16 * a.type + (IF a.server THEN 1 ELSE 0)
    BY <1>1, PDUTypes DEF Flag, BitServer
  <2> HIDE DEF f
  <2> QED BY <1>1, <2>1 DEF Octet
<1> HIDE DEF f
<1>5. raw \in Octets /\ Len(raw) = 3 /\ raw[1] = f /\ raw[2] = a.invoke /\ raw[3] = p
    BY <1>1, <1>2, <1>3, <1>4 DEF Octets
<1>6. raw # <<>> /\ decodeAPDU(raw) = PDUDecode(b, raw) /\ b.type = a.type
  <2>1. raw[1] \div 16 = a.type
    BY <1>4, <1>5
  <2>2. Len(raw) >= 1
    BY <1>5
  <2> QED BY <1>1, <1>5, <2>1, <2>2, StartsBlank, BlankFields
<1>7. IsAPDU(b) /\ Agree(b, a, F)
  <2>1. /\ a.segmented = FALSE /\ a.more = FALSE /\ a.accepted = FALSE /\ a.negative = FALSE
        /\ a.maxSegments = 0 /\ a.maxLength = 0 /\ a.seq = 0 /\ a.window = 0 /\ a.service = 0
    BY <1>1, APDUFields, PDUTypes DEF Normal
  <2>2. Agree(b, a, F)
    BY <2>1, BlankAgrees
  <2> QED BY <2>2, BlankFields
<1> HIDE DEF b
<1> DEFINE s == [b EXCEPT !.server = a.server, !.invoke = a.invoke, !.payload = a.payload]
<1>8. PDUDecode(b, raw) = {s}
  <2>1. PDUDecode(b, raw) = When(Len(raw) >= 3,
                 [b EXCEPT !.server = b.type = Abort /\ Bit(raw[1], BitServer),
                           !.invoke = raw[2], !.payload = <<raw[3]>>])
    BY <1>1, <1>6, PDUTypes DEF PDUDecode
  <2>2. (b.type = Abort /\ Bit(raw[1], BitServer)) <=> a.server
    BY <1>1, <1>4, <1>5, <1>6, PDUTypes DEF Bit, BitServer
  <2>3. (b.type = Abort /\ Bit(raw[1], BitServer)) = a.server
    BY <1>1, <2>2, Zenon
  <2> DEFINE q == (b.type = Abort /\ Bit(raw[1], BitServer))
  <2>4. PDUDecode(b, raw) = When(Len(raw) >= 3, [b EXCEPT !.server = q, !.invoke = raw[2], !.payload = <<raw[3]>>])
    BY <2>1
  <2>5. q = a.server
    BY <2>3
  <2>6. raw[2] = a.invoke /\ <<raw[3]>> = a.payload /\ Len(raw) >= 3
    BY <1>2, <1>5
  <2> HIDE DEF q
  <2> QED BY <2>4, <2>5, <2>6, Zenon DEF When
<1>9. IsAPDU(s) /\ Agree(s, a, F \ F)
    BY <1>1, <1>7, PutReason
<1>10. s = a
  <2> HIDE DEF s, F
  <2> QED BY <1>1, <1>9, Put0
<1> QED BY <1>5, <1>6, <1>8, <1>10 DEF ReadAs

\* A SegmentACK is read as it was.
LEMMA SegmentACKBack ==
    ASSUME NEW a, Normal(a), a.type = SegmentACK, NEW raw \in encodeAPDU(a)
    PROVE  ReadAs(raw, a)
<1> DEFINE b == Blank(a.type)
           F == {"negative", "server", "invoke", "seq", "window"}
           f == 16 * a.type + Flag(a.negative, BitNegative) + Flag(a.server, BitServer)
<1>1. /\ a.type = 4 /\ IsAPDU(a) /\ a.invoke \in Octet /\ a.seq \in Octet /\ a.window \in Octet
      /\ a.server \in BOOLEAN /\ a.negative \in BOOLEAN
    BY APDUFields, PDUTypes DEF Normal
<1>3. raw = <<f, a.invoke, a.seq, a.window>>
    BY <1>1, PDUTypes, Encodable DEF encodeAPDU
<1>4. /\ f \in Octet /\ f \div 16 = a.type /\ (((f \div 1) % 2 = 1) <=> a.server)
      /\ (((f \div 2) % 2 = 1) <=> a.negative)
  <2>1. f = 64 + (IF a.negative THEN 2 ELSE 0) + (IF a.server THEN 1 ELSE 0)
    BY <1>1, PDUTypes DEF Flag, BitServer, BitNegative
  <2> HIDE DEF f
  <2> QED BY <1>1, <2>1 DEF Octet
<1> HIDE DEF f
<1>5. /\ raw \in Octets /\ Len(raw) = 4 /\ raw[1] = f /\ raw[2] = a.invoke /\ raw[3] = a.seq
      /\ raw[4] = a.window
    BY <1>1, <1>3, <1>4 DEF Octets
<1>6. raw # <<>> /\ decodeAPDU(raw) = PDUDecode(b, raw) /\ b.type = a.type
  <2>1. raw[1] \div 16 = a.type
    BY <1>4, <1>5
  <2>2. Len(raw) >= 1
    BY <1>5
  <2> QED BY <1>1, <1>5, <2>1, <2>2, StartsBlank, BlankFields
<1>7. IsAPDU(b) /\ Agree(b, a, F)
  <2>1. /\ a.segmented = FALSE /\ a.more = FALSE /\ a.accepted = FALSE
        /\ a.maxSegments = 0 /\ a.maxLength = 0 /\ a.service = 0 /\ a.payload = <<>>
    BY <1>1, APDUFields, PDUTypes DEF Normal
  <2>2. Agree(b, a, F)
    BY <2>1, BlankAgrees
  <2> QED BY <2>2, BlankFields
<1> HIDE DEF b
<1> DEFINE s == [b EXCEPT !.negative = a.negative, !.server = a.server, !.invoke = a.invoke,
                          !.seq = a.seq, !.window = a.window]
<1>8. PDUDecode(b, raw) = {s}
  <2> DEFINE n == Bit(raw[1], BitNegative)
             v == Bit(raw[1], BitServer)
  <2>1. PDUDecode(b, raw) = When(Len(raw) >= 4,
                 [b EXCEPT !.negative = n, !.server = v, !.invoke = raw[2], !.seq = raw[3],
                           !.window = raw[4]])
    BY <1>1, <1>6, PDUTypes DEF PDUDecode
  <2>2. (n <=> a.negative) /\ (v <=> a.server)
    BY <1>4, <1>5 DEF Bit, BitServer, BitNegative
  <2>3. n = a.negative /\ v = a.server
    BY <1>1, <2>2, Zenon DEF Bit
  <2>4. Len(raw) >= 4
    BY <1>5
  <2> HIDE DEF n, v
  <2> QED BY <1>5, <2>1, <2>3, <2>4, Zenon DEF When
<1>9. IsAPDU(s) /\ Agree(s, a, F \ F)
    BY <1>1, <1>7, PutSegmentACK
<1>10. s = a
  <2> HIDE DEF s, F
  <2> QED BY <1>1, <1>9, Put0
<1> QED BY <1>5, <1>6, <1>8, <1>10 DEF ReadAs

\* SegmentDecode of a normal APDU that lacks what a segment carries.
LEMMA SegmentBack ==
    ASSUME NEW a, Normal(a), a.type = ComplexACK, a.segmented, NEW raw \in encodeAPDU(a)
    PROVE  ReadAs(raw, a)
<1> DEFINE b == Blank(a.type)
           F == {"segmented", "more", "invoke", "seq", "window", "payload"}
                \cup (IF a.seq = 0 THEN {"service"} ELSE {})
           f == 16 * a.type + BitSegmented + Flag(a.more, BitMoreFollows)
           h == <<f, a.invoke, a.seq, a.window>>
           r == IF a.seq = 0 THEN <<a.service>> ELSE <<>>
           k == h \o r
<1>1. /\ a.type = 3 /\ IsAPDU(a) /\ a.service \in Octet /\ a.invoke \in Octet /\ a.seq \in Octet
      /\ a.window \in Octet /\ a.payload \in Octets /\ a.segmented = TRUE /\ a.more \in BOOLEAN
      /\ Len(a.payload) \in Nat
  <2>1. Len(a.payload) \in Nat
    BY APDUFields DEF Octets
  <2> QED BY <2>1, APDUFields, PDUTypes DEF Normal
<1>1a. a.seq # 0 => a.service = 0
    BY DEF Normal
<1>2. /\ f \in Octet /\ f \div 16 = a.type /\ (f \div 8) % 2 = 1 /\ (((f \div 4) % 2 = 1) <=> a.more)
  <2>1. f = 56 + (IF a.more THEN 4 ELSE 0)
    BY <1>1, PDUTypes DEF Flag, BitSegmented, BitMoreFollows
  <2> HIDE DEF f
  <2> QED BY <1>1, <2>1 DEF Octet
<1>3. raw = k \o a.payload
  <2>1. raw = SegmentEncode(a)
    BY <1>1, PDUTypes, Encodable DEF encodeAPDU
  <2> QED BY <2>1 DEF SegmentEncode
<1> HIDE DEF f
<1>4. /\ h \in Octets /\ Len(h) = 4 /\ h[1] = f /\ h[2] = a.invoke /\ h[3] = a.seq /\ h[4] = a.window
      /\ r \in Octets /\ (a.seq = 0 => Len(r) = 1 /\ r[1] = a.service) /\ (a.seq # 0 => Len(r) = 0)
    BY <1>1, <1>2 DEF Octets
<1> HIDE DEF h, r
<1>5. /\ k \in Octets /\ Len(k) = 4 + Len(r) /\ (\A i \in 1 .. 4 : k[i] = h[i])
      /\ \A i \in 1 .. Len(r) : k[4 + i] = r[i]
  <2>1. /\ h \o r \in Octets /\ Len(h \o r) = Len(h) + Len(r)
        /\ \A i \in 1 .. Len(h) : (h \o r)[i] = h[i]
        /\ \A i \in 1 .. Len(r) : (h \o r)[Len(h) + i] = r[i]
    BY <1>4, Concatenation
  <2> HIDE DEF k
  <2>2. k = h \o r
    BY DEF k
  <2> QED BY <1>4, <2>1, <2>2
<1> HIDE DEF k
<1>5a. /\ k \o a.payload \in Octets /\ Len(k \o a.payload) = Len(k) + Len(a.payload)
       /\ \A i \in 1 .. Len(k) : (k \o a.payload)[i] = k[i]
       /\ From(k \o a.payload, Len(k)) = a.payload
    BY <1>1, <1>5, Headed
<1>6. /\ raw \in Octets /\ Len(raw) >= 4
      /\ raw[1] = f /\ raw[2] = a.invoke /\ raw[3] = a.seq /\ raw[4] = a.window
      /\ a.seq = 0 => Len(raw) >= 5 /\ raw[5] = a.service /\ From(raw, 5) = a.payload
      /\ a.seq # 0 => From(raw, 4) = a.payload
  <2>1. CASE a.seq = 0
    <3>a. Len(r) = 1 /\ r[1] = a.service
      BY <1>4, <2>1, Zenon
    <3>0. 1 \in 1 .. Len(r) /\ 4 + 1 = 5
      BY <3>a
    <3>b. k[4 + 1] = r[1] /\ Len(k) = 4 + Len(r)
      BY <1>5, <3>0
    <3>c. k[5] = a.service /\ Len(k) = 5
      BY <3>a, <3>b
    <3>1. Len(k) = 5 /\ k[5] = a.service /\ k[1] = f /\ k[2] = a.invoke /\ k[3] = a.seq /\ k[4] = a.window
      <4>1. k[1] = h[1] /\ k[2] = h[2] /\ k[3] = h[3] /\ k[4] = h[4]
        BY <1>5
      <4>2. h[1] = f /\ h[2] = a.invoke /\ h[3] = a.seq /\ h[4] = a.window
        BY <1>4, Zenon
      <4> QED BY <3>c, <4>1, <4>2
    <3> QED BY <1>1, <1>3, <1>5a, <2>1, <3>1
  <2>2. CASE a.seq # 0
    <3>1. Len(k) = 4 /\ k[1] = f /\ k[2] = a.invoke /\ k[3] = a.seq /\ k[4] = a.window
      BY <1>4, <1>5, <2>2
    <3> QED BY <1>1, <1>3, <1>5a, <2>2, <3>1
  <2> QED BY <2>1, <2>2
<1>7. raw # <<>> /\ decodeAPDU(raw) = PDUDecode(b, raw) /\ b.type = a.type
  <2>1. raw[1] \div 16 = a.type
    BY <1>2, <1>6
  <2>2. Len(raw) >= 1
    BY <1>6
  <2> QED BY <1>1, <1>6, <2>1, <2>2, StartsBlank, BlankFields
<1>8. IsAPDU(b) /\ Agree(b, a, F)
  <2>1. /\ a.accepted = FALSE /\ a.negative = FALSE
        /\ a.server = FALSE /\ a.maxSegments = 0 /\ a.maxLength = 0
    BY <1>1, APDUFields, PDUTypes DEF Normal
  <2>2. Agree(b, a, F)
    BY <1>1a, <2>1, BlankAgrees
  <2> QED BY <2>2, BlankFields
<1> HIDE DEF b
<1> DEFINE c == [b EXCEPT !.segmented = a.segmented, !.more = a.more]
           d == [c EXCEPT !.invoke = a.invoke]
           e == [d EXCEPT !.seq = a.seq, !.window = a.window]
           F1 == F \ {"segmented", "more"}
           F2 == F1 \ {"invoke"}
           F3 == F2 \ {"seq", "window"}
<1>9. IsAPDU(c) /\ Agree(c, a, F1)
    BY <1>1, <1>8, PutSegmented
<1>10. c.segmented = TRUE
  <2>1. "segmented" \in Fields \ F1
    BY DEF Fields
  <2> QED BY <1>1, <1>9, <2>1 DEF Agree
<1>11. PDUDecode(b, raw) = SegmentDecode(d, raw, 3)
  <2>1. (b.type = ComplexACK) /\ Bit(raw[1], BitSegmented) /\ (Bit(raw[1], BitMoreFollows) <=> a.more)
    BY <1>1, <1>2, <1>6, <1>7, PDUTypes DEF Bit, BitSegmented, BitMoreFollows
  <2>2. /\ (b.type = ComplexACK /\ Bit(raw[1], BitSegmented)) = a.segmented
        /\ (b.type = ComplexACK /\ Bit(raw[1], BitMoreFollows)) = a.more
    BY <1>1, <2>1, Zenon DEF Bit
  <2>3. AckDecode(b, raw) =
            IF c.segmented
            THEN IF Len(raw) < 4 THEN {} ELSE SegmentDecode([c EXCEPT !.invoke = raw[2]], raw, 3)
            ELSE When(Len(raw) >= 3,
                      [c EXCEPT !.invoke = raw[2], !.service = raw[3], !.payload = From(raw, 3)])
    BY <2>2, Zenon DEF AckDecode
  <2> HIDE DEF c
  <2>4. ~(Len(raw) < 4) /\ raw[2] = a.invoke
    BY <1>6
  <2>5. AckDecode(b, raw) = SegmentDecode(d, raw, 3)
    BY <1>10, <2>3, <2>4, Zenon
  <2>6. PDUDecode(b, raw) = AckDecode(b, raw)
    BY <1>1, <1>7, PDUTypes DEF PDUDecode
  <2> QED BY <2>5, <2>6
<1> HIDE DEF c, F1
<1>12. IsAPDU(d) /\ Agree(d, a, F2)
    BY <1>1, <1>9, PutInvoke
<1> HIDE DEF d, F2
<1>13. IsAPDU(e) /\ Agree(e, a, F3)
    BY <1>1, <1>12, PutSequence
<1>14. F3 \subseteq IF a.seq = 0 THEN {"service", "payload"} ELSE {"payload"}
    BY DEF F1, F2
<1>15. /\ raw[3] = a.seq /\ raw[3 + 1] = a.window /\ ~(Len(raw) < 3 + 1)
    BY <1>6
<1>15a. e = [d EXCEPT !.seq = raw[3], !.window = raw[3 + 1]]
    BY <1>15, Zenon
<1> HIDE DEF e, F3
<1>16. CASE a.seq # 0
  <2> DEFINE s == [e EXCEPT !.payload = a.payload]
  <2>1. SegmentDecode(d, raw, 3) = {s}
    <3>1. From(raw, 3 + 1) = a.payload
      BY <1>6, <1>16
    <3>2. raw[3] # 0
      BY <1>15, <1>16
    <3> QED BY <1>15, <1>15a, <3>1, <3>2, Zenon DEF SegmentDecode
  <2>2. IsAPDU(s) /\ Agree(s, a, F3 \ {"payload"})
    BY <1>1, <1>13, PutPayload
  <2>3. s = a
    <3> HIDE DEF s
    <3> QED BY <1>1, <1>14, <1>16, <2>2, Put0
  <2> QED BY <1>6, <1>7, <1>11, <2>1, <2>3 DEF ReadAs
<1>17. CASE a.seq = 0
  <2> DEFINE s == [e EXCEPT !.service = a.service, !.payload = a.payload]
  <2>1. SegmentDecode(d, raw, 3) = {s}
    <3>1. From(raw, 3 + 2) = a.payload /\ raw[3 + 2] = a.service /\ Len(raw) >= 3 + 2
      BY <1>6, <1>17
    <3>2. raw[3] = 0
      BY <1>15, <1>17
    <3> QED BY <1>15, <1>15a, <3>1, <3>2, Zenon DEF SegmentDecode, When
  <2>2. IsAPDU(s) /\ Agree(s, a, F3 \ {"service", "payload"})
    BY <1>1, <1>13, PutService
  <2>3. s = a
    <3> HIDE DEF s
    <3> QED BY <1>1, <1>14, <1>17, <2>2, Put0
  <2> QED BY <1>6, <1>7, <1>11, <2>1, <2>3 DEF ReadAs
<1> QED BY <1>16, <1>17

\* A confirmed request is read as it was.
LEMMA ConfirmedBack ==
    ASSUME NEW a, Normal(a), a.type = ConfirmedRequest, NEW raw \in encodeAPDU(a)
    PROVE  ReadAs(raw, a)
<1> DEFINE b == Blank(a.type)
           F == {"segmented", "more", "accepted", "maxSegments", "maxLength", "invoke", "service",
                 "payload"}
           f == 16 * ConfirmedRequest + Flag(a.accepted, BitResponseAccepted)
<1>1. /\ a.type = 0 /\ IsAPDU(a) /\ a.service \in Octet /\ a.invoke \in Octet /\ a.payload \in Octets
      /\ a.segmented = FALSE /\ a.more = FALSE /\ a.accepted \in BOOLEAN /\ a.maxSegments \in 0 .. 7
    BY APDUFields, PDUTypes DEF Normal
<1>2. /\ f \in Octet /\ f \div 16 = a.type /\ (f \div 8) % 2 = 0 /\ (f \div 4) % 2 = 0
      /\ (((f \div 2) % 2 = 1) <=> a.accepted)
  <2>1. f = IF a.accepted THEN 2 ELSE 0
    BY <1>1, PDUTypes DEF Flag, BitResponseAccepted
  <2> HIDE DEF f
  <2> QED BY <1>1, <2>1 DEF Octet
<1>3. PICK k \in 1 .. 6 : a.maxLength = Lengths[k]
    BY DEF Normal
<1>4. maxAPDUCodeForLength(a.maxLength) = {k - 1} /\ maxAPDULengthForCode(k - 1) = {a.maxLength}
    BY <1>3, CodeBack
<1> DEFINE g == 16 * a.maxSegments + (k - 1)
<1>5. raw = <<f, g, a.invoke, a.service>> \o a.payload
  <2>1. encodeAPDU(a) = ConfirmedRequestEncode(a)
    BY <1>1, PDUTypes, Encodable DEF encodeAPDU
  <2>2. ConfirmedRequestEncode(a) =
            {<<f, 16 * a.maxSegments + code, a.invoke, a.service>> \o a.payload : code \in {k - 1}}
    BY <1>1, <1>4, Zenon DEF ConfirmedRequestEncode
  <2> HIDE DEF f
  <2> QED BY <2>1, <2>2
<1> HIDE DEF f
<1>6. g \in Octet /\ (g \div 16) % 8 = a.maxSegments /\ g % 16 = k - 1
  <2>1. a.maxSegments \in 0 .. 7 /\ k - 1 \in 0 .. 5
    BY <1>1
  <2> DEFINE m == a.maxSegments
             c == k - 1
  <2>2. m \in 0 .. 7 /\ c \in 0 .. 5 /\ g = 16 * m + c
    BY <2>1
  <2> HIDE DEF m, c, g
  <2>3. g \in 0 .. 117 /\ g \div 16 = m /\ g % 16 = c
    BY <2>2
  <2>4. g \in Octet /\ (g \div 16) % 8 = m
    BY <2>2, <2>3 DEF Octet
  <2> QED BY <2>3, <2>4 DEF m, c
<1> HIDE DEF g
<1>7. Head4In(raw, f, g, a.invoke, a.service, a.payload)
    BY <1>1, <1>2, <1>5, <1>6, Head4
<1>8. /\ raw \in Octets /\ Len(raw) >= 4 /\ raw[1] = f /\ raw[2] = g /\ raw[3] = a.invoke
      /\ raw[4] = a.service /\ From(raw, 4) = a.payload
    BY <1>7 DEF Head4In
<1>9. raw # <<>> /\ decodeAPDU(raw) = PDUDecode(b, raw) /\ b.type = a.type
  <2>1. raw[1] \div 16 = a.type
    BY <1>2, <1>8
  <2>2. Len(raw) >= 1
    BY <1>8
  <2> QED BY <1>1, <1>8, <2>1, <2>2, StartsBlank, BlankFields
<1>10. IsAPDU(b) /\ Agree(b, a, F)
  <2>1. /\ a.negative = FALSE /\ a.server = FALSE /\ a.seq = 0 /\ a.window = 0
    BY <1>1, APDUFields, PDUTypes DEF Normal
  <2>2. Agree(b, a, F)
    BY <2>1, BlankAgrees
  <2> QED BY <2>2, BlankFields
<1> HIDE DEF b
<1> DEFINE c == [b EXCEPT !.segmented = a.segmented, !.more = a.more, !.accepted = a.accepted,
                          !.maxSegments = a.maxSegments, !.maxLength = a.maxLength, !.invoke = a.invoke]
           s == [c EXCEPT !.service = a.service, !.payload = a.payload]
           G == F \ {"segmented", "more", "accepted", "maxSegments", "maxLength", "invoke"}
<1>11. IsAPDU(c) /\ Agree(c, a, G)
    BY <1>1, <1>10, PutRequest
<1>12. c.segmented = FALSE
  <2>1. "segmented" \in Fields \ G
    BY DEF Fields
  <2> QED BY <1>1, <1>11, <2>1 DEF Agree
<1>13. PDUDecode(b, raw) = {s}
  <2>1. PDUDecode(b, raw) = ConfirmedRequestDecode(b, raw)
    BY <1>1, <1>9, PDUTypes DEF PDUDecode
  <2> DEFINE sg == Bit(raw[1], BitSegmented)
             mo == Bit(raw[1], BitMoreFollows)
             ac == Bit(raw[1], BitResponseAccepted)
             B(length) == [b EXCEPT !.segmented = sg, !.more = mo, !.accepted = ac,
                             !.maxSegments = (raw[2] \div 16) % 8, !.maxLength = length, !.invoke = raw[3]]
             R(length) == IF B(length).segmented THEN SegmentDecode(B(length), raw, 4)
                          ELSE {[B(length) EXCEPT !.service = raw[4], !.payload = From(raw, 4)]}
  <2>2. (~sg) /\ (~mo) /\ (ac <=> a.accepted)
    BY <1>2, <1>8 DEF Bit, BitSegmented, BitMoreFollows, BitResponseAccepted
  <2>3. sg = a.segmented /\ mo = a.more /\ ac = a.accepted
    BY <1>1, <2>2, Zenon DEF Bit
  <2>4. maxAPDULengthForCode(raw[2] % 16) = {a.maxLength} /\ (raw[2] \div 16) % 8 = a.maxSegments
        /\ ~(Len(raw) < 4)
    BY <1>4, <1>6, <1>8
  <2>5. ConfirmedRequestDecode(b, raw) = UNION {R(length) : length \in maxAPDULengthForCode(raw[2] % 16)}
    BY <2>4, Zenon DEF ConfirmedRequestDecode
  <2>6. B(a.maxLength) = c
    <3> HIDE DEF sg, mo, ac
    <3> QED BY <1>8, <2>3, <2>4, Zenon
  <2> HIDE DEF B, c
  <2>7. R(a.maxLength) = {s}
    BY <1>8, <1>12, <2>6, Zenon
  <2> HIDE DEF R, s
  <2>8. ConfirmedRequestDecode(b, raw) = UNION {R(length) : length \in {a.maxLength}}
    BY <2>4, <2>5
  <2> QED BY <2>1, <2>7, <2>8
<1> HIDE DEF c
<1>14. IsAPDU(s) /\ Agree(s, a, G \ {"service", "payload"})
    BY <1>1, <1>11, PutService
<1>15. s = a
  <2>1. G \subseteq {"service", "payload"}
    OBVIOUS
  <2> HIDE DEF s, G
  <2> QED BY <1>1, <1>14, <2>1, Put0
<1> QED BY <1>8, <1>9, <1>13, <1>15 DEF ReadAs

\* An APDU in the form both ends know is read back as it was written.
LEMMA APDUBack ==
    ASSUME NEW a, Normal(a), NEW raw \in encodeAPDU(a)
    PROVE  ReadAs(raw, a)
<1>1. a.type \in {ConfirmedRequest, UnconfirmedRequest, SimpleACK, ComplexACK, SegmentACK, ErrorPDU,
                  Reject, Abort}
    BY APDUFields, PDUTypes
<1>2. a.type \in {SimpleACK, ErrorPDU} => ~a.segmented
    BY PDUTypes DEF Normal
<1> QED BY <1>1, <1>2, ConfirmedBack, UnconfirmedBack, AckBack, SegmentBack, SegmentACKBack, ReasonBack

-----------------------------------------------------------------------------
(***************************************************************************)
(* Letters and answers: what dispatchFrame hands up, and what goes back.   *)
(***************************************************************************)

\* What dispatchFrame makes of the NPDU it found.
Dispatched(i) == UNION {Inbound(SourceOf(i.src, pkt), pkt) : pkt \in NPDUDecode(i.octets)}

\* dispatchFrame hands up what the NPDUs inside the frame hold.
LEMMA DispatchesInner ==
    ASSUME NEW data, NEW from, NEW frame, DecodeFrame(data) = {frame},
           NEW J, Inner(frame, from) = J
    PROVE  dispatchFrame(data, from) = UNION {Dispatched(i) : i \in J}
<1>1. UNION {Inner(fr, from) : fr \in {frame}} = J
    OBVIOUS
<1>2. dispatchFrame(data, from) =
        UNION {Dispatched(i) : i \in UNION {Inner(fr, from) : fr \in DecodeFrame(data)}}
    BY DEF dispatchFrame, Dispatched
<1> QED BY <1>1, <1>2

\* One NPDU gives one indication at most.
LEMMA DispatchesOne ==
    ASSUME NEW i, NEW n, NPDUDecode(i.octets) = {n}
    PROVE  Dispatched(i) = Inbound(SourceOf(i.src, n), n)
BY DEF Dispatched

\* What a letter's NPDU is to those that get it.
LEMMA LetterNPDU ==
    ASSUME NEW m \in Letters, NEW npdu \in PeerNPDU(m), NEW octets \in NPDUEncode(npdu)
    PROVE  /\ octets \in Octets /\ octets # <<>> /\ NPDUDecode(octets) = {npdu}
           /\ NPDUValid(npdu) /\ ~IsNetworkLayerMessage(npdu) /\ Priority(npdu) = m.priority
           /\ decodeAPDU(npdu.apdu) = {m.apdu}
           /\ (HasSourceSpecifier(npdu) <=> m.station # {})
           /\ \A s \in m.station : /\ npdu.snet = {s.snet} /\ npdu.sadr = {s.sadr}
                                   /\ SnetValid(s.snet) /\ Len(s.sadr) \in 1 .. 255
           /\ m.station \in Sources
<1>1. Normal(m.apdu) /\ m.priority \in Nat
    BY LettersAssumption
<1>2. m.station \in Sources
  <2>1. CASE m.station = {}
    BY <2>1 DEF Sources, Pointer
  <2>2. CASE m.station # {}
    <3>1. PICK s \in m.station : /\ m.station = {s} /\ s = [snet |-> s.snet, sadr |-> s.sadr]
                                 /\ s.snet \in 0 .. MaxUint16 /\ s.sadr \in Seq(Octet)
      BY <2>2, LettersAssumption
    <3>2. s \in [snet : Uint16s, sadr : Octets]
      BY <3>1 DEF Uint16s, Octets
    <3> QED BY <3>1, <3>2 DEF Sources, Pointer
  <2> QED BY <2>1, <2>2
<1>3. PICK o \in encodeAPDU(m.apdu) :
        npdu \in NewApplicationNPDU(ApplicationNPCI(m.priority, FALSE, {}, m.station), o)
    BY DEF PeerNPDU
<1>4. o \in Octets /\ decodeAPDU(o) = {m.apdu}
    BY <1>1, APDUBack DEF ReadAs
<1>5. {} \in Destinations
    BY DEF Destinations, Pointer
<1>6. /\ npdu \in NPDUs /\ npdu.apdu = o
      /\ ~IsNetworkLayerMessage(npdu) /\ Priority(npdu) = m.priority
      /\ (HasSourceSpecifier(npdu) <=> m.station # {})
      /\ \A s \in m.station : /\ npdu.snet = {s.snet} /\ npdu.sadr = {s.sadr}
                              /\ SnetValid(s.snet) /\ Len(s.sadr) \in 1 .. 255
  <2> DEFINE by == m.station
             p == m.priority
             n == npdu
  <2>1. /\ by \in Sources /\ p \in Nat /\ FALSE \in BOOLEAN /\ o \in Octets /\ {} \in Destinations
        /\ n \in NewApplicationNPDU(ApplicationNPCI(p, FALSE, {}, by), o)
    BY <1>1, <1>2, <1>3, <1>4, <1>5
  <2> HIDE DEF by, p, n
  <2>2. Carries(n, p, {}, by, o)
    BY <2>1, ApplicationNPDU, Zenon
  <2> QED BY <2>2 DEF by, p, n, Carries
<1>7. NPDUValid(npdu)
    BY DEF NPDUEncode
<1>8. octets \in Octets /\ octets # <<>> /\ NPDUDecode(octets) = {npdu}
    BY <1>6, <1>7, NPDUBack
<1> QED BY <1>2, <1>4, <1>6, <1>7, <1>8

\* A letter is delivered as its sender meant it.
LEMMA LetterDelivered ==
    ASSUME NEW m \in Letters, NEW npdu \in PeerNPDU(m), NEW octets \in NPDUEncode(npdu),
           NEW data \in Wrapped(m, octets)
    PROVE  /\ data \in Octets /\ DecodeFrame(data) # {}
           /\ dispatchFrame(data, m.from) = Meant(m)
           /\ \A s \in m.station : SnetValid(s.snet) /\ Len(s.sadr) \in 1 .. 255
<1>1. Sender(m) /\ m.kind = "apdu"
    BY LettersAssumption
<1>2. octets \in Octets /\ octets # <<>> /\ NPDUDecode(octets) = {npdu}
    BY LetterNPDU
<1>3. PICK f \in FnResult .. FnOriginalBroadcast : \E body :
              /\ Carried(body) /\ data = Framed(f, body)
              /\ Inner(Frame(f, body), m.from) = InnerMeant(m, octets)
              /\ NPDUOctets(Frame(f, body)) = octets
    BY <1>1, <1>2, WrappedFrame
<1>4. PICK body : /\ Carried(body) /\ data = Framed(f, body)
                  /\ Inner(Frame(f, body), m.from) = InnerMeant(m, octets)
    BY <1>3
<1>5. data \in Octets /\ DecodeFrame(data) = {Frame(f, body)}
    BY <1>4, FramedOctets, FrameBack DEF Frame
<1>6. dispatchFrame(data, m.from) = UNION {Dispatched(i) : i \in InnerMeant(m, octets)}
    BY <1>4, <1>5, DispatchesInner
<1>7. CASE m.via = "distribute" \/ ~Is4(m.origin)
  <2>1. InnerMeant(m, octets) = {}
    BY <1>7 DEF InnerMeant
  <2>2. Meant(m) = {}
    BY <1>1, <1>7 DEF Meant, UnicastOrForwarded
  <2>3. dispatchFrame(data, m.from) = {}
    BY <1>6, <2>1
  <2> QED BY <1>5, <2>2, <2>3, LetterNPDU
<1>8. CASE ~(m.via = "distribute" \/ ~Is4(m.origin))
  <2> DEFINE i == [src |-> Local(m.origin), octets |-> octets]
             src == [network |-> IF m.station = {} THEN LocalNetwork ELSE The(m.station).snet,
                     addr |-> m.origin,
                     mac |-> IF m.station = {} THEN <<>> ELSE The(m.station).sadr]
  <2>1. InnerMeant(m, octets) = {i}
    BY <1>8 DEF InnerMeant
  <2>2. i.octets = octets /\ i.src = Local(m.origin)
    OBVIOUS
  <2>3. Meant(m) = {[src |-> src, apdu |-> m.apdu, priority |-> m.priority]}
    <3>1. m.via \in UnicastOrForwarded
      BY <1>1, <1>8 DEF UnicastOrForwarded, Sender, Ways
    <3> QED BY <1>1, <1>8, <3>1 DEF Meant
  <2> HIDE DEF i
  <2>4. Dispatched(i) = Inbound(SourceOf(Local(m.origin), npdu), npdu)
    BY <1>2, <2>2, DispatchesOne
  <2>5. SourceOf(Local(m.origin), npdu) = src
    <3>1. CASE m.station = {}
      <4>1. ~HasSourceSpecifier(npdu)
        BY <3>1, LetterNPDU
      <4> QED BY <3>1, <4>1 DEF SourceOf, Local
    <3>2. CASE m.station # {}
      <4> DEFINE s == The(m.station)
      <4>1. m.station = {s} /\ s \in m.station
        BY <3>2, LetterNPDU, Pointed DEF Sources
      <4> HIDE DEF s
      <4>2. HasSourceSpecifier(npdu) /\ npdu.snet = {s.snet} /\ npdu.sadr = {s.sadr}
        BY <3>2, <4>1, LetterNPDU
      <4>3. The(npdu.snet) = s.snet /\ The(npdu.sadr) = s.sadr
        BY <4>2 DEF The
      <4>4. SourceOf(Local(m.origin), npdu) =
              [Local(m.origin) EXCEPT !.network = s.snet, !.mac = s.sadr]
        BY <4>2, <4>3 DEF SourceOf
      <4>5. src = [network |-> s.snet, addr |-> m.origin, mac |-> s.sadr]
        BY <3>2 DEF s
      <4> HIDE DEF src
      <4> QED BY <4>4, <4>5, Zenon DEF Local
    <3> QED BY <3>1, <3>2
  <2> HIDE DEF src
  <2>6. Inbound(src, npdu) = {[src |-> src, apdu |-> m.apdu, priority |-> m.priority]}
    <3>1. /\ NPDUValid(npdu) /\ ~IsNetworkLayerMessage(npdu) /\ Priority(npdu) = m.priority
          /\ decodeAPDU(npdu.apdu) = {m.apdu}
      BY LetterNPDU
    <3> QED BY <3>1 DEF Inbound
  <2>7. dispatchFrame(data, m.from) = Dispatched(i)
    BY <1>6, <2>1
  <2> QED BY <1>5, <2>3, <2>4, <2>5, <2>6, <2>7, LetterNPDU
<1> QED BY <1>7, <1>8

\* What an answer to m must be: read back as the APDU it was, and meant for the
\* station behind the router m came by.
Back(data, apdu, m) ==
    \E frame \in DecodeFrame(data) : \E pkt \in NPDUDecode(frame.payload) :
        /\ decodeAPDU(pkt.apdu) = {apdu}
        /\ NPCIOf(pkt).destination =
             {[dnet |-> s.snet, dadr |-> s.sadr, hopCount |-> 255] : s \in m.station}

\* What is sent of an NPDU is read as that NPDU.
LEMMA SentBack ==
    ASSUME NEW n \in NPDUs, NEW data \in SendNPDU(n)
    PROVE  \E x : DecodeFrame(data) = {Frame(FnOriginalUnicast, x)} /\ NPDUDecode(x) = {n}
<1>1. PICK x \in NPDUEncode(n) : \E fr \in NewFrameWithType(BACnetIP, FnOriginalUnicast, x) :
        data \in FrameEncode(fr)
    BY DEF SendNPDU
<1>2. NPDUValid(n)
    BY DEF NPDUEncode
<1>3. x \in Octets /\ NPDUDecode(x) = {n}
    BY <1>2, NPDUBack
<1>4. PICK fr \in NewFrameWithType(BACnetIP, FnOriginalUnicast, x) : data \in FrameEncode(fr)
    BY <1>1
<1>5. fr = Frame(FnOriginalUnicast, x) /\ Carried(x)
    BY <1>3 DEF NewFrameWithType, When, Frame, Carried
<1>6. FnOriginalUnicast \in FnResult .. FnOriginalBroadcast
    BY DEF FnOriginalUnicast, FnResult, FnOriginalBroadcast
<1>7. FrameEncode(fr) = {Framed(FnOriginalUnicast, x)}
    BY <1>5, <1>6, EncodesFrame DEF Frame
<1>8. DecodeFrame(data) = {Frame(FnOriginalUnicast, x)}
    BY <1>4, <1>5, <1>6, <1>7, FrameBack DEF Frame
<1> QED BY <1>3, <1>8

\* The answer to a letter that was delivered as it was meant.
LEMMA AnswerBack ==
    ASSUME NEW m \in Letters, NEW u \in Meant(m), m.station \in Sources,
           \A s \in m.station : SnetValid(s.snet) /\ Len(s.sadr) \in 1 .. 255,
           NEW apdu \in Replies, NEW packet \in buildOutboundNPDU(u.src, u.priority, FALSE, apdu),
           NEW data \in SendNPDU(packet)
    PROVE  u.src.addr = m.origin /\ Back(data, apdu, m)
<1> DEFINE src == [network |-> IF m.station = {} THEN LocalNetwork ELSE The(m.station).snet,
                   addr |-> m.origin,
                   mac |-> IF m.station = {} THEN <<>> ELSE The(m.station).sadr]
           D == {[dnet |-> s.snet, dadr |-> s.sadr, hopCount |-> 255] : s \in m.station}
           to == IF u.src.network = LocalNetwork THEN {}
                 ELSE {[dnet |-> u.src.network, dadr |-> OutboundDADR(u.src), hopCount |-> 255]}
<1>1. u.src = src /\ u.priority = m.priority /\ m.priority \in Nat
  <2>1. u = [src |-> src, apdu |-> m.apdu, priority |-> m.priority]
    BY DEF Meant
  <2>2. m.priority \in Nat
    BY LettersAssumption
  <2> HIDE DEF src
  <2> QED BY <2>1, <2>2
<1>2. u.src.addr = m.origin
    BY <1>1
<1>3. to = D /\ D \in Destinations
  <2>1. CASE m.station = {}
    <3>1. D = {}
      BY <2>1
    <3>2. u.src.network = LocalNetwork
      BY <1>1, <2>1
    <3> QED BY <3>1, <3>2 DEF Destinations, Pointer
  <2>2. CASE m.station # {}
    <3> DEFINE s == The(m.station)
    <3>1. m.station = {s} /\ s \in m.station /\ s \in [snet : Uint16s, sadr : Octets]
      <4>1. The(m.station) \in [snet : Uint16s, sadr : Octets] /\ m.station = {The(m.station)}
        BY <2>2, Pointed DEF Sources
      <4> QED BY <4>1
    <3>2. src.network = s.snet /\ src.mac = s.sadr
      BY <2>2
    <3> HIDE DEF s, src
    <3>3. SnetValid(s.snet) /\ Len(s.sadr) \in 1 .. 255
      BY <3>1
    <3>4. s.snet # LocalNetwork /\ s.snet # GlobalBroadcastNetwork /\ s.sadr # <<>>
      <4>1. s.snet # LocalNetwork /\ s.snet # GlobalBroadcastNetwork
        BY <3>3 DEF SnetValid
      <4>2. Len(s.sadr) # 0
        <5>1. \A k \in 1 .. 255 : k # 0
          OBVIOUS
        <5> QED BY <3>3, <5>1
      <4>3. s.sadr # <<>>
        BY <4>2
      <4> QED BY <4>1, <4>3
    <3>5. OutboundDADR(u.src) = s.sadr /\ u.src.network = s.snet
      BY <1>1, <3>2, <3>4 DEF OutboundDADR
    <3>6. to = {[dnet |-> s.snet, dadr |-> s.sadr, hopCount |-> 255]}
      BY <3>4, <3>5
    <3>7. D = {[dnet |-> s.snet, dadr |-> s.sadr, hopCount |-> 255]}
      BY <3>1
    <3>8. [dnet |-> s.snet, dadr |-> s.sadr, hopCount |-> 255] \in [dnet : Uint16s, dadr : Octets, hopCount : Octet]
      BY <3>1 DEF Octet
    <3>9. D \in Destinations
      BY <3>7, <3>8 DEF Destinations, Pointer
    <3> QED BY <3>6, <3>7, <3>9
  <2> QED BY <2>1, <2>2
<1> HIDE DEF src, D
<1>4. PICK o \in encodeAPDU(apdu) :
        packet \in NewApplicationNPDU(ApplicationNPCI(u.priority, FALSE, D, {}), o)
  <2>1. buildOutboundNPDU(u.src, u.priority, FALSE, apdu) =
          IF u.priority > MaxPriority THEN {}
          ELSE UNION {NewApplicationNPDU(ApplicationNPCI(u.priority, FALSE, to, {}), o) : o \in encodeAPDU(apdu)}
    BY DEF buildOutboundNPDU
  <2> HIDE DEF to
  <2>2. packet \in UNION {NewApplicationNPDU(ApplicationNPCI(u.priority, FALSE, D, {}), o) : o \in encodeAPDU(apdu)}
    BY <1>3, <2>1, Zenon
  <2> QED BY <2>2, Zenon
<1>5. o \in Octets /\ decodeAPDU(o) = {apdu}
    BY RepliesAssumption, APDUBack DEF ReadAs
<1>6. Carries(packet, m.priority, D, {}, o)
  <2> DEFINE p == m.priority
             n == packet
  <2>1. {} \in Sources /\ FALSE \in BOOLEAN
    BY DEF Sources, Pointer
  <2>2. p \in Nat /\ n \in NewApplicationNPDU(ApplicationNPCI(p, FALSE, D, {}), o)
    BY <1>1, <1>4
  <2> HIDE DEF p, n
  <2>3. Carries(n, p, D, {}, o)
    BY <1>3, <1>5, <2>1, <2>2, ApplicationNPDU, Zenon
  <2> QED BY <2>3 DEF p, n
<1>7. PICK x : DecodeFrame(data) = {Frame(FnOriginalUnicast, x)} /\ NPDUDecode(x) = {packet}
    BY <1>6, SentBack DEF Carries
<1>8. NPCIOf(packet).destination = D
  <2>1. NPCIOf(packet).destination =
            IF HasDestinationSpecifier(packet) /\ packet.dnet # {} /\ packet.hopCount # {}
            THEN {[dnet |-> The(packet.dnet), hopCount |-> The(packet.hopCount),
                   dadr |-> IF packet.dadr = {} THEN <<>> ELSE The(packet.dadr)]}
            ELSE {}
    BY DEF NPCIOf
  <2>2. /\ (HasDestinationSpecifier(packet) <=> D # {})
        /\ \A t \in D : /\ packet.dnet = {t.dnet} /\ packet.hopCount = {t.hopCount}
                        /\ packet.dadr = IF t.dadr = <<>> THEN {} ELSE {t.dadr}
    BY <1>6 DEF Carries
  <2>3. CASE D = {}
    BY <2>1, <2>2, <2>3
  <2>4. CASE D # {}
    <3> DEFINE t == The(D)
    <3>1. D = {t} /\ t \in [dnet : Uint16s, dadr : Octets, hopCount : Octet]
      BY <1>3, <2>4, Pointed DEF Destinations
    <3> HIDE DEF t
    <3>2. t = [dnet |-> t.dnet, hopCount |-> t.hopCount, dadr |-> t.dadr]
      BY <3>1
    <3>3. /\ packet.dnet = {t.dnet} /\ packet.hopCount = {t.hopCount}
          /\ packet.dadr = IF t.dadr = <<>> THEN {} ELSE {t.dadr}
      BY <2>2, <3>1
    <3>4. The(packet.dnet) = t.dnet /\ The(packet.hopCount) = t.hopCount
      BY <3>3 DEF The
    <3>5. (IF packet.dadr = {} THEN <<>> ELSE The(packet.dadr)) = t.dadr
      BY <3>3 DEF The
    <3>6. NPCIOf(packet).destination = {[dnet |-> t.dnet, hopCount |-> t.hopCount, dadr |-> t.dadr]}
      BY <2>1, <2>2, <2>4, <3>3, <3>4, <3>5
    <3> QED BY <3>1, <3>2, <3>6
  <2> QED BY <2>3, <2>4
<1>9. packet.apdu = o
    BY <1>6 DEF Carries
<1>10. Frame(FnOriginalUnicast, x).payload = x
    BY DEF Frame
<1>11. Back(data, apdu, m)
    BY <1>5, <1>7, <1>8, <1>9, <1>10 DEF Back, D
<1> QED BY <1>2, <1>11

-----------------------------------------------------------------------------
(***************************************************************************)
(* Network-layer messages: each is read as its constructor made it.        *)
(***************************************************************************)

\* The types of the messages are twelve numbers; the proprietary ones are above.
LEMMA MessageTypes ==
    /\ WhoIsRouter = 0 /\ IAmRouter = 1 /\ ICouldBeRouter = 2 /\ RejectMessage = 3
    /\ RouterBusy = 4 /\ RouterAvailable = 5 /\ InitTable = 6 /\ InitTableAck = 7
    /\ Establish = 8 /\ Disconnect = 9 /\ WhatIsNumber = 18 /\ NumberIs = 19
BY DEF WhoIsRouter, IAmRouter, ICouldBeRouter, RejectMessage, RouterBusy, RouterAvailable,
       InitTable, InitTableAck, Establish, Disconnect, WhatIsNumber, NumberIs

\* A message of a standard type is decoded by its type alone.
StandardTypes == {WhoIsRouter, IAmRouter, ICouldBeRouter, RejectMessage, RouterBusy,
                  RouterAvailable, InitTable, InitTableAck, Establish, Disconnect,
                  WhatIsNumber, NumberIs}

\* The header of a standard message is valid, neither reserved nor proprietary.
LEMMA StandardHeader ==
    ASSUME NEW t \in StandardTypes
    PROVE  /\ structureValid(Standard(t)) /\ ~IsProprietary(Standard(t).type)
           /\ ~(IsReserved(Standard(t).type) \/ ~ValidStandard(Standard(t).type))
           /\ Standard(t).type = t /\ Standard(t).vendor = {}
<1>1. t \in 0 .. 9 \/ t \in {18, 19}
    BY MessageTypes DEF StandardTypes
<1>2. Standard(t).type = t /\ Standard(t).vendor = {}
    BY DEF Standard
<1> QED BY <1>1, <1>2, MessageTypes DEF structureValid, IsProprietary, IsReserved, ValidStandard

\* The payload is octets, and nothing but the message is read of it.
PayloadBack(m) == m.payload \in Octets /\ DecodeMessageModel(m.header, m.payload) \subseteq {m}

\* A uint16 and an octet.
ThreeIn(p, n, o) == p \in Octets /\ Len(p) = 3 /\ Uint16(p, 1) = n /\ p[3] = o

\* A network number and an octet, in three octets.
LEMMA ThreeOctets ==
    ASSUME NEW n \in Networks, NEW o \in Octet
    PROVE  ThreeIn(PutUint16(n) \o <<o>>, n, o)
<1> DEFINE s == PutUint16(n)
           t == <<o>>
           p == s \o t
<1>1. s \in Octets /\ Len(s) = 2 /\ 256 * s[1] + s[2] = n
    BY PutOctets DEF Networks
<1>2. t \in Octets /\ Len(t) = 1 /\ t[1] = o
    BY DEF Octets
<1> HIDE DEF s, t
<1>3. /\ p \in Octets /\ Len(p) = Len(s) + Len(t)
      /\ \A i \in 1 .. Len(s) : p[i] = s[i]
      /\ \A i \in 1 .. Len(t) : p[Len(s) + i] = t[i]
    BY <1>1, <1>2, Concatenation
<1> HIDE DEF p
<1>4. p[1] = s[1] /\ p[2] = s[2] /\ p[3] = t[1] /\ Len(p) = 3
    BY <1>1, <1>2, <1>3
<1>5. Uint16(p, 1) = n
    BY <1>1, <1>4 DEF Uint16
<1>6. ThreeIn(p, n, o)
    BY <1>2, <1>3, <1>4, <1>5 DEF ThreeIn
<1> QED BY <1>6 DEF p, s, t

\* A network number in two octets.
LEMMA TwoOctets ==
    ASSUME NEW n \in Networks, NEW p, p = PutUint16(n)
    PROVE  p \in Octets /\ Len(p) = 2 /\ Uint16(p, 1) = n /\ p # <<>>
<1>1. PutUint16(n) \in Octets /\ Len(PutUint16(n)) = 2 /\ 256 * PutUint16(n)[1] + PutUint16(n)[2] = n
    BY PutOctets DEF Networks
<1> QED BY <1>1 DEF Uint16

\* A Who-Is-Router-To-Network is read as it was, with and without a network.
LEMMA WhoIsRouterBack ==
    ASSUME NEW dnet, dnet = {} \/ \E n \in Networks : dnet = {n}
    PROVE  PayloadBack(WhoIsRouterMessage(dnet))
<1> DEFINE m == WhoIsRouterMessage(dnet)
           p == m.payload
<1>1. m.header = Standard(WhoIsRouter) /\ p = IF dnet = {} THEN <<>> ELSE PutUint16(The(dnet))
    BY DEF WhoIsRouterMessage
<1> HIDE DEF m
<1>2. DecodeMessageModel(m.header, p) =
            IF p = <<>> THEN NewWhoIsRouter({})
            ELSE IF Len(p) = 2 THEN NewWhoIsRouter({Uint16(p, 1)}) ELSE {}
  <2>1. WhoIsRouter \in StandardTypes
    BY DEF StandardTypes
  <2> HIDE DEF p
  <2> QED BY <1>1, <2>1, StandardHeader, MessageTypes DEF DecodeMessageModel
<1>3. CASE dnet = {}
  <2>1. p = <<>> /\ p \in Octets
    BY <1>1, <1>3 DEF Octets
  <2>2. NewWhoIsRouter({}) \subseteq {m}
    BY <1>3 DEF NewWhoIsRouter, When, m
  <2> QED BY <1>2, <2>1, <2>2 DEF PayloadBack, m
<1>4. CASE dnet # {}
  <2>1. PICK n \in Networks : dnet = {n}
    BY <1>4
  <2>2. The(dnet) = n
    BY <2>1 DEF The
  <2>3. p = PutUint16(n)
    BY <1>1, <1>4, <2>2
  <2>4. p \in Octets /\ Len(p) = 2 /\ Uint16(p, 1) = n /\ p # <<>>
    BY <2>3, TwoOctets
  <2>5. NewWhoIsRouter({n}) \subseteq {m}
    BY <2>1 DEF NewWhoIsRouter, When, m
  <2> QED BY <1>2, <2>4, <2>5 DEF PayloadBack, m
<1> QED BY <1>3, <1>4

\* The messages of a network number and an octet are read as they were.
LEMMA ThreeOctetsBack ==
    ASSUME NEW n \in Networks, NEW o \in Octet, NEW c \in BOOLEAN
    PROVE  /\ PayloadBack(ICouldBeRouterMessage(n, o)) /\ PayloadBack(RejectMessageMessage(n, o))
           /\ PayloadBack(EstablishMessage(n, o)) /\ PayloadBack(NumberIsMessage(n, c))
<1>1. PayloadBack(ICouldBeRouterMessage(n, o))
  <2> DEFINE m == ICouldBeRouterMessage(n, o)
             p == m.payload
  <2>1. m.header = Standard(ICouldBeRouter) /\ p = PutUint16(n) \o <<o>>
    BY DEF ICouldBeRouterMessage
  <2>2. p \in Octets /\ Len(p) = 3 /\ Uint16(p, 1) = n /\ p[3] = o
    BY <2>1, ThreeOctets DEF ThreeIn
  <2>3. ICouldBeRouter \in StandardTypes
    BY DEF StandardTypes
  <2> HIDE DEF m, p
  <2>4. DecodeMessageModel(m.header, p) = NewICouldBeRouter(n, o)
    BY <2>1, <2>2, <2>3, StandardHeader, MessageTypes DEF DecodeMessageModel
  <2>5. NewICouldBeRouter(n, o) \subseteq {m}
    BY DEF NewICouldBeRouter, When, m
  <2> QED BY <2>2, <2>4, <2>5 DEF PayloadBack, m, p
<1>2. PayloadBack(RejectMessageMessage(n, o))
  <2> DEFINE m == RejectMessageMessage(n, o)
             p == m.payload
  <2>1. m.header = Standard(RejectMessage) /\ p = PutUint16(n) \o <<o>>
    BY DEF RejectMessageMessage
  <2>2. p \in Octets /\ Len(p) = 3 /\ Uint16(p, 1) = n /\ p[3] = o
    BY <2>1, ThreeOctets DEF ThreeIn
  <2>3. RejectMessage \in StandardTypes
    BY DEF StandardTypes
  <2> HIDE DEF m, p
  <2>4. DecodeMessageModel(m.header, p) = NewRejectMessage(n, o)
    BY <2>1, <2>2, <2>3, StandardHeader, MessageTypes DEF DecodeMessageModel
  <2>5. NewRejectMessage(n, o) \subseteq {m}
    BY DEF NewRejectMessage, When, m
  <2> QED BY <2>2, <2>4, <2>5 DEF PayloadBack, m, p
<1>3. PayloadBack(EstablishMessage(n, o))
  <2> DEFINE m == EstablishMessage(n, o)
             p == m.payload
  <2>1. m.header = Standard(Establish) /\ p = PutUint16(n) \o <<o>>
    BY DEF EstablishMessage
  <2>2. p \in Octets /\ Len(p) = 3 /\ Uint16(p, 1) = n /\ p[3] = o
    BY <2>1, ThreeOctets DEF ThreeIn
  <2>3. Establish \in StandardTypes
    BY DEF StandardTypes
  <2> HIDE DEF m, p
  <2>4. DecodeMessageModel(m.header, p) = NewEstablish(n, o)
    BY <2>1, <2>2, <2>3, StandardHeader, MessageTypes DEF DecodeMessageModel
  <2>5. NewEstablish(n, o) \subseteq {m}
    BY DEF NewEstablish, When, m
  <2> QED BY <2>2, <2>4, <2>5 DEF PayloadBack, m, p
<1>4. PayloadBack(NumberIsMessage(n, c))
  <2> DEFINE m == NumberIsMessage(n, c)
             p == m.payload
             b == Flag(c, 1)
  <2>1. m.header = Standard(NumberIs) /\ p = PutUint16(n) \o <<b>>
    BY DEF NumberIsMessage
  <2>0. b \in Octet /\ b \in {0, 1} /\ ((b = 1) <=> c)
    BY DEF Octet, Flag
  <2> HIDE DEF b
  <2>2. p \in Octets /\ Len(p) = 3 /\ Uint16(p, 1) = n /\ p[3] = b
    BY <2>0, <2>1, ThreeOctets DEF ThreeIn
  <2>3. NumberIs \in StandardTypes
    BY DEF StandardTypes
  <2> HIDE DEF m, p
  <2>4. DecodeMessageModel(m.header, p) = NewNumberIs(n, b = 1)
    BY <2>0, <2>1, <2>2, <2>3, StandardHeader, MessageTypes DEF DecodeMessageModel
  <2>5. (b = 1) = c
    BY <2>0, Zenon
  <2>6. NewNumberIs(n, b = 1) = NewNumberIs(n, c)
    BY <2>5, Zenon
  <2>7. NewNumberIs(n, c) \subseteq {m}
    BY DEF NewNumberIs, When, m
  <2> QED BY <2>2, <2>4, <2>6, <2>7 DEF PayloadBack, m, p
<1> QED BY <1>1, <1>2, <1>3, <1>4

\* The messages of one network number or of nothing are read as they were.
LEMMA ShortBack ==
    ASSUME NEW n \in Networks
    PROVE  PayloadBack(DisconnectMessage(n)) /\ PayloadBack(WhatIsNumberMessage)
<1>1. PayloadBack(DisconnectMessage(n))
  <2> DEFINE m == DisconnectMessage(n)
             p == m.payload
  <2>1. m.header = Standard(Disconnect) /\ p = PutUint16(n)
    BY DEF DisconnectMessage
  <2>2. p \in Octets /\ Len(p) = 2 /\ Uint16(p, 1) = n
    BY <2>1, TwoOctets
  <2>3. Disconnect \in StandardTypes
    BY DEF StandardTypes
  <2> HIDE DEF m, p
  <2>4. DecodeMessageModel(m.header, p) = NewDisconnect(n)
    BY <2>1, <2>2, <2>3, StandardHeader, MessageTypes DEF DecodeMessageModel
  <2>5. NewDisconnect(n) \subseteq {m}
    BY DEF NewDisconnect, When, m
  <2> QED BY <2>2, <2>4, <2>5 DEF PayloadBack, m, p
<1>2. PayloadBack(WhatIsNumberMessage)
  <2> DEFINE m == WhatIsNumberMessage
             p == m.payload
  <2>1. m.header = Standard(WhatIsNumber) /\ p = <<>> /\ p \in Octets
    BY DEF WhatIsNumberMessage, Octets
  <2>3. WhatIsNumber \in StandardTypes
    BY DEF StandardTypes
  <2> HIDE DEF m, p
  <2>4. DecodeMessageModel(m.header, p) = When(p = <<>>, WhatIsNumberMessage)
    BY <2>1, <2>3, StandardHeader, MessageTypes DEF DecodeMessageModel
  <2> QED BY <2>1, <2>4 DEF PayloadBack, m, p, When
<1> QED BY <1>1, <1>2

\* A proprietary message is read as it was.
LEMMA ProprietaryBack ==
    ASSUME NEW t \in 128 .. 255, NEW v, NEW p \in Octets
    PROVE  PayloadBack(ProprietaryMessage(t, v, p))
<1> DEFINE m == ProprietaryMessage(t, v, p)
<1>1. m.header.type = t /\ m.header.vendor = {v} /\ m.payload = p
    BY DEF ProprietaryMessage
<1> HIDE DEF m
<1>2. structureValid(m.header) /\ IsProprietary(m.header.type)
    BY <1>1 DEF structureValid, IsProprietary
<1>4. The(m.header.vendor) = v
    BY <1>1 DEF The
<1>5. DecodeMessageModel(m.header, p) = NewProprietary(t, v, p)
    BY <1>1, <1>2, <1>4 DEF DecodeMessageModel
<1>6. NewProprietary(t, v, p) \subseteq {m}
    BY DEF NewProprietary, When, m
<1> QED BY <1>1, <1>5, <1>6 DEF PayloadBack, m

\* A list of network numbers is read back from its octets.
LEMMA ListBack ==
    ASSUME NEW ns \in Seq(Networks), NetworkListValid(ns), NEW p, p = encodeNetworkList(ns)
    PROVE  p \in Octets /\ decodeNetworkList(p) = {ns}
<1> DEFINE n == Len(ns)
           P(i) == PutUint16(ns[(i + 1) \div 2])[2 - (i % 2)]
<1>1. n \in Nat /\ n # 0 /\ \A j \in 1 .. n : ns[j] \in Networks
    BY EmptySeq DEF NetworkListValid
<1>2. p = [i \in 1 .. 2 * n |-> P(i)]
    BY DEF encodeNetworkList
<1>3. \A i \in 1 .. 2 * n : (i + 1) \div 2 \in 1 .. n /\ 2 - (i % 2) \in 1 .. 2
    BY <1>1
<1>4. \A x \in Networks : /\ PutUint16(x)[1] \in Octet /\ PutUint16(x)[2] \in Octet
                          /\ 256 * PutUint16(x)[1] + PutUint16(x)[2] = x
  <2> TAKE x \in Networks
  <2> DEFINE s == PutUint16(x)
  <2>1. s \in Octets /\ Len(s) = 2 /\ 256 * s[1] + s[2] = x
    BY PutOctets DEF Networks
  <2> HIDE DEF s
  <2>2. s \in Seq(Octet) /\ 1 \in 1 .. Len(s) /\ 2 \in 1 .. Len(s)
    BY <2>1 DEF Octets
  <2>3. s[1] \in Octet /\ s[2] \in Octet
    BY <2>2, ElementOfSeq
  <2> QED BY <2>1, <2>3 DEF s
<1>5. \A i \in 1 .. 2 * n : P(i) \in Octet
  <2> TAKE i \in 1 .. 2 * n
  <2> DEFINE j == (i + 1) \div 2
             k == 2 - (i % 2)
  <2>1. ns[j] \in Networks /\ (k = 1 \/ k = 2)
    BY <1>1, <1>3
  <2> HIDE DEF j, k
  <2>2. PutUint16(ns[j])[k] \in Octet
    BY <1>4, <2>1
  <2> QED BY <2>2 DEF j, k
<1>6. p \in Octets /\ Len(p) = 2 * n
  <2> HIDE DEF P
  <2>1. 2 * n \in Nat
    BY <1>1
  <2>2. p \in [1 .. 2 * n -> Octet]
    BY <1>2, <1>5
  <2> QED BY <2>1, <2>2, IsASeq, LenProperties DEF Octets
<1>7. ASSUME NEW j \in 1 .. n PROVE Uint16(p, 2 * j - 1) = ns[j]
  <2>1. 2 * j - 1 \in 1 .. 2 * n /\ 2 * j - 1 + 1 \in 1 .. 2 * n
    BY <1>1
  <2>2. /\ (2 * j - 1 + 1) \div 2 = j /\ 2 - ((2 * j - 1) % 2) = 1
        /\ (2 * j - 1 + 1 + 1) \div 2 = j /\ 2 - ((2 * j - 1 + 1) % 2) = 2
    BY <1>1
  <2>3. P(2 * j - 1) = PutUint16(ns[j])[1] /\ P(2 * j - 1 + 1) = PutUint16(ns[j])[2]
    BY <2>2
  <2> HIDE DEF P
  <2>4. p[2 * j - 1] = PutUint16(ns[j])[1] /\ p[2 * j - 1 + 1] = PutUint16(ns[j])[2]
    BY <1>2, <2>1, <2>3
  <2>5. 256 * PutUint16(ns[j])[1] + PutUint16(ns[j])[2] = ns[j]
    BY <1>1, <1>4
  <2> QED BY <2>4, <2>5 DEF Uint16
<1> HIDE DEF P
<1> DEFINE xs == [i \in 1 .. Len(p) \div 2 |-> Uint16(p, 2 * i - 1)]
<1>8. Len(p) \div 2 = n /\ Len(p) % 2 = 0 /\ p # <<>>
    BY <1>1, <1>6
<1>9. xs = ns
  <2>1. xs = [i \in 1 .. n |-> ns[i]]
    BY <1>7, <1>8
  <2>2. ns = [i \in 1 .. n |-> ns[i]]
    OBVIOUS
  <2> HIDE DEF xs
  <2> QED BY <2>1, <2>2
<1>10. decodeNetworkList(p) = When(p # <<>> /\ Len(p) % 2 = 0 /\ NetworkListValid(xs), xs)
    BY DEF decodeNetworkList
<1> HIDE DEF xs
<1> QED BY <1>6, <1>8, <1>9, <1>10 DEF When

\* The messages of a list of networks are read as they were.
LEMMA NetworkListBack ==
    ASSUME NEW t \in {IAmRouter, RouterBusy, RouterAvailable}, NEW ns \in Seq(Networks)
    PROVE  PayloadBack(NetworkListMessage(t, ns))
<1> DEFINE m == NetworkListMessage(t, ns)
           p == m.payload
<1>1. m.header = Standard(t) /\ p = encodeNetworkList(ns)
    BY DEF NetworkListMessage
<1>2. t \in StandardTypes
    BY DEF StandardTypes
<1> HIDE DEF m, p
<1>3. DecodeMessageModel(m.header, p) = UNION {NewNetworkList(t, xs) : xs \in decodeNetworkList(p)}
    BY <1>1, <1>2, StandardHeader, MessageTypes DEF DecodeMessageModel
<1>4. CASE NetworkListValid(ns)
  <2>1. p \in Octets /\ decodeNetworkList(p) = {ns}
    BY <1>1, <1>4, ListBack
  <2>2. NewNetworkList(t, ns) \subseteq {m}
    BY DEF NewNetworkList, When, m
  <2> QED BY <1>3, <2>1, <2>2 DEF PayloadBack, m, p
<1>5. CASE ~NetworkListValid(ns)
  <2>1. p = <<>>
    BY <1>1, <1>5 DEF encodeNetworkList
  <2>2. decodeNetworkList(p) = {}
    BY <2>1 DEF decodeNetworkList, When
  <2>3. p \in Octets
    BY <2>1 DEF Octets
  <2> QED BY <1>3, <2>2, <2>3 DEF PayloadBack, m, p
<1> QED BY <1>4, <1>5

-----------------------------------------------------------------------------
(***************************************************************************)
(* Routing tables: the octets of a list of entries of various lengths.     *)
(***************************************************************************)

\* A nonempty set of numbers has a least one.
LEMMA LeastNumber ==
    ASSUME NEW T \in SUBSET Nat, T # {}
    PROVE  \E x \in T : \A y \in T : x <= y
<1> DEFINE R == OpToRel(<, Nat)
<1>1. IsWellFoundedOn(R, Nat)
    BY NatLessThanWellFounded
<1>2. \A a, b \in Nat : a < b => <<a, b>> \in R
    BY DEF OpToRel
<1> HIDE DEF R
<1>3. PICK x \in T : \A y \in T : ~(<<y, x>> \in R)
    BY <1>1, WFMin
<1>4. \A y \in T : ~(y < x)
    BY <1>2, <1>3
<1> QED BY <1>4

\* A conversion to an octet.
LEMMA LowOctet == \A k \in Nat : k % 256 \in Octet
<1>1. \A k \in Nat : k % 256 \in 0 .. 255
    OBVIOUS
<1> QED BY <1>1 DEF Octet

\* The octets of a routing table up to an entry, and with the next entry.
Rest(q) == <<q.id, Len(q.info) % 256>>
Extended(b, q) == b \o PutUint16(q.dnet) \o Rest(q) \o q.info
Extends(x, b, q) ==
    /\ x \in Octets /\ Len(x) = Len(b) + 4 + Len(q.info)
    /\ In(x, 0, b) /\ In(x, Len(b), PutUint16(q.dnet))
    /\ In(x, Len(b) + 2, Rest(q)) /\ In(x, Len(b) + 4, q.info)

\* Extended puts an entry behind the octets of the entries before it.
LEMMA ExtendedOctets ==
    ASSUME NEW b \in Octets, NEW q \in PortEntries
    PROVE  Extends(Extended(b, q), b, q)
<1> DEFINE s == PutUint16(q.dnet)
           t == Rest(q)
           u == q.info
           x == b \o s
           y == x \o t
           z == y \o u
<1>1. s \in Octets /\ Len(s) = 2
    BY PutOctets DEF PortEntries, Networks
<1>2. t \in Octets /\ Len(t) = 2 /\ u \in Octets /\ Len(u) \in Nat /\ Len(b) \in Nat
  <2>1. Len(q.info) \in Nat /\ q.id \in Octet /\ q.info \in Octets
    BY DEF PortEntries, Octets
  <2>2. Len(q.info) % 256 \in Octet
    BY <2>1, LowOctet
  <2> DEFINE k == Len(q.info) % 256
  <2>3. k \in Octet /\ t = <<q.id, k>>
    BY <2>2 DEF Rest
  <2> HIDE DEF k, t
  <2>4. t \in Octets /\ Len(t) = 2
    BY <2>1, <2>3, PairOctets
  <2>5. Len(b) \in Nat
    BY DEF Octets
  <2> QED BY <2>1, <2>4, <2>5
<1> HIDE DEF s, t, u
<1>3. x \in Octets /\ Len(x) = Len(b) + Len(s) /\ In(x, 0, b) /\ In(x, Len(b), s)
    BY <1>1, Concatenation, InConcatenation
<1> HIDE DEF x
<1>4. y \in Octets /\ Len(y) = Len(x) + Len(t) /\ In(y, 0, b) /\ In(y, Len(b), s) /\ In(y, Len(x), t)
    BY <1>1, <1>2, <1>3, Concatenation, InConcatenation
<1> HIDE DEF y
<1>5. Len(x) \in Nat
    BY <1>1, <1>2, <1>3
<1>6. /\ z \in Octets /\ Len(z) = Len(y) + Len(u) /\ In(z, 0, b) /\ In(z, Len(b), s)
      /\ In(z, Len(x), t) /\ In(z, Len(y), u)
    BY <1>1, <1>2, <1>4, <1>5, Concatenation, InConcatenation
<1>7. Len(x) = Len(b) + 2 /\ Len(y) = Len(b) + 4
    BY <1>1, <1>2, <1>3, <1>4
<1> HIDE DEF z
<1>8. /\ z \in Octets /\ Len(z) = Len(b) + 4 + Len(u) /\ In(z, 0, b) /\ In(z, Len(b), s)
      /\ In(z, Len(b) + 2, t) /\ In(z, Len(b) + 4, u)
    BY <1>6, <1>7
<1>9. z = Extended(b, q)
    BY DEF Extended, z, y, x, s, t, u
<1> QED BY <1>8, <1>9 DEF Extends, s, t, u

\* The recursion of encodePortEntryList, as far as entry n.
Growing(f, ports, n) ==
    f = [i \in 0 .. n |-> IF i = 0 THEN <<Len(ports) % 256>> ELSE Extended(f[i - 1], ports[i])]

\* The octets of the first n entries are defined for every n.
LEMMA GrowingExists ==
    ASSUME NEW ports, NEW N \in Nat
    PROVE  \E f : Growing(f, ports, N)
<1> DEFINE T == {n \in Nat : ~\E f : Growing(f, ports, n)}
<1> SUFFICES ASSUME T # {} PROVE FALSE
    OBVIOUS
<1>1. PICK x \in T : \A y \in T : x <= y
  <2>1. T \in SUBSET Nat
    OBVIOUS
  <2> HIDE DEF T
  <2> QED BY <2>1, LeastNumber
<1>2. x \in Nat /\ ~\E f : Growing(f, ports, x)
    OBVIOUS
<1>3. CASE x = 0
  <2> DEFINE f == [i \in 0 .. 0 |-> <<Len(ports) % 256>>]
  <2>1. f = [i \in 0 .. 0 |-> IF i = 0 THEN <<Len(ports) % 256>> ELSE Extended(f[i - 1], ports[i])]
    OBVIOUS
  <2> QED BY <1>2, <1>3, <2>1 DEF Growing
<1>4. CASE x # 0
  <2>1. x - 1 \in Nat /\ ~(x <= x - 1)
    BY <1>2, <1>4
  <2>2. x - 1 \notin T
    <3> HIDE DEF T
    <3> QED BY <1>1, <2>1
  <2>3. PICK f : Growing(f, ports, x - 1)
    BY <2>1, <2>2
  <2> DEFINE g == [i \in 0 .. x |-> IF i = x THEN Extended(f[x - 1], ports[x]) ELSE f[i]]
  <2>4. \A i \in 0 .. x - 1 : f[i] = IF i = 0 THEN <<Len(ports) % 256>> ELSE Extended(f[i - 1], ports[i])
    BY <2>3 DEF Growing
  <2>5. ASSUME NEW i \in 0 .. x
        PROVE  g[i] = IF i = 0 THEN <<Len(ports) % 256>> ELSE Extended(g[i - 1], ports[i])
    <3>1. CASE i = x
      <4>1. g[i] = Extended(f[x - 1], ports[x]) /\ i # 0
        BY <1>4, <3>1
      <4>2. g[i - 1] = f[x - 1]
        BY <1>2, <2>1, <3>1
      <4> HIDE DEF g
      <4> QED BY <3>1, <4>1, <4>2
    <3>2. CASE i # x
      <4>1. i \in 0 .. x - 1 /\ g[i] = f[i]
        BY <1>2, <3>2
      <4>2. i # 0 => g[i - 1] = f[i - 1]
        BY <1>2, <3>2
      <4> HIDE DEF g
      <4> QED BY <2>4, <4>1, <4>2
    <3> QED BY <3>1, <3>2
  <2>6. g = [i \in 0 .. x |-> IF i = 0 THEN <<Len(ports) % 256>> ELSE Extended(g[i - 1], ports[i])]
    BY <2>5
  <2> HIDE DEF g
  <2> QED BY <1>2, <2>6 DEF Growing
<1> QED BY <1>3, <1>4

\* The octets grow by an entry at a time.
LEMMA Growth ==
    ASSUME NEW ports \in Seq(PortEntries), NEW f, Growing(f, ports, Len(ports))
    PROVE  /\ f[0] = <<Len(ports) % 256>>
           /\ \A i \in 0 .. Len(ports) : f[i] \in Octets
           /\ \A i \in 1 .. Len(ports) : Extends(f[i], f[i - 1], ports[i])
<1> DEFINE N == Len(ports)
<1>1. N \in Nat /\ \A i \in 1 .. N : ports[i] \in PortEntries
    OBVIOUS
<1>2. \A i \in 0 .. N : f[i] = IF i = 0 THEN <<N % 256>> ELSE Extended(f[i - 1], ports[i])
    BY DEF Growing
<1>3. f[0] = <<N % 256>> /\ f[0] \in Octets
  <2>1. N % 256 \in Octet
    BY <1>1, LowOctet
  <2> DEFINE k == N % 256
  <2>2. 0 \in 0 .. N
    BY <1>1
  <2>3. f[0] = <<k>> /\ k \in Octet
    BY <1>2, <2>1, <2>2
  <2> HIDE DEF k
  <2>4. <<k>> \in Octets
    BY <2>3, PairOctets
  <2> QED BY <2>3, <2>4 DEF k
<1> DEFINE T == {i \in 0 .. N : f[i] \notin Octets}
<1>4. T = {}
  <2> SUFFICES ASSUME T # {} PROVE FALSE
    OBVIOUS
  <2>1. PICK x \in T : \A y \in T : x <= y
    <3>1. T \in SUBSET Nat
      BY <1>1
    <3> HIDE DEF T
    <3> QED BY <3>1, LeastNumber
  <2>2. x \in 1 .. N /\ x - 1 \in 0 .. N /\ ~(x <= x - 1)
    BY <1>1, <1>3
  <2>3. f[x - 1] \in Octets
    BY <2>1, <2>2
  <2>4. Extended(f[x - 1], ports[x]) \in Octets
    BY <1>1, <2>2, <2>3, ExtendedOctets DEF Extends
  <2> QED BY <1>2, <2>2, <2>4
<1>5. ASSUME NEW i \in 1 .. N PROVE Extends(f[i], f[i - 1], ports[i])
  <2>1. i - 1 \in 0 .. N /\ i \in 0 .. N /\ i # 0
    BY <1>1
  <2>2. f[i - 1] \in Octets /\ f[i] = Extended(f[i - 1], ports[i])
    BY <1>2, <1>4, <2>1
  <2> QED BY <1>1, <2>2, ExtendedOctets
<1> QED BY <1>3, <1>4, <1>5

\* What stands before an entry stands before all that come behind it.
LEMMA Prefixes ==
    ASSUME NEW ports \in Seq(PortEntries), NEW f, Growing(f, ports, Len(ports)),
           NEW i \in 0 .. Len(ports)
    PROVE  In(f[Len(ports)], 0, f[i])
<1> DEFINE N == Len(ports)
           T == {j \in Nat : j \in i .. N /\ ~In(f[j], 0, f[i])}
<1>1. N \in Nat /\ (\A j \in 0 .. N : f[j] \in Octets)
      /\ \A j \in 1 .. N : Extends(f[j], f[j - 1], ports[j])
    BY Growth
<1>2. T = {}
  <2> SUFFICES ASSUME T # {} PROVE FALSE
    OBVIOUS
  <2>1. PICK x \in T : \A y \in T : x <= y
    <3>1. T \in SUBSET Nat
      OBVIOUS
    <3> HIDE DEF T
    <3> QED BY <3>1, LeastNumber
  <2>2. CASE x = i
    <3>1. f[i] \in Octets /\ Len(f[i]) \in Nat
      BY <1>1 DEF Octets
    <3>2. In(f[i], 0, f[i])
      BY <3>1 DEF In
    <3> QED BY <2>2, <3>2
  <2>3. CASE x # i
    <3>1. x \in 1 .. N /\ x - 1 \in i .. N /\ x - 1 \in 0 .. N /\ x - 1 \in Nat /\ ~(x <= x - 1)
      BY <1>1, <2>3
    <3>2. In(f[x - 1], 0, f[i])
      BY <2>1, <3>1
    <3>3. In(f[x], 0, f[x - 1]) /\ f[x] \in Octets /\ f[x - 1] \in Octets /\ f[i] \in Octets
      BY <1>1, <3>1 DEF Extends
    <3>4. Len(f[x]) \in Nat
      BY <3>3 DEF Octets
    <3>5. In(f[x], 0 + 0, f[i])
      BY <3>2, <3>3, <3>4, InIn
    <3> QED BY <3>5
  <2> QED BY <2>2, <2>3
<1>3. N \in Nat /\ N \in i .. N
    BY <1>1
<1> QED BY <1>2, <1>3

\* Where entry q of a routing table stands in its octets.
Standing(p, c, q) ==
    /\ c \in Nat /\ c + 4 <= Len(p) /\ c + 4 + p[c + 4] <= Len(p)
    /\ Uint16(p, c + 1) = q.dnet /\ p[c + 3] = q.id /\ p[c + 4] = Len(q.info)
    /\ SubSeq(p, c + 5, c + 4 + p[c + 4]) = q.info

\* Every entry of a routing table stands where the entries before it end.
LEMMA EntryStands ==
    ASSUME NEW ports \in Seq(PortEntries), NEW f, Growing(f, ports, Len(ports)),
           NEW i \in 1 .. Len(ports), Len(ports[i].info) <= 255
    PROVE  /\ Standing(f[Len(ports)], Len(f[i - 1]), ports[i])
           /\ Len(f[i]) = Len(f[i - 1]) + 4 + Len(ports[i].info)
<1> DEFINE p == f[Len(ports)]
           b == f[i - 1]
           x == f[i]
           q == ports[i]
           c == Len(b)
<1>1. i - 1 \in 0 .. Len(ports) /\ i \in 0 .. Len(ports) /\ Len(ports) \in 0 .. Len(ports)
    OBVIOUS
<1>2. Extends(x, b, q) /\ x \in Octets /\ b \in Octets /\ p \in Octets /\ In(p, 0, x)
    BY <1>1, Growth, Prefixes
<1>3. q.dnet \in 0 .. MaxUint16 /\ q.id \in Octet /\ q.info \in Octets /\ q \in PortEntries
  <2>1. ports[i] \in PortEntries
    BY ElementOfSeq
  <2>2. q \in PortEntries
    BY <2>1
  <2> HIDE DEF q
  <2>3. q.dnet \in Networks /\ q.id \in Octet /\ q.info \in Seq(Octet)
    BY <2>2 DEF PortEntries
  <2> QED BY <2>2, <2>3 DEF Networks, Octets
<1>3a. Len(q.info) <= 255
    OBVIOUS
<1> HIDE DEF p, b, x, q
<1>4. c \in Nat /\ Len(q.info) \in Nat /\ Len(p) \in Nat /\ Len(x) \in Nat
    BY <1>2, <1>3 DEF Octets
<1>5. /\ Len(x) = c + 4 + Len(q.info) /\ In(x, c, PutUint16(q.dnet))
      /\ In(x, c + 2, Rest(q)) /\ In(x, c + 4, q.info)
    BY <1>2 DEF Extends
<1> HIDE DEF c
<1>6. PutUint16(q.dnet) \in Octets
    BY <1>3, PutOctets
<1>7. Rest(q) \in Octets /\ Len(Rest(q)) = 2 /\ Rest(q)[1] = q.id /\ Rest(q)[2] = Len(q.info)
  <2>1. Len(q.info) % 256 = Len(q.info) /\ Len(q.info) \in Octet
    <3> DEFINE k == Len(q.info)
    <3>1. k \in Nat /\ k <= 255
      BY <1>3a, <1>4
    <3> HIDE DEF k
    <3>2. k % 256 = k /\ k \in 0 .. 255
      BY <3>1
    <3> QED BY <3>2 DEF k, Octet
  <2>2. Rest(q) = <<q.id, Len(q.info)>>
    BY <2>1 DEF Rest
  <2> DEFINE k == Len(q.info)
             h == q.id
  <2>3. k \in Octet /\ h \in Octet
    BY <1>3, <2>1
  <2> HIDE DEF k, h
  <2>4. <<h, k>> \in Octets /\ Len(<<h, k>>) = 2 /\ <<h, k>>[1] = h /\ <<h, k>>[2] = k
    BY <2>3, PairOctets
  <2> QED BY <2>2, <2>4 DEF h, k
<1>8. In(p, 0 + c, PutUint16(q.dnet)) /\ In(p, 0 + (c + 2), Rest(q)) /\ In(p, 0 + (c + 4), q.info)
  <2>1. c + 2 \in Nat /\ c + 4 \in Nat /\ 0 \in Nat
    BY <1>4
  <2> QED BY <1>2, <1>3, <1>4, <1>5, <1>6, <1>7, <2>1, InIn
<1>9. 0 + c = c /\ 0 + (c + 2) = c + 2 /\ 0 + (c + 4) = c + 4
    BY <1>4
<1>10. Uint16(p, c + 1) = q.dnet
    BY <1>3, <1>4, <1>8, <1>9, InUint16
<1>11. p[c + 3] = q.id /\ p[c + 4] = Len(q.info)
  <2>1. \A j \in 1 .. 2 : p[c + 2 + j] = Rest(q)[j]
    BY <1>7, <1>8, <1>9 DEF In
  <2>2. c + 2 + 1 = c + 3 /\ c + 2 + 2 = c + 4
    BY <1>4
  <2>3. p[c + 2 + 1] = Rest(q)[1] /\ p[c + 2 + 2] = Rest(q)[2]
    BY <2>1
  <2> QED BY <1>7, <2>2, <2>3
<1>12. Len(x) <= Len(p)
    BY <1>2, <1>4 DEF In
<1>13. SubSeq(p, c + 4 + 1, c + 4 + Len(q.info)) = q.info
  <2> DEFINE at == c + 4
  <2>1. at \in Nat /\ In(p, at, q.info)
    BY <1>4, <1>8, <1>9
  <2> HIDE DEF at
  <2>2. SubSeq(p, at + 1, at + Len(q.info)) = q.info
    BY <1>2, <1>3, <2>1, InPiece
  <2> QED BY <2>2 DEF at
<1>14. Standing(p, c, q)
  <2>1. c + 4 <= Len(p) /\ c + 4 + p[c + 4] <= Len(p) /\ c + 4 + 1 = c + 5
    <3>1. p[c + 4] = Len(q.info) /\ Len(x) = c + 4 + Len(q.info) /\ Len(x) <= Len(p)
      BY <1>5, <1>11, <1>12
    <3> DEFINE k == Len(q.info)
               n == Len(p)
               l == Len(x)
    <3>2. c \in Nat /\ k \in Nat /\ n \in Nat /\ l = c + 4 + k /\ l <= n
      BY <1>4, <3>1
    <3> HIDE DEF k, n, l
    <3>3. c + 4 <= n /\ c + 4 + k <= n /\ c + 4 + 1 = c + 5
      BY <3>2
    <3> QED BY <3>1, <3>3 DEF k, n
  <2>2. SubSeq(p, c + 5, c + 4 + p[c + 4]) = q.info
    BY <1>11, <1>13, <2>1
  <2> QED BY <1>4, <1>10, <1>11, <2>1, <2>2 DEF Standing
<1> QED BY <1>5, <1>14 DEF p, b, x, q, c

\* The recursion of decodeRoutingTableEntries.
Stepping(p, c) ==
    IF /\ c # -1 /\ c + 4 <= Len(p)
       /\ Specific(Uint16(p, c + 1)) /\ c + 4 + p[c + 4] <= Len(p)
    THEN c + 4 + p[c + 4] ELSE -1
Starting(g, p) == g = [i \in 0 .. p[1] |-> IF i = 0 THEN 1 ELSE Stepping(p, g[i - 1])]

\* A routing table is read entry by entry as it was written.
LEMMA TableBack ==
    ASSUME NEW ports \in Seq(PortEntries), Len(ports) \in 1 .. 255,
           \A i \in DOMAIN ports : PortEntryValid(ports[i]),
           NEW p, p = encodePortEntryList(ports)
    PROVE  p \in Octets /\ decodeRoutingTableEntries(p) = {ports}
<1> DEFINE N == Len(ports)
           f == CHOOSE e : Growing(e, ports, N)
<1>1. N \in Nat /\ N \in 1 .. 255 /\ N \in 0 .. N /\ N % 256 = N /\ DOMAIN ports = 1 .. N
  <2>1. N \in 1 .. 255 /\ DOMAIN ports = 1 .. N
    OBVIOUS
  <2> HIDE DEF N
  <2>2. N \in Nat /\ N \in 0 .. N
    BY <2>1
  <2>3. N % 256 = N
    BY <2>1
  <2> QED BY <2>1, <2>2, <2>3
<1>2. \E e : Growing(e, ports, N)
    BY <1>1, GrowingExists
<1>3. Growing(f, ports, N)
    BY <1>2
<1>4. p = f[N]
  <2>1. encodePortEntryList(ports) = (CHOOSE e : Growing(e, ports, N))[N]
    BY DEF encodePortEntryList, Growing, Extended, Rest
  <2> QED BY <2>1
<1> HIDE DEF f
<1>5. \A i \in 1 .. N : PortEntryValid(ports[i]) /\ Len(ports[i].info) <= 255 /\ Specific(ports[i].dnet)
    BY <1>1 DEF PortEntryValid
<1>6. /\ f[0] = <<N % 256>> /\ \A i \in 0 .. N : f[i] \in Octets
    BY <1>3, Growth
<1>7. p \in Octets
    BY <1>1, <1>4, <1>6
<1>8. p[1] = N /\ p # <<>>
  <2>1. In(p, 0, f[0])
    BY <1>1, <1>3, <1>4, Prefixes
  <2>2. f[0] = <<N>> /\ Len(f[0]) = 1 /\ f[0][1] = N
    BY <1>1, <1>6
  <2> DEFINE b == f[0]
  <2>3. In(p, 0, b) /\ Len(b) = 1 /\ b[1] = N
    BY <2>1, <2>2
  <2> HIDE DEF b, N
  <2>4. 1 \in 1 .. Len(b) /\ 0 + 1 = 1
    BY <2>3
  <2>5. p[0 + 1] = b[1] /\ 0 + Len(b) <= Len(p)
    BY <2>3, <2>4 DEF In
  <2>6. p # <<>>
    BY <2>3, <2>5
  <2> QED BY <2>3, <2>4, <2>5, <2>6
<1>9. \A i \in 1 .. N : /\ Standing(p, Len(f[i - 1]), ports[i])
                        /\ Len(f[i]) = Len(f[i - 1]) + 4 + Len(ports[i].info)
    BY <1>3, <1>4, <1>5, EntryStands
<1>10. ASSUME NEW i \in 1 .. N PROVE Stepping(p, Len(f[i - 1])) = Len(f[i])
  <2> DEFINE c == Len(f[i - 1])
             q == ports[i]
  <2>1. Standing(p, c, q) /\ Len(f[i]) = c + 4 + Len(q.info) /\ Specific(q.dnet)
    BY <1>5, <1>9
  <2> HIDE DEF c, q
  <2>2. c # -1 /\ c \in Nat
    BY <2>1 DEF Standing
  <2>3. Stepping(p, c) = c + 4 + p[c + 4] /\ p[c + 4] = Len(q.info)
    BY <2>1, <2>2 DEF Standing, Stepping
  <2>4. Stepping(p, c) = Len(f[i])
    BY <2>1, <2>3
  <2> QED BY <2>4 DEF c
<1>11. Len(f[0]) = 1
    BY <1>6
<1>12. \E g : Starting(g, p)
  <2> DEFINE g == [i \in 0 .. N |-> Len(f[i])]
  <2>1. ASSUME NEW i \in 0 .. N PROVE g[i] = IF i = 0 THEN 1 ELSE Stepping(p, g[i - 1])
    <3>1. CASE i = 0
      BY <1>11, <3>1
    <3>2. CASE i # 0
      <4>1. i \in 1 .. N /\ i - 1 \in 0 .. N
        BY <3>2
      <4>2. g[i - 1] = Len(f[i - 1]) /\ g[i] = Len(f[i])
        BY <4>1
      <4> HIDE DEF g
      <4> QED BY <1>10, <3>2, <4>1, <4>2
    <3> QED BY <3>1, <3>2
  <2>2. g = [i \in 0 .. N |-> IF i = 0 THEN 1 ELSE Stepping(p, g[i - 1])]
    BY <2>1
  <2> HIDE DEF g
  <2> QED BY <1>8, <2>2 DEF Starting
<1> DEFINE g == CHOOSE e : Starting(e, p)
<1>13. Starting(g, p)
    BY <1>12
<1> HIDE DEF g
<1>14. \A i \in 0 .. N : g[i] = IF i = 0 THEN 1 ELSE Stepping(p, g[i - 1])
    BY <1>8, <1>13 DEF Starting
<1>15. \A i \in 0 .. N : g[i] = Len(f[i])
  <2> DEFINE T == {i \in 0 .. N : g[i] # Len(f[i])}
  <2> SUFFICES ASSUME T # {} PROVE FALSE
    OBVIOUS
  <2>1. PICK x \in T : \A y \in T : x <= y
    <3>1. T \in SUBSET Nat
      <4>1. T \subseteq 0 .. N
        OBVIOUS
      <4>2. 0 .. N \subseteq Nat
        BY <1>1
      <4> HIDE DEF T
      <4> QED BY <4>1, <4>2, Zenon
    <3> HIDE DEF T
    <3> QED BY <3>1, LeastNumber
  <2>2. x # 0
    BY <1>11, <1>14
  <2>3. x \in 1 .. N /\ x - 1 \in 0 .. N /\ ~(x <= x - 1)
    BY <1>1, <2>2
  <2>4. g[x - 1] = Len(f[x - 1])
    BY <2>1, <2>3
  <2>5. g[x] = Stepping(p, g[x - 1])
    BY <1>14, <2>2
  <2> QED BY <1>10, <2>3, <2>4, <2>5
<1> DEFINE entry(i) == [dnet |-> Uint16(p, g[i - 1] + 1), id |-> p[g[i - 1] + 3],
                        info |-> SubSeq(p, g[i - 1] + 5, g[i - 1] + 4 + p[g[i - 1] + 4])]
<1>16. ASSUME NEW i \in 1 .. N PROVE entry(i) = ports[i]
  <2> DEFINE c == g[i - 1]
             q == ports[i]
  <2>1. i - 1 \in 0 .. N
    BY <1>1
  <2>2. c = Len(f[i - 1])
    BY <1>15, <2>1
  <2>3. Standing(p, c, q)
    BY <1>9, <2>2
  <2>4. q = [dnet |-> q.dnet, id |-> q.id, info |-> q.info]
    <3>1. ports[i] \in PortEntries
      BY <1>1, ElementOfSeq
    <3>2. q \in PortEntries
      BY <3>1
    <3> HIDE DEF q
    <3> QED BY <3>2 DEF PortEntries
  <2>5. entry(i) = [dnet |-> Uint16(p, c + 1), id |-> p[c + 3], info |-> SubSeq(p, c + 5, c + 4 + p[c + 4])]
    OBVIOUS
  <2> HIDE DEF c, q, entry
  <2>6. entry(i) = q
    BY <2>3, <2>4, <2>5 DEF Standing
  <2> QED BY <2>6 DEF q
<1>17. decodeRoutingTableEntries(p) =
         IF p = <<>> THEN {}
         ELSE When(g[p[1]] = Len(p) /\ p[1] # 0, [i \in 1 .. p[1] |-> entry(i)])
    BY DEF decodeRoutingTableEntries, g, Starting, Stepping
<1>18. [i \in 1 .. p[1] |-> entry(i)] = ports
  <2> HIDE DEF entry
  <2>1. [i \in 1 .. p[1] |-> entry(i)] = [i \in 1 .. N |-> ports[i]]
    BY <1>8, <1>16
  <2>2. ports = [i \in 1 .. N |-> ports[i]]
    OBVIOUS
  <2> QED BY <2>1, <2>2
<1>19. g[p[1]] = Len(p) /\ p[1] # 0
  <2>1. N # 0 /\ N \in 0 .. N
    BY <1>1
  <2> HIDE DEF N
  <2>2. g[N] = Len(f[N])
    BY <1>15, <2>1
  <2> QED BY <1>4, <1>8, <2>1, <2>2
<1> HIDE DEF entry
<1> QED BY <1>7, <1>8, <1>17, <1>18, <1>19 DEF When

\* The messages of a routing table are read as they were.
LEMMA RoutingTableBack ==
    ASSUME NEW t \in {InitTable, InitTableAck}, NEW ports \in Seq(PortEntries),
           RoutingTableMessage(t, ports).valid
    PROVE  PayloadBack(RoutingTableMessage(t, ports))
<1> DEFINE m == RoutingTableMessage(t, ports)
           p == m.payload
<1>1. m.header = Standard(t) /\ p = encodePortEntryList(ports)
      /\ Len(ports) \in 1 .. 255 /\ \A i \in DOMAIN ports : PortEntryValid(ports[i])
    BY DEF RoutingTableMessage
<1>2. t \in StandardTypes
    BY DEF StandardTypes
<1> HIDE DEF m, p
<1>3. DecodeMessageModel(m.header, p) =
        UNION {NewRoutingTable(t, xs) : xs \in decodeRoutingTableEntries(p)}
    BY <1>1, <1>2, StandardHeader, MessageTypes DEF DecodeMessageModel
<1>4. p \in Octets /\ decodeRoutingTableEntries(p) = {ports}
    BY <1>1, TableBack
<1>5. NewRoutingTable(t, ports) \subseteq {m}
    BY DEF NewRoutingTable, When, m
<1> QED BY <1>3, <1>4, <1>5 DEF PayloadBack, m, p

\* A header that has a vendor exactly for a proprietary type.
HeaderBack(h) ==
    /\ h = [type |-> h.type, vendor |-> h.vendor] /\ h.type \in Octet
    /\ h.vendor \in Pointer(Uint16s) /\ structureValid(h)

\* The header of a standard message has no vendor.
LEMMA StandardBack ==
    ASSUME NEW t \in StandardTypes
    PROVE  HeaderBack(Standard(t))
<1>1. t \in 0 .. 9 \/ t \in {18, 19}
    BY MessageTypes DEF StandardTypes
<1>2. t \in Octet
    BY <1>1 DEF Octet
<1>3. {} \in Pointer(Uint16s)
    BY DEF Pointer
<1>4. Standard(t) = [type |-> t, vendor |-> {}]
    BY DEF Standard
<1> QED BY <1>2, <1>3, <1>4, StandardHeader DEF HeaderBack

\* A message a constructor makes has such a header, and is all its payload says.
LEMMA ConstructedBack ==
    ASSUME NEW m, Constructed(m), m.valid
    PROVE  HeaderBack(m.header) /\ PayloadBack(m)
<1> DEFINE t == m.header.type
<1>0. \A u \in StandardTypes : u \notin 128 .. 255
    BY MessageTypes DEF StandardTypes
<1>1. CASE t = WhoIsRouter
  <2>1. m = WhoIsRouterMessage(m.dnets) /\ (m.dnets = {} \/ \E n \in Networks : m.dnets = {n})
    BY <1>1, MessageTypes DEF Constructed
  <2>2. PayloadBack(m)
    BY <2>1, WhoIsRouterBack
  <2>3. m.header = Standard(WhoIsRouter)
    BY <2>1 DEF WhoIsRouterMessage
  <2> QED BY <2>2, <2>3, StandardBack DEF StandardTypes
<1>2. CASE t \in {IAmRouter, RouterBusy, RouterAvailable}
  <2>1. m.networks \in Seq(Networks) /\ m = NetworkListMessage(t, m.networks)
    <3>1. t # WhoIsRouter
      BY <1>2, MessageTypes
    <3>2. /\ t # ICouldBeRouter /\ t # RejectMessage /\ t # InitTable /\ t # InitTableAck /\ t # Establish
          /\ t # Disconnect /\ t # WhatIsNumber /\ t # NumberIs /\ t \notin 128 .. 255
      BY <1>2, MessageTypes
    <3> QED BY <1>2, <3>1, <3>2 DEF Constructed
  <2>2. PayloadBack(m)
    BY <1>2, <2>1, NetworkListBack
  <2>3. m.header = Standard(t)
    BY <2>1 DEF NetworkListMessage
  <2> QED BY <1>2, <2>2, <2>3, StandardBack DEF StandardTypes
<1>3. CASE t = ICouldBeRouter
  <2>1. m.dnet \in Networks /\ m.index \in Octet /\ m = ICouldBeRouterMessage(m.dnet, m.index)
    BY <1>3, MessageTypes DEF Constructed
  <2>2. PayloadBack(m)
    BY <2>1, ThreeOctetsBack
  <2>3. m.header = Standard(t)
    BY <1>3, <2>1 DEF ICouldBeRouterMessage
  <2> QED BY <1>3, <2>2, <2>3, StandardBack DEF StandardTypes
<1>4. CASE t = RejectMessage
  <2>1. m.dnet \in Networks /\ m.reason \in Octet /\ m = RejectMessageMessage(m.dnet, m.reason)
    BY <1>4, MessageTypes DEF Constructed
  <2>2. PayloadBack(m)
    BY <2>1, ThreeOctetsBack
  <2>3. m.header = Standard(t)
    BY <1>4, <2>1 DEF RejectMessageMessage
  <2> QED BY <1>4, <2>2, <2>3, StandardBack DEF StandardTypes
<1>5. CASE t \in {InitTable, InitTableAck}
  <2>1. m.ports \in Seq(PortEntries) /\ m = RoutingTableMessage(t, m.ports)
    <3>1. /\ t # WhoIsRouter /\ t # IAmRouter /\ t # RouterBusy /\ t # RouterAvailable
          /\ t # ICouldBeRouter /\ t # RejectMessage /\ t # Establish /\ t # Disconnect
          /\ t # WhatIsNumber /\ t # NumberIs /\ t \notin 128 .. 255
      BY <1>5, MessageTypes
    <3> QED BY <1>5, <3>1 DEF Constructed
  <2>2. PayloadBack(m)
    BY <1>5, <2>1, RoutingTableBack
  <2>3. m.header = Standard(t)
    BY <2>1 DEF RoutingTableMessage
  <2> QED BY <1>5, <2>2, <2>3, StandardBack DEF StandardTypes
<1>6. CASE t = Establish
  <2>1. m.dnet \in Networks /\ m.time \in Octet /\ m = EstablishMessage(m.dnet, m.time)
    BY <1>6, MessageTypes DEF Constructed
  <2>2. PayloadBack(m)
    BY <2>1, ThreeOctetsBack
  <2>3. m.header = Standard(t)
    BY <1>6, <2>1 DEF EstablishMessage
  <2> QED BY <1>6, <2>2, <2>3, StandardBack DEF StandardTypes
<1>7. CASE t = Disconnect
  <2>1. m.dnet \in Networks /\ m = DisconnectMessage(m.dnet)
    BY <1>7, MessageTypes DEF Constructed
  <2>2. PayloadBack(m)
    BY <2>1, ShortBack
  <2>3. m.header = Standard(t)
    BY <1>7, <2>1 DEF DisconnectMessage
  <2> QED BY <1>7, <2>2, <2>3, StandardBack DEF StandardTypes
<1>8. CASE t = WhatIsNumber
  <2>1. m = WhatIsNumberMessage
    BY <1>8, MessageTypes DEF Constructed
  <2>2. 0 \in Networks
    BY DEF Networks, MaxUint16
  <2>3. PayloadBack(m)
    BY <2>1, <2>2, ShortBack
  <2>4. m.header = Standard(t)
    BY <1>8, <2>1 DEF WhatIsNumberMessage
  <2> QED BY <1>8, <2>3, <2>4, StandardBack DEF StandardTypes
<1>9. CASE t = NumberIs
  <2>1. m.number \in Networks /\ m.configured \in BOOLEAN /\ m = NumberIsMessage(m.number, m.configured)
    BY <1>9, MessageTypes DEF Constructed
  <2>2. 0 \in Octet
    BY DEF Octet
  <2>3. PayloadBack(m)
    BY <2>1, <2>2, ThreeOctetsBack
  <2>4. m.header = Standard(t)
    BY <1>9, <2>1 DEF NumberIsMessage
  <2> QED BY <1>9, <2>3, <2>4, StandardBack DEF StandardTypes
<1>10. CASE t \in 128 .. 255
  <2>1. /\ \E v \in m.header.vendor : v \in Networks /\ m.header.vendor = {v}
        /\ m.payload \in Octets
        /\ m = ProprietaryMessage(t, The(m.header.vendor), m.payload)
    BY <1>10, MessageTypes DEF Constructed, Octets
  <2> DEFINE v == The(m.header.vendor)
             p == m.payload
  <2>2. m.header.vendor = {v} /\ v \in Networks
    BY <2>1 DEF The
  <2>3. m = ProprietaryMessage(t, v, p) /\ p \in Octets
    BY <2>1
  <2> HIDE DEF v, p, t
  <2>4. PayloadBack(m)
    BY <1>10, <2>3, ProprietaryBack
  <2>5. m.header = [type |-> t, vendor |-> {v}]
    BY <2>3 DEF ProprietaryMessage
  <2>6. t \in Octet /\ t >= 128
    BY <1>10 DEF Octet
  <2>7. {v} \in Pointer(Uint16s)
    BY <2>2 DEF Pointer, Uint16s, Networks
  <2>8. structureValid(m.header)
    BY <2>5, <2>6 DEF structureValid, IsProprietary
  <2> QED BY <2>4, <2>5, <2>6, <2>7, <2>8 DEF HeaderBack
<1> HIDE DEF t
<1>11. \/ t = WhoIsRouter \/ t \in {IAmRouter, RouterBusy, RouterAvailable} \/ t = ICouldBeRouter
       \/ t = RejectMessage \/ t \in {InitTable, InitTableAck} \/ t = Establish \/ t = Disconnect
       \/ t = WhatIsNumber \/ t = NumberIs \/ t \in 128 .. 255
    BY DEF Constructed, t
<1> QED BY <1>1, <1>2, <1>3, <1>4, <1>5, <1>6, <1>7, <1>8, <1>9, <1>10, <1>11

-----------------------------------------------------------------------------
(***************************************************************************)
(* The wire form, control frames and malformed datagrams.                  *)
(***************************************************************************)

\* The rest of a string behind its head.
LEMMA RestOf ==
    ASSUME NEW h \in Octets, NEW s \in Octets
    PROVE  /\ h \o s \in Octets /\ Len(h \o s) = Len(h) + Len(s) /\ From(h \o s, Len(h)) = s
           /\ \A i \in 1 .. Len(h) : (h \o s)[i] = h[i]
<1> DEFINE d == h \o s
<1>1. /\ d \in Octets /\ Len(d) = Len(h) + Len(s) /\ In(d, Len(h), s)
      /\ \A i \in 1 .. Len(h) : d[i] = h[i]
    BY Concatenation, InConcatenation
<1>2. Len(h) \in Nat
    BY DEF Octets
<1> HIDE DEF d
<1>3. SubSeq(d, Len(h) + 1, Len(h) + Len(s)) = s
    BY <1>1, <1>2, InPiece
<1>4. From(d, Len(h)) = s
    BY <1>1, <1>3 DEF From
<1> QED BY <1>1, <1>4 DEF d

\* A message is read back from its bare wire form.
LEMMA WireBack ==
    ASSUME NEW m, Constructed(m), m.valid, DecodeMessageModel(m.header, m.payload) = {m}
    PROVE  UNION {DecodeMessageWire(w) : w \in EncodeMessageWire(m)} = {m}
<1> DEFINE h == m.header
           t == h.type
           p == m.payload
<1>1. h = [type |-> t, vendor |-> h.vendor] /\ t \in Octet /\ h.vendor \in Pointer(Uint16s) /\ structureValid(h)
    BY ConstructedBack DEF HeaderBack
<1>2. p \in Octets /\ DecodeMessageModel(h, p) = {m}
    BY ConstructedBack DEF PayloadBack
<1>3. CASE h.vendor = {}
  <2> DEFINE w == <<t>> \o <<>> \o p
             x == <<t>>
  <2>1. EncodeMessageWire(m) = {w}
    BY <1>1, <1>3 DEF EncodeMessageWire, When
  <2> HIDE DEF h, t, p
  <2>2. x \in Octets /\ Len(x) = 1 /\ x[1] = t /\ x \o <<>> = x
    BY <1>1 DEF Octets
  <2>3. w = x \o p
    BY <2>2
  <2> HIDE DEF w, x
  <2>4. w \in Octets /\ Len(w) = 1 + Len(p) /\ w[1] = t /\ From(w, 1) = p /\ Len(p) \in Nat
    <3>1. /\ x \o p \in Octets /\ Len(x \o p) = Len(x) + Len(p) /\ From(x \o p, Len(x)) = p
          /\ \A i \in 1 .. Len(x) : (x \o p)[i] = x[i]
      BY <1>2, <2>2, RestOf
    <3>2. 1 \in 1 .. Len(x)
      BY <2>2
    <3>3. Len(p) \in Nat
      BY <1>2 DEF Octets
    <3> QED BY <2>2, <2>3, <3>1, <3>2, <3>3
  <2>5. ~IsProprietary(t)
    BY <1>1, <1>3 DEF structureValid, t
  <2>6. w # <<>>
    BY <2>4
  <2>7. DecodeMessageWire(w) = DecodeMessageModel([type |-> t, vendor |-> {}], p)
    BY <2>4, <2>5, <2>6 DEF DecodeMessageWire
  <2>8. DecodeMessageWire(w) = {m}
    BY <1>1, <1>2, <1>3, <2>7
  <2> QED BY <2>1, <2>8
<1>4. CASE h.vendor # {}
  <2> DEFINE v == The(h.vendor)
             s == PutUint16(v)
             w == <<t>> \o s \o p
             x == <<t>>
             y == x \o s
  <2>1. EncodeMessageWire(m) = {w}
    BY <1>1, <1>4 DEF EncodeMessageWire, When
  <2>2. h.vendor = {v} /\ v \in 0 .. MaxUint16
    BY <1>1, <1>4, Pointed DEF Uint16s
  <2> HIDE DEF h, t, p, v
  <2>3. s \in Octets /\ Len(s) = 2 /\ 256 * s[1] + s[2] = v
    BY <2>2, PutOctets
  <2>4. x \in Octets /\ Len(x) = 1 /\ x[1] = t
    BY <1>1 DEF Octets
  <2>5. w = y \o p
    OBVIOUS
  <2> HIDE DEF s, w, x
  <2>6. /\ y \in Octets /\ Len(y) = Len(x) + Len(s)
        /\ \A i \in 1 .. Len(x) : y[i] = x[i]
        /\ \A i \in 1 .. Len(s) : y[Len(x) + i] = s[i]
    BY <2>3, <2>4, Concatenation
  <2> HIDE DEF y
  <2>7. Len(y) = 3 /\ y[1] = t /\ y[2] = s[1] /\ y[3] = s[2]
    BY <2>3, <2>4, <2>6
  <2>8. /\ w \in Octets /\ Len(w) = 3 + Len(p) /\ From(w, 3) = p /\ Len(p) \in Nat
        /\ w[1] = t /\ w[2] = s[1] /\ w[3] = s[2]
    <3>1. /\ y \o p \in Octets /\ Len(y \o p) = Len(y) + Len(p) /\ From(y \o p, Len(y)) = p
          /\ \A i \in 1 .. Len(y) : (y \o p)[i] = y[i]
      BY <1>2, <2>6, RestOf
    <3>2. 1 \in 1 .. Len(y) /\ 2 \in 1 .. Len(y) /\ 3 \in 1 .. Len(y)
      BY <2>7
    <3>3. Len(p) \in Nat
      BY <1>2 DEF Octets
    <3> QED BY <2>5, <2>7, <3>1, <3>2, <3>3
  <2>9. Uint16(w, 2) = v
    BY <2>3, <2>8 DEF Uint16
  <2>10. IsProprietary(t)
    BY <1>1, <1>4 DEF structureValid, t
  <2>11. w # <<>> /\ ~(Len(w) < 3)
    BY <2>8
  <2>12. DecodeMessageWire(w) = DecodeMessageModel([type |-> t, vendor |-> {v}], p)
    BY <2>8, <2>9, <2>10, <2>11 DEF DecodeMessageWire
  <2>13. DecodeMessageWire(w) = {m}
    BY <1>1, <1>2, <2>2, <2>12
  <2> QED BY <2>1, <2>13
<1> QED BY <1>3, <1>4

\* What NewNetworkLayerNPDU puts into an NPDU.
LEMMA Stamped ==
    ASSUME NEW z, NEW e, NEW s, NEW f, NEW t, NEW v, NEW q, NEW n,
           n = [[version |-> ProtocolVersion, flags |-> z, dnet |-> e, dlen |-> e, dadr |-> e,
                 hopCount |-> e, snet |-> e, slen |-> e, sadr |-> e,
                 messageType |-> e, vendorId |-> e, apdu |-> s]
                EXCEPT !.flags = f, !.messageType = t, !.vendorId = v, !.apdu = q]
    PROVE  n = [version |-> ProtocolVersion, flags |-> f, dnet |-> e, dlen |-> e, dadr |-> e,
                hopCount |-> e, snet |-> e, slen |-> e, sadr |-> e,
                messageType |-> t, vendorId |-> v, apdu |-> q]
OBVIOUS

\* The NPDU of a message, read by those that get it.
LEMMA MessageNPDU ==
    ASSUME NEW m, Constructed(m),
           NEW npdu \in NewNetworkLayerNPDUFromMessage(ApplicationNPCI(0, FALSE, {}, {}), m),
           NEW octets \in NPDUEncode(npdu)
    PROVE  /\ octets \in Octets /\ octets # <<>> /\ NPDUDecode(octets) = {npdu}
           /\ IsNetworkLayerMessage(npdu) /\ MessageModelOf(npdu) = {m}
           /\ UNION {DecodeMessageWire(w) : w \in EncodeMessageWire(m)} = {m}
<1> DEFINE h == m.header
           c == ApplicationNPCI(0, FALSE, {}, {})
           base == [version |-> ProtocolVersion, flags |-> 0, dnet |-> {}, dlen |-> {}, dadr |-> {},
                    hopCount |-> {}, snet |-> {}, slen |-> {}, sadr |-> {},
                    messageType |-> {}, vendorId |-> {}, apdu |-> <<>>]
<1>1. m.valid
    BY DEF NewNetworkLayerNPDUFromMessage
<1>2. HeaderBack(h) /\ PayloadBack(m)
    BY <1>1, ConstructedBack
<1>3. npdu \in NewNetworkLayerNPDU(c, h, m.payload)
    BY <1>1 DEF NewNetworkLayerNPDUFromMessage
<1>4. PICK p \in NormalizedPayload(h, m.payload), n \in newNPDUWithNPCI(c) :
        npdu = [n EXCEPT !.flags = @ + BitNetworkMessage, !.messageType = {h.type},
                         !.vendorId = h.vendor, !.apdu = p]
  <2> DEFINE E(p, n) == [n EXCEPT !.flags = @ + BitNetworkMessage, !.messageType = {h.type},
                                  !.vendorId = h.vendor, !.apdu = p]
             A == NormalizedPayload(h, m.payload)
             B == newNPDUWithNPCI(c)
             S == {E(p, n) : p \in A, n \in B}
             no == c.priority > MaxPriority \/ ~structureValid(h)
  <2>1. NewNetworkLayerNPDU(c, h, m.payload) = IF no THEN {} ELSE S
    BY DEF NewNetworkLayerNPDU
  <2>2. npdu \in S
    <3> HIDE DEF S, no
    <3> QED BY <1>3, <2>1
  <2> HIDE DEF E, A, B
  <2>3. \E p \in A, n \in B : npdu = E(p, n)
    BY <2>2
  <2> QED BY <2>3, Zenon DEF E, A, B
<1>5. DecodeMessageModel(h, m.payload) = {m} /\ p = m.payload
    BY <1>2, <1>4 DEF NormalizedPayload, PayloadBack
<1>6. n = base
  <2> DEFINE no == {} # {}
             t == The({})
             f == Flags(0, FALSE, no, no)
             d == IF no THEN {t.dnet} ELSE {}
             dl == IF no THEN {Len(t.dadr)} ELSE {}
             da == IF no /\ t.dadr # <<>> THEN {t.dadr} ELSE {}
             hc == IF no THEN {t.hopCount} ELSE {}
             sn == IF no THEN {t.snet} ELSE {}
             sl == IF no THEN {Len(t.sadr)} ELSE {}
             sa == IF no THEN {t.sadr} ELSE {}
  <2>1. n = [version |-> ProtocolVersion, flags |-> f, dnet |-> d, dlen |-> dl, dadr |-> da,
             hopCount |-> hc, snet |-> sn, slen |-> sl, sadr |-> sa,
             messageType |-> {}, vendorId |-> {}, apdu |-> <<>>]
    BY <1>4, Zenon DEF newNPDUWithNPCI, ApplicationNPCI, When, Flags
  <2>2. d = {} /\ dl = {} /\ da = {} /\ hc = {} /\ sn = {} /\ sl = {} /\ sa = {}
    OBVIOUS
  <2>3. f = 0
    BY DEF Flags, Flag
  <2> HIDE DEF f, d, dl, da, hc, sn, sl, sa
  <2> QED BY <2>1, <2>2, <2>3
<1>7. npdu = [version |-> ProtocolVersion, flags |-> 128, dnet |-> {}, dlen |-> {}, dadr |-> {},
              hopCount |-> {}, snet |-> {}, slen |-> {}, sadr |-> {},
              messageType |-> {h.type}, vendorId |-> h.vendor, apdu |-> m.payload]
  <2> DEFINE t == {h.type}
             v == h.vendor
             q == m.payload
  <2> DEFINE z == 0
             e == {}
             f == 0 + BitNetworkMessage
             o == <<>>
  <2>1. npdu = [[version |-> ProtocolVersion, flags |-> z, dnet |-> e, dlen |-> e, dadr |-> e,
                hopCount |-> e, snet |-> e, slen |-> e, sadr |-> e,
                messageType |-> e, vendorId |-> e, apdu |-> o]
                EXCEPT !.flags = f, !.messageType = t, !.vendorId = v, !.apdu = q]
    BY <1>4, <1>5, <1>6, Zenon
  <2>2. f = 128
    BY DEF BitNetworkMessage
  <2> HIDE DEF t, v, q, z, e, f, o
  <2>5. npdu = [version |-> ProtocolVersion, flags |-> f, dnet |-> e, dlen |-> e, dadr |-> e,
                hopCount |-> e, snet |-> e, slen |-> e, sadr |-> e,
                messageType |-> t, vendorId |-> v, apdu |-> q]
    BY <2>1, Stamped
  <2> QED BY <2>2, <2>5 DEF t, v, q, e
<1>8. npdu \in NPDUs
  <2>1. ProtocolVersion \in Octet /\ 128 \in Octet
    BY DEF ProtocolVersion, Octet
  <2>2. \A S : {} \in Pointer(S)
    BY DEF Pointer
  <2>3. {h.type} \in Pointer(Octet) /\ h.vendor \in Pointer(Uint16s) /\ m.payload \in Octets
    BY <1>2 DEF HeaderBack, PayloadBack, Pointer
  <2> QED BY <1>7, <2>1, <2>2, <2>3 DEF NPDUs
<1>9. NPDUValid(npdu)
    BY DEF NPDUEncode
<1>10. octets \in Octets /\ octets # <<>> /\ NPDUDecode(octets) = {npdu}
    BY <1>8, <1>9, NPDUBack
<1>11. IsNetworkLayerMessage(npdu)
    BY <1>7 DEF IsNetworkLayerMessage, Bit, BitNetworkMessage
<1>12. MessageHeaderOf(npdu) = h /\ npdu.apdu = m.payload /\ npdu.messageType # {}
    BY <1>2, <1>7 DEF MessageHeaderOf, The, HeaderBack
<1>13. MessageModelOf(npdu) = {m}
    BY <1>5, <1>11, <1>12 DEF MessageModelOf
<1> QED BY <1>1, <1>5, <1>10, <1>11, <1>13, WireBack

\* The control frames of a peer.
Control(data) ==
    \E f \in {FnResult, FnReadBDT, FnRegisterForeignDevice, FnReadFDT} : \E body :
        Carried(body) /\ data = Framed(f, body)

\* What a peer sends of the functions without an NPDU is a control frame.
LEMMA ControlFrame ==
    ASSUME NEW data \in UNION {UNION {BVLCResultEncode(r) : r \in NewBVLCResult(CodeSuccess)},
                               ReadFDTEncode(NewReadFDT), ReadBDTEncode(NewReadBDT),
                               UNION {RegisterEncode(r) : r \in NewRegister(60)}}
    PROVE  Control(data)
<1>1. /\ FnResult \in FnResult .. FnOriginalBroadcast /\ FnReadBDT \in FnResult .. FnOriginalBroadcast
      /\ FnRegisterForeignDevice \in FnResult .. FnOriginalBroadcast
      /\ FnReadFDT \in FnResult .. FnOriginalBroadcast
    BY DEF FnResult, FnReadBDT, FnRegisterForeignDevice, FnReadFDT, FnOriginalBroadcast
<1>2. ASSUME NEW n \in {0, 60}
      PROVE  PutUint16(n) \in Octets /\ Len(PutUint16(n)) = 2 /\ Carried(PutUint16(n))
  <2>1. n \in 0 .. MaxUint16
    BY DEF MaxUint16
  <2>2. PutUint16(n) \in Octets /\ Len(PutUint16(n)) = 2
    BY <2>1, PutOctets
  <2>3. 2 + HeaderLen <= MaxUint16
    BY DEF HeaderLen, MaxUint16
  <2> QED BY <2>2, <2>3 DEF Carried
<1>3. <<>> \in Octets /\ Len(<<>>) = 0 /\ Carried(<<>>) /\ HeaderLen + 0 = HeaderLen
    BY DEF Octets, Carried, HeaderLen, MaxUint16
<1>4. CASE \E r \in NewBVLCResult(CodeSuccess) : data \in BVLCResultEncode(r)
  <2> DEFINE body == PutUint16(0)
  <2>1. PICK r \in NewBVLCResult(CodeSuccess) : data \in BVLCResultEncode(r)
    BY <1>4
  <2>2. r.header = NewHeader(BACnetIP, FnResult, HeaderLen + 2) /\ r.resultCode = 0
    BY <2>1 DEF NewBVLCResult, When, CodeSuccess
  <2>3. data \in HeaderEncode(r.header, body)
    BY <2>1, <2>2 DEF BVLCResultEncode
  <2>4. Carried(body) /\ Len(body) = 2
    BY <1>2
  <2> HIDE DEF body
  <2>5. HeaderEncode(NewHeader(BACnetIP, FnResult, HeaderLen + Len(body)), body) = {Framed(FnResult, body)}
    BY <1>1, <2>4, EncodesFrame, Zenon
  <2> QED BY <2>2, <2>3, <2>4, <2>5 DEF Control
<1>5. CASE data \in ReadFDTEncode(NewReadFDT)
  <2>1. data \in HeaderEncode(NewHeader(BACnetIP, FnReadFDT, HeaderLen), <<>>)
    BY <1>5 DEF ReadFDTEncode, NewReadFDT
  <2>2. HeaderEncode(NewHeader(BACnetIP, FnReadFDT, HeaderLen + Len(<<>>)), <<>>) = {Framed(FnReadFDT, <<>>)}
    BY <1>1, <1>3, EncodesFrame, Zenon
  <2> QED BY <1>3, <2>1, <2>2 DEF Control
<1>6. CASE data \in ReadBDTEncode(NewReadBDT)
  <2>1. data \in HeaderEncode(NewHeader(BACnetIP, FnReadBDT, HeaderLen), <<>>)
    BY <1>6 DEF ReadBDTEncode, NewReadBDT
  <2>2. HeaderEncode(NewHeader(BACnetIP, FnReadBDT, HeaderLen + Len(<<>>)), <<>>) = {Framed(FnReadBDT, <<>>)}
    BY <1>1, <1>3, EncodesFrame, Zenon
  <2> QED BY <1>3, <2>1, <2>2 DEF Control
<1>7. CASE \E r \in NewRegister(60) : data \in RegisterEncode(r)
  <2> DEFINE body == PutUint16(60)
             h == NewHeader(BACnetIP, FnRegisterForeignDevice, HeaderLen + 2)
  <2>1. PICK r \in NewRegister(60) : data \in RegisterEncode(r)
    BY <1>7
  <2>2. r.header = h /\ r.ttl = 60
    BY <2>1 DEF NewRegister, When
  <2>3. h.length = 6
    BY DEF NewHeader, BVLCLength, MaxUint16, HeaderLen
  <2>4. h.length \notin HeaderLen .. HeaderLen + 1
    BY <2>3 DEF HeaderLen
  <2> HIDE DEF h
  <2>5. data \in HeaderEncode(h, body)
    BY <2>1, <2>2, <2>4 DEF RegisterEncode
  <2>6. Carried(body) /\ Len(body) = 2
    BY <1>2
  <2> HIDE DEF body
  <2>7. HeaderEncode(NewHeader(BACnetIP, FnRegisterForeignDevice, HeaderLen + Len(body)), body)
          = {Framed(FnRegisterForeignDevice, body)}
    BY <1>1, <2>6, EncodesFrame, Zenon
  <2> QED BY <2>5, <2>6, <2>7 DEF Control, h
<1> QED BY <1>4, <1>5, <1>6, <1>7

\* The Stack takes nothing out of them.
LEMMA ControlIgnored ==
    ASSUME NEW data, NEW from, Control(data)
    PROVE  data \in Octets /\ DecodeFrame(data) # {} /\ dispatchFrame(data, from) = {}
<1>1. PICK f \in {FnResult, FnReadBDT, FnRegisterForeignDevice, FnReadFDT} : \E body :
        Carried(body) /\ data = Framed(f, body)
    BY DEF Control
<1>2. PICK body : Carried(body) /\ data = Framed(f, body)
    BY <1>1
<1>3. /\ f \in FnResult .. FnOriginalBroadcast
      /\ f \notin {FnOriginalUnicast, FnOriginalBroadcast} /\ f # FnForwardedNPDU
    BY DEF FnResult, FnReadBDT, FnRegisterForeignDevice, FnReadFDT, FnOriginalBroadcast,
           FnOriginalUnicast, FnForwardedNPDU
<1>4. data \in Octets /\ DecodeFrame(data) = {Frame(f, body)}
    BY <1>2, <1>3, FramedOctets, FrameBack DEF Frame
<1>5. Inner(Frame(f, body), from) = {}
    BY <1>3 DEF Inner, Frame
<1>6. dispatchFrame(data, from) = UNION {Dispatched(i) : i \in {}}
    BY <1>4, <1>5, DispatchesInner
<1> QED BY <1>4, <1>6

\* What a faulty sender makes of a datagram is octets still.
LEMMA MangledOctets ==
    ASSUME NEW d \in Octets, Len(d) <= MaxUint16, NEW x \in Mangled(d)
    PROVE  x \in Octets
<1>0. Len(d) \in Nat /\ 0 + 1 = 1
    BY DEF Octets
<1>1. CASE \E k \in 0 .. Len(d) - 1 : x = Upto(d, k)
  <2>1. PICK k \in 0 .. Len(d) - 1 : x = Upto(d, k)
    BY <1>1
  <2>2. k \in Nat /\ 0 \in Nat /\ 0 <= k /\ k <= Len(d)
    BY <1>0
  <2>3. SubSeq(d, 0 + 1, k) \in Octets
    BY <2>2, PieceOctets
  <2> QED BY <1>0, <2>1, <2>3 DEF Upto
<1>2. CASE \E k \in 4 .. Len(d) - 1 : x = Upto(d, 2) \o PutUint16(k) \o SubSeq(d, 5, k)
  <2>1. PICK k \in 4 .. Len(d) - 1 : x = Upto(d, 2) \o PutUint16(k) \o SubSeq(d, 5, k)
    BY <1>2
  <2>2. /\ k \in Nat /\ 0 \in Nat /\ 4 \in Nat /\ 2 \in Nat /\ 4 + 1 = 5
        /\ 0 <= 2 /\ 2 <= Len(d) /\ 4 <= k /\ k <= Len(d)
    BY <1>0
  <2>3. SubSeq(d, 0 + 1, 2) \in Octets /\ SubSeq(d, 4 + 1, k) \in Octets
    BY <2>2, PieceOctets
  <2>4. k \in 0 .. MaxUint16
    <3>1. MaxUint16 \in Nat
      BY DEF MaxUint16
    <3> QED BY <1>0, <2>2, <3>1
  <2> DEFINE a == Upto(d, 2)
             b == PutUint16(k)
             c == SubSeq(d, 5, k)
             e == a \o b
  <2>5. a \in Octets /\ b \in Octets /\ c \in Octets
    BY <1>0, <2>2, <2>3, <2>4, PutOctets DEF Upto
  <2>6. x = e \o c
    BY <2>1
  <2> HIDE DEF a, b, c
  <2>7. e \in Octets
    BY <2>5, Concatenation
  <2> HIDE DEF e
  <2> QED BY <2>5, <2>6, <2>7, Concatenation
<1>3. CASE x = d \o <<0>>
  <2>1. 0 \in Octet
    BY DEF Octet
  <2>2. <<0>> \in Octets
    BY <2>1, PairOctets
  <2> DEFINE z == <<0>>
  <2> HIDE DEF z
  <2>3. d \o z \in Octets
    BY <2>2, Concatenation DEF z
  <2> QED BY <1>3, <2>3 DEF z
<1>4. CASE \E i \in 1 .. Len(d), v \in {0, 1, 8, 32, 64, 128, 255} : x = [d EXCEPT ![i] = v]
  <2>1. PICK i \in 1 .. Len(d), v \in {0, 1, 8, 32, 64, 128, 255} : x = [d EXCEPT ![i] = v]
    BY <1>4
  <2>2. v \in Octet
    BY DEF Octet
  <2> QED BY <2>1, <2>2 DEF Octets
<1> DEFINE E(i, v) == [d EXCEPT ![i] = v]
           A == {Upto(d, k) : k \in 0 .. Len(d) - 1}
           B == {Upto(d, 2) \o PutUint16(k) \o SubSeq(d, 5, k) : k \in 4 .. Len(d) - 1}
           C == {E(i, v) : i \in 1 .. Len(d), v \in {0, 1, 8, 32, 64, 128, 255}}
<1>5. x \in A \/ x \in B \/ x = d \o <<0>> \/ x \in C
  <2>1. Mangled(d) = A \cup B \cup {d \o <<0>>} \cup C
    BY DEF Mangled
  <2> HIDE DEF A, B, C
  <2> QED BY <2>1
<1>6. x \in C => \E i \in 1 .. Len(d), v \in {0, 1, 8, 32, 64, 128, 255} : x = E(i, v)
  <2> HIDE DEF E
  <2> QED OBVIOUS
<1>7. x \in A => x \in Octets
    BY <1>1
<1>8. x \in B => x \in Octets
    BY <1>2
<1>9. x \in C => x \in Octets
    BY <1>4, <1>6
<1> HIDE DEF A, B, C
<1> QED BY <1>3, <1>5, <1>7, <1>8, <1>9

-----------------------------------------------------------------------------
(***************************************************************************)
(* The receive loop: its inductive invariant.                              *)
(***************************************************************************)

\* What MessagesSurvive asks of a message and the datagram that carries it.
Survives(data, m) ==
    /\ \E frame \in DecodeFrame(data) : \E pkt \in NPDUDecode(NPDUOctets(frame)) :
        MessageModelOf(pkt) = {m.model}
    /\ UNION {DecodeMessageWire(w) : w \in EncodeMessageWire(m.model)} = {m.model}

\* A message is read as it was sent, and no handler of the ASE gets it.
LEMMA MessageDelivered ==
    ASSUME NEW m \in Messages,
           NEW npdu \in NewNetworkLayerNPDUFromMessage(ApplicationNPCI(0, FALSE, {}, {}), m.model),
           NEW octets \in NPDUEncode(npdu), NEW data \in Wrapped(m, octets)
    PROVE  /\ data \in Octets /\ DecodeFrame(data) # {}
           /\ dispatchFrame(data, m.from) = Meant(m) /\ Survives(data, m)
<1>1. m.kind = "message" /\ Sender(m) /\ Constructed(m.model)
    BY MessagesAssumption
<1>2. /\ octets \in Octets /\ octets # <<>> /\ NPDUDecode(octets) = {npdu}
      /\ IsNetworkLayerMessage(npdu) /\ MessageModelOf(npdu) = {m.model}
      /\ UNION {DecodeMessageWire(w) : w \in EncodeMessageWire(m.model)} = {m.model}
    BY <1>1, MessageNPDU
<1>3. PICK f \in FnResult .. FnOriginalBroadcast : \E body :
              /\ Carried(body) /\ data = Framed(f, body)
              /\ Inner(Frame(f, body), m.from) = InnerMeant(m, octets)
              /\ NPDUOctets(Frame(f, body)) = octets
    BY <1>1, <1>2, WrappedFrame
<1>4. PICK body : /\ Carried(body) /\ data = Framed(f, body)
                  /\ Inner(Frame(f, body), m.from) = InnerMeant(m, octets)
                  /\ NPDUOctets(Frame(f, body)) = octets
    BY <1>3
<1>5. data \in Octets /\ DecodeFrame(data) = {Frame(f, body)}
    BY <1>4, FramedOctets, FrameBack DEF Frame
<1>6. dispatchFrame(data, m.from) = UNION {Dispatched(i) : i \in InnerMeant(m, octets)}
    BY <1>4, <1>5, DispatchesInner
<1>7. ASSUME NEW i \in InnerMeant(m, octets) PROVE Dispatched(i) = {}
  <2>1. i.octets = octets
    BY DEF InnerMeant
  <2>2. Dispatched(i) = Inbound(SourceOf(i.src, npdu), npdu)
    BY <1>2, <2>1, DispatchesOne
  <2> QED BY <1>2, <2>2 DEF Inbound
<1>8. dispatchFrame(data, m.from) = {}
    BY <1>6, <1>7
<1>9. Meant(m) = {}
    BY <1>1 DEF Meant
<1>10. Survives(data, m)
  <2>1. Frame(f, body) \in DecodeFrame(data) /\ npdu \in NPDUDecode(NPDUOctets(Frame(f, body)))
    BY <1>2, <1>4, <1>5
  <2> QED BY <1>2, <2>1 DEF Survives
<1> QED BY <1>5, <1>8, <1>9, <1>10

\* The datagram of a letter is one that a header can say the length of.
LEMMA LetterLength ==
    ASSUME NEW m \in Letters, NEW npdu \in PeerNPDU(m), NEW octets \in NPDUEncode(npdu),
           NEW data \in Wrapped(m, octets)
    PROVE  data \in Octets /\ Len(data) <= MaxUint16
<1>1. Sender(m) /\ octets \in Octets /\ octets # <<>>
    BY LettersAssumption, LetterNPDU
<1>2. PICK f \in FnResult .. FnOriginalBroadcast : \E body : Carried(body) /\ data = Framed(f, body)
    BY <1>1, WrappedFrame
<1>3. PICK body : Carried(body) /\ data = Framed(f, body)
    BY <1>2
<1>4. data \in Octets /\ Len(data) = 4 + Len(body)
    BY <1>3, FramedOctets
<1>5. Len(body) + HeaderLen <= MaxUint16 /\ Len(body) \in Nat /\ MaxUint16 \in Nat
    BY <1>3 DEF Carried, Octets, MaxUint16
<1>6. Len(body) + 4 <= MaxUint16
    BY <1>5 DEF HeaderLen
<1> QED BY <1>4, <1>5, <1>6

\* A frame that the buffer cuts off is no frame.
LEMMA CutOff ==
    ASSUME NEW data \in Octets, DecodeFrame(data) # {}, ~(Len(data) <= MaxDatagram)
    PROVE  DecodeFrame(Upto(data, MaxDatagram)) = {}
<1> DEFINE raw == Upto(data, MaxDatagram)
           d == SubSeq(data, 0 + 1, MaxDatagram)
<1>1. Len(data) \in Nat /\ MaxDatagram \in Nat /\ 0 \in Nat /\ 0 + 1 = 1 /\ HeaderLen = 4 /\ MaxDatagram >= HeaderLen
    BY MaxDatagramAssumption DEF Octets, HeaderLen
<1>2. 0 <= MaxDatagram /\ MaxDatagram <= Len(data) /\ MaxDatagram # Len(data) /\ MaxDatagram >= 4
    BY <1>1
<1>3. Len(d) = MaxDatagram - 0 /\ \A i \in 1 .. MaxDatagram - 0 : d[i] = data[0 + i]
    BY <1>1, <1>2, PieceOctets
<1>4. raw = d
    BY <1>1 DEF Upto
<1>5. Uint16(data, 3) = Len(data)
    BY DEF DecodeFrame
<1> HIDE DEF raw, d
<1>6. Len(d) = MaxDatagram
    BY <1>1, <1>3
<1>7. 3 \in 1 .. MaxDatagram - 0 /\ 4 \in 1 .. MaxDatagram - 0 /\ 0 + 3 = 3 /\ 0 + 4 = 4 /\ 3 + 1 = 4
    BY <1>1, <1>2
<1>8. d[3] = data[3] /\ d[4] = data[4]
    BY <1>3, <1>7
<1>9. Uint16(d, 3) = Uint16(data, 3)
    BY <1>7, <1>8 DEF Uint16
<1>10. Uint16(d, 3) # Len(d)
    BY <1>2, <1>5, <1>6, <1>9
<1>11. DecodeFrame(d) = {}
    BY <1>10 DEF DecodeFrame
<1> QED BY <1>4, <1>11 DEF raw

\* What is known of a datagram that carries m.
Known(data, m) ==
    /\ m.kind = "message" => Survives(data, m)
    /\ m.kind = "apdu" => /\ m \in Letters /\ m.station \in Sources
                          /\ \A s \in m.station : SnetValid(s.snet) /\ Len(s.sadr) \in 1 .. 255

\* A datagram that waits in the socket or is dispatched, and what was told of it.
Waiting(d) ==
    /\ d = [from |-> d.from, data |-> d.data, msg |-> d.msg] /\ d.data \in Octets
    /\ \A m \in d.msg : /\ DecodeFrame(d.data) # {} /\ dispatchFrame(d.data, d.from) = Meant(m)
                        /\ Known(d.data, m)
Told(l) == l.data \in Octets /\ \A m \in l.msg : l.up = Meant(m) /\ Known(l.data, m)
Answered(o) == \A m \in o.msg : o.to = m.origin /\ Back(o.data, o.apdu, m)

\* The inductive invariant of the receive loop.
LoopInv ==
    /\ \A d \in sock : sock = {d} /\ Waiting(d)
    /\ run = [pc |-> run.pc, datagram |-> run.datagram, err |-> run.err]
    /\ \A d \in run.datagram : Waiting(d)
    /\ \A l \in last : Told(l)
    /\ \A o \in out : Answered(o)

\* A datagram of the peers is one that may wait.
LEMMA Arriving ==
    ASSUME LoopInv, NEW from, NEW data \in Octets, NEW msg, Arrive(from, data, msg),
           \A m \in msg : /\ DecodeFrame(data) # {} /\ dispatchFrame(data, from) = Meant(m)
                          /\ Known(data, m)
    PROVE  LoopInv'
<1> DEFINE d == [from |-> from, data |-> data, msg |-> msg]
<1>1. sock' = {d} /\ last' = {} /\ out' = {} /\ run' = run
    BY DEF Arrive
<1>2. d.from = from /\ d.data = data /\ d.msg = msg
    OBVIOUS
<1>2a. d = [from |-> d.from, data |-> d.data, msg |-> d.msg]
    OBVIOUS
<1> HIDE DEF d
<1>3. Waiting(d)
    BY <1>2, <1>2a, Zenon DEF Waiting
<1> QED BY <1>1, <1>3 DEF LoopInv

\* Each step of Next keeps the invariant.
LEMMA LoopStep == LoopInv /\ [Next]_vars => LoopInv'
<1> SUFFICES ASSUME LoopInv, [Next]_vars PROVE LoopInv'
    OBVIOUS
<1>1. CASE PeerSend
  <2>1. PICK m \in Letters : \E npdu \in PeerNPDU(m) : \E octets \in NPDUEncode(npdu) :
          \E data \in Wrapped(m, octets) : Arrive(m.from, data, {m})
    BY <1>1 DEF PeerSend
  <2>a. PICK npdu \in PeerNPDU(m) : \E octets \in NPDUEncode(npdu) :
          \E data \in Wrapped(m, octets) : Arrive(m.from, data, {m})
    BY <2>1
  <2>b. PICK octets \in NPDUEncode(npdu) : \E data \in Wrapped(m, octets) : Arrive(m.from, data, {m})
    BY <2>a
  <2>2. PICK data \in Wrapped(m, octets) : Arrive(m.from, data, {m})
    BY <2>b
  <2>3. /\ data \in Octets /\ DecodeFrame(data) # {} /\ dispatchFrame(data, m.from) = Meant(m)
        /\ \A s \in m.station : SnetValid(s.snet) /\ Len(s.sadr) \in 1 .. 255
    BY <2>a, <2>b, <2>2, LetterDelivered
  <2>4. m.station \in Sources /\ m.kind = "apdu"
    BY <2>1, <2>a, <2>b, LetterNPDU, LettersAssumption
  <2>5. Known(data, m)
    BY <2>3, <2>4 DEF Known
  <2> QED BY <2>2, <2>3, <2>5, Arriving
<1>2. CASE PeerSendMessage
  <2>1. PICK m \in Messages :
          \E npdu \in NewNetworkLayerNPDUFromMessage(ApplicationNPCI(0, FALSE, {}, {}), m.model) :
            \E octets \in NPDUEncode(npdu) : \E data \in Wrapped(m, octets) : Arrive(m.from, data, {m})
    BY <1>2 DEF PeerSendMessage
  <2>a. PICK npdu \in NewNetworkLayerNPDUFromMessage(ApplicationNPCI(0, FALSE, {}, {}), m.model) :
          \E octets \in NPDUEncode(npdu) : \E data \in Wrapped(m, octets) : Arrive(m.from, data, {m})
    BY <2>1
  <2>b. PICK octets \in NPDUEncode(npdu) : \E data \in Wrapped(m, octets) : Arrive(m.from, data, {m})
    BY <2>a
  <2>2. PICK data \in Wrapped(m, octets) : Arrive(m.from, data, {m})
    BY <2>b
  <2>3. /\ data \in Octets /\ DecodeFrame(data) # {} /\ dispatchFrame(data, m.from) = Meant(m)
        /\ Survives(data, m)
    BY <2>a, <2>b, <2>2, MessageDelivered
  <2>4. Known(data, m)
    BY <2>3, MessagesAssumption DEF Known
  <2> QED BY <2>2, <2>3, <2>4, Arriving
<1>3. CASE PeerSendControl
  <2> DEFINE m == [kind |-> "control"]
  <2>1. PICK from \in Controls,
             data \in UNION {UNION {BVLCResultEncode(r) : r \in NewBVLCResult(CodeSuccess)},
                             ReadFDTEncode(NewReadFDT), ReadBDTEncode(NewReadBDT),
                             UNION {RegisterEncode(r) : r \in NewRegister(60)}} :
          Arrive(from, data, {m})
    BY <1>3 DEF PeerSendControl
  <2>2. data \in Octets /\ DecodeFrame(data) # {} /\ dispatchFrame(data, from) = {}
    BY <2>1, ControlFrame, ControlIgnored
  <2>3. Meant(m) = {} /\ Known(data, m)
    BY DEF Meant, Known
  <2> HIDE DEF m
  <2> QED BY <2>1, <2>2, <2>3, Arriving
<1>4. CASE Malformed
  <2>1. PICK m \in Junk : \E npdu \in PeerNPDU(m) : \E octets \in NPDUEncode(npdu) :
          \E d \in Wrapped(m, octets) : \E data \in Mangled(d) : Arrive(m.from, data, {})
    BY <1>4 DEF Malformed
  <2>a. PICK npdu \in PeerNPDU(m) : \E octets \in NPDUEncode(npdu) :
          \E d \in Wrapped(m, octets) : \E data \in Mangled(d) : Arrive(m.from, data, {})
    BY <2>1
  <2>b. PICK octets \in NPDUEncode(npdu) :
          \E d \in Wrapped(m, octets) : \E data \in Mangled(d) : Arrive(m.from, data, {})
    BY <2>a
  <2>c. PICK d \in Wrapped(m, octets) : \E data \in Mangled(d) : Arrive(m.from, data, {})
    BY <2>b
  <2>2. PICK data \in Mangled(d) : Arrive(m.from, data, {})
    BY <2>c
  <2>3. d \in Octets /\ Len(d) <= MaxUint16
    BY <2>a, <2>b, <2>c, LetterLength, JunkAssumption
  <2>4. data \in Octets
    BY <2>2, <2>3, MangledOctets
  <2> DEFINE from == m.from
             msg == {}
  <2>5. /\ Arrive(from, data, msg)
        /\ \A x \in msg : /\ DecodeFrame(data) # {} /\ dispatchFrame(data, from) = Meant(x)
                          /\ Known(data, x)
    BY <2>2
  <2> HIDE DEF from, msg
  <2> QED BY <2>4, <2>5, Arriving
<1>5. CASE Receive
  <2> DEFINE d == The(sock)
             raw == IF Len(d.data) <= MaxDatagram THEN d.data ELSE Upto(d.data, MaxDatagram)
             e == [d EXCEPT !.data = raw]
  <2>1. d \in sock /\ Waiting(d)
    BY <1>5 DEF Receive, The, LoopInv
  <2>2. /\ sock' = {} /\ last' = last /\ out' = out
        /\ run' = IF DecodeFrame(raw) = {} THEN Ended
                  ELSE [run EXCEPT !.pc = "dispatch", !.datagram = {e}]
    BY <1>5 DEF Receive
  <2> HIDE DEF d
  <2>3. raw \in Octets
    <3>1. CASE Len(d.data) <= MaxDatagram
      BY <2>1, <3>1 DEF Waiting
    <3>2. CASE ~(Len(d.data) <= MaxDatagram)
      <4>1. Len(d.data) \in Nat /\ MaxDatagram \in Nat /\ 0 \in Nat /\ 0 + 1 = 1 /\ d.data \in Octets
        BY <2>1, MaxDatagramAssumption DEF Waiting, Octets
      <4>2. 0 <= MaxDatagram /\ MaxDatagram <= Len(d.data)
        BY <3>2, <4>1
      <4>3. SubSeq(d.data, 0 + 1, MaxDatagram) \in Octets
        BY <4>1, <4>2, PieceOctets
      <4> QED BY <3>2, <4>1, <4>3 DEF Upto
    <3> QED BY <3>1, <3>2
  <2>4. CASE DecodeFrame(raw) = {}
    <3>1. run' = Ended
      BY <2>2, <2>4
    <3>2. run' = [pc |-> run'.pc, datagram |-> run'.datagram, err |-> run'.err] /\ run'.datagram = {}
      BY <3>1 DEF Ended, NoFrame
    <3> QED BY <2>2, <3>2 DEF LoopInv
  <2>5. CASE DecodeFrame(raw) # {}
    <3>1. d.msg = {} \/ raw = d.data
      <4>1. SUFFICES ASSUME d.msg # {}, ~(Len(d.data) <= MaxDatagram) PROVE FALSE
        OBVIOUS
      <4>2. d.data \in Octets /\ DecodeFrame(d.data) # {}
        BY <2>1, <4>1 DEF Waiting
      <4>3. DecodeFrame(Upto(d.data, MaxDatagram)) = {}
        BY <4>1, <4>2, CutOff
      <4> QED BY <2>5, <4>1, <4>3
    <3> HIDE DEF raw
    <3>2. e = [from |-> d.from, data |-> raw, msg |-> d.msg]
      <4>1. d = [from |-> d.from, data |-> d.data, msg |-> d.msg]
        BY <2>1 DEF Waiting
      <4> DEFINE a == d.from
                 b == d.data
                 c == d.msg
      <4>2. d = [from |-> a, data |-> b, msg |-> c]
        BY <4>1
      <4> HIDE DEF a, b, c
      <4>3. e = [from |-> a, data |-> raw, msg |-> c]
        BY <4>2
      <4> QED BY <4>3 DEF a, c
    <3> HIDE DEF e
    <3>3. Waiting(e)
      <4>1. e.from = d.from /\ e.data = raw /\ e.msg = d.msg /\ e = [from |-> e.from, data |-> e.data, msg |-> e.msg]
        BY <3>2
      <4>2. \A m \in d.msg : /\ DecodeFrame(d.data) # {} /\ dispatchFrame(d.data, d.from) = Meant(m)
                             /\ Known(d.data, m)
        BY <2>1 DEF Waiting
      <4> QED BY <2>3, <3>1, <4>1, <4>2, Zenon DEF Waiting
    <3>4. run' = [pc |-> "dispatch", datagram |-> {e}, err |-> run.err]
      <4> DEFINE a == run.pc
                 b == run.datagram
                 c == run.err
      <4>1. run = [pc |-> a, datagram |-> b, err |-> c]
        BY DEF LoopInv
      <4> HIDE DEF a, b, c
      <4>2. run' = [pc |-> "dispatch", datagram |-> {e}, err |-> c]
        BY <2>2, <2>5, <4>1
      <4> QED BY <4>2 DEF c
    <3>5. run' = [pc |-> run'.pc, datagram |-> run'.datagram, err |-> run'.err] /\ run'.datagram = {e}
      BY <3>4
    <3> QED BY <2>2, <3>3, <3>5 DEF LoopInv
  <2> QED BY <2>4, <2>5
<1>6. CASE Dispatch
  <2>1. PICK d \in run.datagram :
          last' = {[data |-> d.data, msg |-> d.msg, up |-> dispatchFrame(d.data, d.from)]}
    BY <1>6 DEF Dispatch
  <2> DEFINE l == [data |-> d.data, msg |-> d.msg, up |-> dispatchFrame(d.data, d.from)]
  <2>2. l.data = d.data /\ l.msg = d.msg /\ l.up = dispatchFrame(d.data, d.from)
    OBVIOUS
  <2>3. last' = {l}
    BY <2>1
  <2> HIDE DEF l
  <2>4. Waiting(d)
    BY <2>1 DEF LoopInv
  <2>5. Told(l)
    BY <2>2, <2>4, Zenon DEF Told, Waiting
  <2>6. sock' = sock /\ out' = out /\ run' = [run EXCEPT !.pc = "read", !.datagram = NoFrame]
    BY <1>6 DEF Dispatch
  <2>7. run' = [pc |-> run'.pc, datagram |-> run'.datagram, err |-> run'.err] /\ run'.datagram = {}
    <3> DEFINE a == run.pc
               b == run.datagram
               c == run.err
    <3>1. run = [pc |-> a, datagram |-> b, err |-> c]
      BY DEF LoopInv
    <3> HIDE DEF a, b, c
    <3>2. run' = [pc |-> "read", datagram |-> {}, err |-> c]
      BY <2>6, <3>1 DEF NoFrame
    <3> QED BY <3>2
  <2> QED BY <2>3, <2>5, <2>6, <2>7 DEF LoopInv
<1>7. CASE Answer
  <2> DEFINE O(l, apdu, u, data) == [to |-> u.src.addr, data |-> data, apdu |-> apdu, msg |-> l.msg]
  <2>a. PICK l \in last, apdu \in Replies : \E u \in l.up :
          \E packet \in buildOutboundNPDU(u.src, u.priority, FALSE, apdu) :
            \E data \in SendNPDU(packet) : out' = {O(l, apdu, u, data)}
    BY <1>7 DEF Answer
  <2>b. PICK u \in l.up : \E packet \in buildOutboundNPDU(u.src, u.priority, FALSE, apdu) :
          \E data \in SendNPDU(packet) : out' = {O(l, apdu, u, data)}
    BY <2>a
  <2>c. PICK packet \in buildOutboundNPDU(u.src, u.priority, FALSE, apdu) :
          \E data \in SendNPDU(packet) : out' = {O(l, apdu, u, data)}
    BY <2>b
  <2>1. PICK data \in SendNPDU(packet) : out' = {O(l, apdu, u, data)}
    BY <2>c
  <2> DEFINE o == [to |-> u.src.addr, data |-> data, apdu |-> apdu, msg |-> l.msg]
  <2>2. out' = {o} /\ o.to = u.src.addr /\ o.data = data /\ o.apdu = apdu /\ o.msg = l.msg
    BY <2>1
  <2> HIDE DEF o
  <2>3. Told(l)
    BY <2>1 DEF LoopInv
  <2>4. ASSUME NEW m \in l.msg PROVE u.src.addr = m.origin /\ Back(data, apdu, m)
    <3>1. u \in Meant(m) /\ Known(l.data, m)
      BY <2>1, <2>3 DEF Told
    <3>2. m.kind = "apdu"
      BY <3>1 DEF Meant
    <3>3. /\ m \in Letters /\ m.station \in Sources
          /\ \A s \in m.station : SnetValid(s.snet) /\ Len(s.sadr) \in 1 .. 255
      BY <3>1, <3>2 DEF Known
    <3> QED BY <2>b, <2>c, <2>1, <3>1, <3>3, AnswerBack
  <2>5. Answered(o)
    BY <2>2, <2>4 DEF Answered
  <2>6. sock' = sock /\ run' = run /\ last' = last
    BY <1>7 DEF Answer
  <2> QED BY <2>2, <2>5, <2>6 DEF LoopInv
<1>8. CASE StartRun
  <2>1. sock' = sock /\ last' = last /\ out' = out /\ run' = [run EXCEPT !.pc = "read"]
    BY <1>8 DEF StartRun
  <2> DEFINE a == run.pc
             b == run.datagram
             c == run.err
  <2>2. run = [pc |-> a, datagram |-> b, err |-> c]
    BY DEF LoopInv
  <2> HIDE DEF a, b, c
  <2>3. run' = [pc |-> "read", datagram |-> b, err |-> c]
    BY <2>1, <2>2
  <2>4. run' = [pc |-> run'.pc, datagram |-> run'.datagram, err |-> run'.err] /\ run'.datagram = run.datagram
    BY <2>2, <2>3
  <2> QED BY <2>1, <2>4 DEF LoopInv
<1>9. CASE ReceiveClosed
  <2>1. sock' = sock /\ last' = last /\ out' = out /\ run' = Ended
    BY <1>9 DEF ReceiveClosed
  <2>2. run' = [pc |-> run'.pc, datagram |-> run'.datagram, err |-> run'.err] /\ run'.datagram = {}
    BY <2>1 DEF Ended, NoFrame
  <2> QED BY <2>1, <2>2 DEF LoopInv
<1>10. CASE Lose
  BY <1>10 DEF Lose, LoopInv
<1>11. CASE Watch \/ Cancel \/ CloseCancel \/ CloseASE \/ CloseTransport \/ UNCHANGED vars
  <2>1. sock' = sock /\ run' = run /\ last' = last /\ out' = out
    BY <1>11 DEF Watch, Cancel, CloseCancel, CloseASE, CloseTransport, vars
  <2> QED BY <2>1 DEF LoopInv
<1> QED BY <1>1, <1>2, <1>3, <1>4, <1>5, <1>6, <1>7, <1>8, <1>9, <1>10, <1>11 DEF Next

-----------------------------------------------------------------------------
(***************************************************************************)
(* Canonical octets: what the decoders accept is encoded back as it was.   *)
(***************************************************************************)

\* Two pieces of a string, one behind the other.
LEMMA Pieces ==
    ASSUME NEW d \in Octets, NEW a \in Nat, NEW b \in Nat, NEW c \in Nat, a <= b, b <= c, c <= Len(d)
    PROVE  SubSeq(d, a + 1, b) \o SubSeq(d, b + 1, c) = SubSeq(d, a + 1, c)
<1> DEFINE s == SubSeq(d, a + 1, b)
           t == SubSeq(d, b + 1, c)
           u == SubSeq(d, a + 1, c)
           v == s \o t
<1>0. Len(d) \in Nat /\ b <= Len(d) /\ a <= c
    BY DEF Octets
<1>1. s \in Octets /\ Len(s) = b - a /\ \A i \in 1 .. b - a : s[i] = d[a + i]
    BY <1>0, PieceOctets
<1>2. t \in Octets /\ Len(t) = c - b /\ \A i \in 1 .. c - b : t[i] = d[b + i]
    BY <1>0, PieceOctets
<1>3. u \in Octets /\ Len(u) = c - a /\ \A i \in 1 .. c - a : u[i] = d[a + i]
    BY <1>0, PieceOctets
<1> HIDE DEF s, t, u
<1>4. /\ v \in Octets /\ Len(v) = Len(s) + Len(t)
      /\ \A i \in 1 .. Len(s) : v[i] = s[i]
      /\ \A i \in 1 .. Len(t) : v[Len(s) + i] = t[i]
    BY <1>1, <1>2, Concatenation
<1> HIDE DEF v
<1>5. \A i \in 1 .. c - a : v[i] = u[i]
  <2> TAKE i \in 1 .. c - a
  <2>1. CASE i <= b - a
    <3>1. i \in 1 .. b - a /\ i \in 1 .. Len(s)
      BY <1>1, <2>1
    <3>2. v[i] = s[i] /\ s[i] = d[a + i]
      BY <1>1, <1>4, <3>1
    <3> QED BY <1>3, <3>2
  <2>2. CASE i > b - a
    <3>1. i - (b - a) \in 1 .. c - b /\ b - a + (i - (b - a)) = i /\ b + (i - (b - a)) = a + i
      BY <2>2
    <3>2. v[b - a + (i - (b - a))] = d[b + (i - (b - a))]
      BY <1>1, <1>2, <1>4, <3>1
    <3> QED BY <1>3, <3>1, <3>2
  <2> QED BY <2>1, <2>2
<1>6. Len(v) = Len(u) /\ \A i \in 1 .. Len(v) : v[i] = u[i]
    BY <1>1, <1>2, <1>3, <1>4, <1>5
<1>7. v = u
    BY <1>3, <1>4, <1>6, SameOctets
<1> QED BY <1>7 DEF v, s, t, u

\* A piece of no, of one and of two octets.
LEMMA ShortPieces ==
    ASSUME NEW d \in Octets, NEW a \in Nat
    PROVE  /\ a <= Len(d) => SubSeq(d, a + 1, a) = <<>>
           /\ a + 1 <= Len(d) => d[a + 1] \in Octet /\ SubSeq(d, a + 1, a + 1) = <<d[a + 1]>>
           /\ a + 2 <= Len(d) => /\ SubSeq(d, a + 1, a + 2) = <<d[a + 1], d[a + 2]>>
                                 /\ SubSeq(d, a + 1, a + 2) = PutUint16(Uint16(d, a + 1))
                                 /\ Uint16(d, a + 1) \in 0 .. MaxUint16
<1>0. Len(d) \in Nat /\ a + 1 \in Nat /\ a + 2 \in Nat /\ a <= a + 1 /\ a <= a + 2 /\ a <= a
    BY DEF Octets
<1>1. ASSUME a <= Len(d) PROVE SubSeq(d, a + 1, a) = <<>>
  <2>1. SubSeq(d, a + 1, a) \in Octets /\ Len(SubSeq(d, a + 1, a)) = a - a
    BY <1>0, <1>1, PieceOctets
  <2>2. a - a = 0
    OBVIOUS
  <2> QED BY <2>1, <2>2, EmptySeq DEF Octets
<1>2. ASSUME a + 1 <= Len(d) PROVE d[a + 1] \in Octet /\ SubSeq(d, a + 1, a + 1) = <<d[a + 1]>>
  <2> DEFINE s == SubSeq(d, a + 1, a + 1)
             o == d[a + 1]
  <2>1. o \in Octet
    BY <1>0, <1>2, ElementOfSeq DEF Octets
  <2>2. s \in Octets /\ Len(s) = a + 1 - a /\ \A i \in 1 .. a + 1 - a : s[i] = d[a + i]
    BY <1>0, <1>2, PieceOctets
  <2>3. a + 1 - a = 1 /\ 1 \in 1 .. 1
    OBVIOUS
  <2> HIDE DEF s
  <2>4. s[1] = o
    BY <2>2, <2>3
  <2> HIDE DEF o
  <2>5. <<o>> \in Octets /\ Len(<<o>>) = 1 /\ <<o>>[1] = o
    BY <2>1, PairOctets
  <2>6. s = <<o>>
    <3> DEFINE t == <<o>>
    <3>1. t \in Octets /\ Len(s) = Len(t) /\ Len(s) = 1 /\ s[1] = t[1]
      BY <2>2, <2>3, <2>4, <2>5
    <3> HIDE DEF t
    <3>2. \A i \in 1 .. Len(s) : s[i] = t[i]
      BY <3>1
    <3>3. s = t
      BY <2>2, <3>1, <3>2, SameOctets
    <3> QED BY <3>3 DEF t
  <2> QED BY <2>1, <2>6 DEF s, o
<1>3. ASSUME a + 2 <= Len(d)
      PROVE  /\ SubSeq(d, a + 1, a + 2) = <<d[a + 1], d[a + 2]>>
             /\ SubSeq(d, a + 1, a + 2) = PutUint16(Uint16(d, a + 1))
             /\ Uint16(d, a + 1) \in 0 .. MaxUint16
  <2> DEFINE s == SubSeq(d, a + 1, a + 2)
             o == d[a + 1]
             p == d[a + 2]
  <2>1. o \in Octet /\ p \in Octet
    BY <1>0, <1>3, ElementOfSeq DEF Octets
  <2>2. s \in Octets /\ Len(s) = a + 2 - a /\ \A i \in 1 .. a + 2 - a : s[i] = d[a + i]
    BY <1>0, <1>3, PieceOctets
  <2>3. a + 2 - a = 2 /\ 1 \in 1 .. 2 /\ 2 \in 1 .. 2 /\ a + 1 + 1 = a + 2
    OBVIOUS
  <2> HIDE DEF s
  <2>4. s[1] = o /\ s[2] = p
    BY <2>2, <2>3
  <2>5. Uint16(d, a + 1) = 256 * o + p
    BY <2>3 DEF Uint16
  <2> HIDE DEF o, p
  <2>6. <<o, p>> \in Octets /\ Len(<<o, p>>) = 2 /\ <<o, p>>[1] = o /\ <<o, p>>[2] = p
    BY <2>1, PairOctets
  <2>7. s = <<o, p>>
    <3> DEFINE t == <<o, p>>
    <3>1. t \in Octets /\ Len(s) = Len(t) /\ Len(s) = 2 /\ s[1] = t[1] /\ s[2] = t[2]
      BY <2>2, <2>3, <2>4, <2>6
    <3> HIDE DEF t
    <3>2. \A i \in 1 .. Len(s) : s[i] = t[i]
      BY <3>1
    <3>3. s = t
      BY <2>2, <3>1, <3>2, SameOctets
    <3> QED BY <3>3 DEF t
  <2>8. PutUint16(256 * o + p) = <<o, p>> /\ 256 * o + p \in 0 .. MaxUint16
    BY <2>1, GetOctets
  <2> QED BY <2>5, <2>7, <2>8 DEF s, o, p
<1> QED BY <1>1, <1>2, <1>3

\* A network number, a length and an address, put back as they were read.
LEMMA SpecifierPiece ==
    ASSUME NEW d \in Octets, NEW a \in Nat, NEW b \in Nat, a + 3 <= b, b <= Len(d)
    PROVE  PutUint16(Uint16(d, a + 1)) \o <<d[a + 3]>> \o SubSeq(d, a + 4, b) = SubSeq(d, a + 1, b)
<1>1. /\ Len(d) \in Nat /\ a + 2 \in Nat /\ a + 3 \in Nat /\ a + 2 + 1 = a + 3 /\ a + 3 + 1 = a + 4
      /\ a + 2 <= Len(d) /\ a + 2 + 1 <= Len(d) /\ a <= a + 2 /\ a + 2 <= a + 3 /\ a <= a + 3
      /\ a + 3 <= Len(d)
    BY DEF Octets
<1>2. PutUint16(Uint16(d, a + 1)) = SubSeq(d, a + 1, a + 2)
    BY <1>1, ShortPieces
<1>3. <<d[a + 2 + 1]>> = SubSeq(d, a + 2 + 1, a + 2 + 1)
    BY <1>1, ShortPieces
<1>4. SubSeq(d, a + 1, a + 2) \o SubSeq(d, a + 2 + 1, a + 3) = SubSeq(d, a + 1, a + 3)
    BY <1>1, Pieces
<1>5. SubSeq(d, a + 1, a + 3) \o SubSeq(d, a + 3 + 1, b) = SubSeq(d, a + 1, b)
    BY <1>1, Pieces
<1> QED BY <1>1, <1>2, <1>3, <1>4, <1>5

\* Where the parts of a readable NPDU end.
LEMMA Cursors ==
    ASSUME NEW d \in Octets, Readable(d)
    PROVE  /\ C1(d) \in Nat /\ C2(d) \in Nat /\ C3(d) \in Nat /\ C4(d) \in Nat /\ Len(d) \in Nat
           /\ 2 <= C1(d) /\ C1(d) <= C2(d) /\ C2(d) <= C3(d) /\ C3(d) <= C4(d) /\ C4(d) <= Len(d)
           /\ Dst(d) => C1(d) = 5 + d[5] /\ d[5] \in Nat
           /\ Src(d) => C2(d) = C1(d) + 3 + d[C1(d) + 3] /\ d[C1(d) + 3] \in Nat
           /\ Nlm(d) => Mt(d) \in Nat
<1>0. Len(d) \in Nat /\ Len(d) >= 2
    BY DEF Octets, Readable
<1>1. ASSUME NEW k \in 1 .. Len(d) PROVE d[k] \in Nat
    BY ElementOfSeq, OctetNat DEF Octets
<1>2. /\ C1(d) \in Nat /\ 2 <= C1(d) /\ C1(d) <= Len(d)
      /\ Dst(d) => C1(d) = 5 + d[5] /\ d[5] \in Nat
  <2>1. CASE ~Dst(d)
    BY <1>0, <2>1 DEF C1
  <2>2. CASE Dst(d)
    <3>1. Len(d) >= 5 /\ (d[5] > 0 => C1(d) <= Len(d)) /\ C1(d) = 5 + d[5]
      BY <2>2 DEF Readable, C1
    <3>2. d[5] \in Nat
      BY <1>0, <1>1, <3>1
    <3> QED BY <1>0, <3>1, <3>2
  <2> QED BY <2>1, <2>2
<1> HIDE DEF C1
<1>3. /\ C2(d) \in Nat /\ C1(d) <= C2(d) /\ C2(d) <= Len(d)
      /\ Src(d) => C2(d) = C1(d) + 3 + d[C1(d) + 3] /\ d[C1(d) + 3] \in Nat
  <2>1. CASE ~Src(d)
    BY <1>2, <2>1 DEF C2
  <2>2. CASE Src(d)
    <3>1. C1(d) + 3 <= Len(d) /\ C2(d) <= Len(d) /\ C2(d) = C1(d) + 3 + d[C1(d) + 3]
      BY <2>2 DEF Readable, C2
    <3>2. C1(d) + 3 \in 1 .. Len(d)
      BY <1>0, <1>2, <3>1
    <3>3. d[C1(d) + 3] \in Nat
      BY <1>1, <3>2
    <3> QED BY <1>0, <1>2, <3>1, <3>3
  <2> QED BY <2>1, <2>2
<1>4. C3(d) \in Nat /\ C2(d) <= C3(d) /\ C3(d) <= Len(d)
  <2>1. C3(d) <= Len(d) /\ (C3(d) = C2(d) + 1 \/ C3(d) = C2(d))
    BY DEF Readable, C3
  <2> QED BY <1>3, <2>1
<1>5. /\ C4(d) \in Nat /\ C3(d) <= C4(d) /\ C4(d) <= Len(d)
      /\ Nlm(d) => Mt(d) \in Nat
  <2>1. CASE ~Nlm(d)
    BY <1>4, <2>1 DEF C4
  <2>2. CASE Nlm(d)
    <3>1. C3(d) < Len(d) /\ C4(d) <= Len(d) /\ (C4(d) = C3(d) + 3 \/ C4(d) = C3(d) + 1)
      BY <2>2 DEF Readable, C4
    <3>2. C3(d) + 1 \in 1 .. Len(d)
      BY <1>0, <1>4, <3>1
    <3>3. Mt(d) \in Nat
      BY <1>1, <3>2 DEF Mt
    <3> QED BY <1>4, <3>1, <3>3
  <2> QED BY <2>1, <2>2
<1> QED BY <1>0, <1>2, <1>3, <1>4, <1>5

\* What is read is put back piece by piece.
LEMMA PartsPut ==
    ASSUME NEW d \in Octets, Readable(d), NEW n, n = ReadNPDU(d)
    PROVE  /\ <<n.version, n.flags>> = SubSeq(d, 1, 2)
           /\ PartD(n) = SubSeq(d, 2 + 1, C1(d)) /\ PartS(n) = SubSeq(d, C1(d) + 1, C2(d))
           /\ PartH(n) = SubSeq(d, C2(d) + 1, C3(d)) /\ PartT(n) = SubSeq(d, C3(d) + 1, C4(d))
           /\ n.apdu = SubSeq(d, C4(d) + 1, Len(d))
<1>0. /\ C1(d) \in Nat /\ C2(d) \in Nat /\ C3(d) \in Nat /\ C4(d) \in Nat /\ Len(d) \in Nat
      /\ 2 <= C1(d) /\ C1(d) <= C2(d) /\ C2(d) <= C3(d) /\ C3(d) <= C4(d) /\ C4(d) <= Len(d)
    BY Cursors
<1>1. /\ n.version = d[1] /\ n.flags = d[2] /\ n.apdu = From(d, C4(d))
      /\ n.dnet = (IF Dst(d) THEN {Uint16(d, 3)} ELSE {})
      /\ n.dlen = (IF Dst(d) THEN {d[5]} ELSE {})
      /\ n.dadr = (IF Dst(d) /\ d[5] > 0 THEN {SubSeq(d, 6, C1(d))} ELSE {})
      /\ n.snet = (IF Src(d) THEN {Uint16(d, C1(d) + 1)} ELSE {})
      /\ n.slen = (IF Src(d) THEN {d[C1(d) + 3]} ELSE {})
      /\ n.sadr = (IF Src(d) THEN {SubSeq(d, C1(d) + 4, C2(d))} ELSE {})
      /\ n.hopCount = (IF Dst(d) THEN {d[C3(d)]} ELSE {})
      /\ n.messageType = (IF Nlm(d) THEN {Mt(d)} ELSE {})
      /\ n.vendorId = (IF Nlm(d) /\ Mt(d) >= 128 THEN {Uint16(d, C3(d) + 2)} ELSE {})
    BY Zenon DEF ReadNPDU
<1>2. ASSUME NEW y PROVE The({y}) = y
    BY DEF The
<1>3. /\ (Bit(n.flags, BitDestination) <=> Dst(d)) /\ (Bit(n.flags, BitSource) <=> Src(d))
      /\ (Bit(n.flags, BitNetworkMessage) <=> Nlm(d))
    BY <1>1, Zenon DEF Dst, Src, Nlm
<1>4. ASSUME NEW a \in Nat, a <= Len(d) PROVE SubSeq(d, a + 1, a) = <<>>
    BY <1>4, ShortPieces
<1>5. <<n.version, n.flags>> = SubSeq(d, 1, 2)
  <2>1. 0 \in Nat /\ 0 + 1 = 1 /\ 0 + 2 = 2 /\ 0 + 2 <= Len(d)
    BY <1>0
  <2>2. SubSeq(d, 0 + 1, 0 + 2) = <<d[0 + 1], d[0 + 2]>>
    BY <2>1, ShortPieces
  <2> QED BY <1>1, <2>1, <2>2
<1>6. PartD(n) = SubSeq(d, 2 + 1, C1(d))
  <2>1. CASE ~Dst(d)
    <3>1. C1(d) = 2 /\ PartD(n) = <<>>
      BY <1>3, <2>1 DEF C1, PartD
    <3>2. 2 \in Nat /\ 2 <= Len(d)
      BY <1>0
    <3> QED BY <1>4, <3>1, <3>2
  <2>2. CASE Dst(d)
    <3>1. C1(d) = 5 + d[5] /\ d[5] \in Nat
      BY <2>2, Cursors
    <3>2. The(n.dnet) = Uint16(d, 2 + 1) /\ The(n.dlen) = d[2 + 3] /\ 2 + 4 = 6 /\ 2 \in Nat /\ 2 + 3 <= C1(d)
      <4>1. The(n.dnet) = Uint16(d, 3) /\ The(n.dlen) = d[5]
        BY <1>1, <1>2, <2>2
      <4>2. 2 + 1 = 3 /\ 2 + 3 = 5 /\ 2 + 4 = 6 /\ 2 \in Nat /\ 2 + 3 <= C1(d)
        BY <3>1
      <4> QED BY <4>1, <4>2
    <3>3. (IF n.dadr = {} THEN <<>> ELSE The(n.dadr)) = SubSeq(d, 2 + 4, C1(d))
      <4>1. CASE d[5] > 0
        BY <1>1, <1>2, <2>2, <3>2, <4>1
      <4>2. CASE ~(d[5] > 0)
        <5>1. C1(d) = 5 /\ n.dadr = {} /\ 5 \in Nat /\ 5 <= Len(d) /\ 5 + 1 = 6
          BY <1>0, <1>1, <3>1, <4>2
        <5>2. SubSeq(d, 5 + 1, 5) = <<>>
          BY <1>4, <5>1
        <5> QED BY <3>2, <5>1, <5>2
      <4> QED BY <4>1, <4>2
    <3>4. PartD(n) = PutUint16(Uint16(d, 2 + 1)) \o <<d[2 + 3]>> \o SubSeq(d, 2 + 4, C1(d))
      BY <1>3, <2>2, <3>2, <3>3 DEF PartD, Specifier
    <3>5. C1(d) <= Len(d)
      BY <1>0
    <3> QED BY <1>0, <3>2, <3>4, <3>5, SpecifierPiece
  <2> QED BY <2>1, <2>2
<1>7. PartS(n) = SubSeq(d, C1(d) + 1, C2(d))
  <2> DEFINE a == C1(d)
             b == C2(d)
  <2>0. a \in Nat /\ b \in Nat /\ a <= Len(d) /\ b <= Len(d)
    BY <1>0
  <2>1. CASE ~Src(d)
    <3>1. b = a /\ PartS(n) = <<>>
      BY <1>3, <2>1 DEF C2, PartS
    <3> QED BY <1>4, <2>0, <3>1
  <2>2. CASE Src(d)
    <3>1. b = a + 3 + d[a + 3] /\ d[a + 3] \in Nat
      BY <2>2, Cursors
    <3>2. /\ The(n.snet) = Uint16(d, a + 1) /\ The(n.slen) = d[a + 3] /\ n.sadr # {}
          /\ The(n.sadr) = SubSeq(d, a + 4, b)
      BY <1>1, <1>2, <2>2
    <3> HIDE DEF a, b
    <3>3. a + 3 <= b
      BY <2>0, <3>1
    <3>4. PartS(n) = PutUint16(Uint16(d, a + 1)) \o <<d[a + 3]>> \o SubSeq(d, a + 4, b)
      BY <1>3, <2>2, <3>2 DEF PartS, Specifier
    <3>5. PartS(n) = SubSeq(d, a + 1, b)
      BY <2>0, <3>3, <3>4, SpecifierPiece
    <3> QED BY <3>5 DEF a, b
  <2> QED BY <2>1, <2>2
<1>8. PartH(n) = SubSeq(d, C2(d) + 1, C3(d))
  <2> DEFINE a == C2(d)
  <2>0. a \in Nat /\ a <= Len(d) /\ C3(d) <= Len(d)
    BY <1>0
  <2>1. CASE ~Dst(d)
    <3>1. C3(d) = a /\ PartH(n) = <<>>
      BY <1>3, <2>1 DEF C3, PartH
    <3> QED BY <1>4, <2>0, <3>1
  <2>2. CASE Dst(d)
    <3>1. C3(d) = a + 1 /\ The(n.hopCount) = d[C3(d)]
      BY <1>1, <1>2, <2>2 DEF C3
    <3>2. PartH(n) = <<d[a + 1]>>
      BY <1>3, <2>2, <3>1 DEF PartH
    <3> HIDE DEF a
    <3>3. SubSeq(d, a + 1, a + 1) = <<d[a + 1]>>
      BY <2>0, <3>1, ShortPieces
    <3> QED BY <3>1, <3>2, <3>3 DEF a
  <2> QED BY <2>1, <2>2
<1>9. PartT(n) = SubSeq(d, C3(d) + 1, C4(d))
  <2> DEFINE a == C3(d)
  <2>0. a \in Nat /\ a <= Len(d) /\ C4(d) <= Len(d) /\ C4(d) \in Nat /\ Len(d) \in Nat
    BY <1>0
  <2>1. CASE ~Nlm(d)
    <3>1. C4(d) = a /\ PartT(n) = <<>>
      BY <1>3, <2>1 DEF C4, PartT
    <3> QED BY <1>4, <2>0, <3>1
  <2>2. CASE Nlm(d)
    <3>1. The(n.messageType) = d[a + 1]
      BY <1>1, <1>2, <2>2 DEF Mt
    <3>2. CASE Mt(d) >= 128
      <4>1. C4(d) = a + 3 /\ The(n.vendorId) = Uint16(d, a + 2) /\ d[a + 1] >= 128
        BY <1>1, <1>2, <2>2, <3>2 DEF C4, Mt
      <4>2. PartT(n) = <<d[a + 1]>> \o PutUint16(Uint16(d, a + 2))
        BY <1>3, <2>2, <3>1, <4>1 DEF PartT
      <4> HIDE DEF a
      <4>3. /\ a + 1 \in Nat /\ a + 3 \in Nat /\ a + 1 + 1 = a + 2 /\ a + 1 + 2 = a + 3 /\ a + 1 <= Len(d)
            /\ a + 1 + 2 <= Len(d) /\ a <= a + 1 /\ a + 1 <= a + 3 /\ a + 3 <= Len(d)
        BY <2>0, <4>1
      <4>4. SubSeq(d, a + 1, a + 1) = <<d[a + 1]>>
        BY <2>0, <4>3, ShortPieces
      <4>5. SubSeq(d, a + 1 + 1, a + 1 + 2) = PutUint16(Uint16(d, a + 1 + 1))
        BY <4>3, ShortPieces
      <4>6. SubSeq(d, a + 1, a + 1) \o SubSeq(d, a + 1 + 1, a + 3) = SubSeq(d, a + 1, a + 3)
        BY <2>0, <4>3, Pieces
      <4>7. PartT(n) = SubSeq(d, a + 1, C4(d))
        BY <4>1, <4>2, <4>3, <4>4, <4>5, <4>6
      <4> QED BY <4>7 DEF a
    <3>3. CASE ~(Mt(d) >= 128)
      <4>1. C4(d) = a + 1 /\ ~(d[a + 1] >= 128)
        BY <2>2, <3>3 DEF C4, Mt
      <4>2. PartT(n) = <<d[a + 1]>> \o <<>>
        BY <1>3, <2>2, <3>1, <4>1 DEF PartT
      <4> HIDE DEF a
      <4>3. d[a + 1] \in Octet /\ SubSeq(d, a + 1, a + 1) = <<d[a + 1]>>
        BY <2>0, <4>1, ShortPieces
      <4>4. <<d[a + 1]>> \o <<>> = <<d[a + 1]>>
        BY <4>3
      <4> QED BY <4>1, <4>2, <4>3, <4>4 DEF a
    <3> QED BY <3>2, <3>3
  <2> QED BY <2>1, <2>2
<1>10. n.apdu = SubSeq(d, C4(d) + 1, Len(d))
    BY <1>1 DEF From
<1> QED BY <1>5, <1>6, <1>7, <1>8, <1>9, <1>10

\* What NPDUDecode accepts is valid.
LEMMA ReadValid ==
    ASSUME NEW d \in Octets, Readable(d), NEW n, n = ReadNPDU(d)
    PROVE  NPDUValid(n)
<1>1. /\ n.version = d[1] /\ n.flags = d[2]
      /\ n.dnet = (IF Dst(d) THEN {Uint16(d, 3)} ELSE {})
      /\ n.dlen = (IF Dst(d) THEN {d[5]} ELSE {})
      /\ n.dadr = (IF Dst(d) /\ d[5] > 0 THEN {SubSeq(d, 6, C1(d))} ELSE {})
      /\ n.snet = (IF Src(d) THEN {Uint16(d, C1(d) + 1)} ELSE {})
      /\ n.slen = (IF Src(d) THEN {d[C1(d) + 3]} ELSE {})
      /\ n.sadr = (IF Src(d) THEN {SubSeq(d, C1(d) + 4, C2(d))} ELSE {})
      /\ n.hopCount = (IF Dst(d) THEN {d[C3(d)]} ELSE {})
      /\ n.messageType = (IF Nlm(d) THEN {Mt(d)} ELSE {})
      /\ n.vendorId = (IF Nlm(d) /\ Mt(d) >= 128 THEN {Uint16(d, C3(d) + 2)} ELSE {})
    BY Zenon DEF ReadNPDU
<1>2. ASSUME NEW y PROVE The({y}) = y
    BY DEF The
<1>3. /\ (Bit(n.flags, BitDestination) <=> Dst(d)) /\ (Bit(n.flags, BitSource) <=> Src(d))
      /\ (Bit(n.flags, BitNetworkMessage) <=> Nlm(d))
    BY <1>1, Zenon DEF Dst, Src, Nlm
<1>4. n.version = ProtocolVersion /\ ~Bit(n.flags, BitReserved4) /\ ~Bit(n.flags, BitReserved6)
    BY <1>1, Zenon DEF Readable
<1>5. Nlm(d) => /\ n.messageType # {} /\ ((The(n.messageType) >= 128) <=> (n.vendorId # {}))
                /\ NormalizedPayload(MessageHeaderOf(n), n.apdu) # {}
  <2>1. Nlm(d) => n.messageType # {} /\ The(n.messageType) = Mt(d)
    BY <1>1, <1>2
  <2>2. Nlm(d) => NormalizedPayload(MessageHeaderOf(n), n.apdu) # {}
    BY Zenon DEF Readable
  <2>3. Nlm(d) => ((Mt(d) >= 128) <=> (n.vendorId # {}))
    BY <1>1
  <2> QED BY <2>1, <2>2, <2>3, Zenon
<1>6. ~Nlm(d) => n.messageType = {} /\ n.vendorId = {}
    BY <1>1
<1>7. Dst(d) => /\ n.dnet # {} /\ n.dlen # {} /\ n.hopCount # {} /\ The(n.dnet) # 0
                /\ IF The(n.dlen) = 0 THEN n.dadr = {}
                   ELSE /\ The(n.dnet) # GlobalBroadcastNetwork
                        /\ n.dadr # {} /\ Len(The(n.dadr)) = The(n.dlen)
  <2> SUFFICES ASSUME Dst(d) PROVE <1>7!2
    OBVIOUS
  <2>1. /\ n.dnet # {} /\ n.dlen # {} /\ n.hopCount # {} /\ The(n.dnet) = Uint16(d, 3) /\ The(n.dlen) = d[5]
    BY <1>1, <1>2
  <2>2. C1(d) = 5 + d[5] /\ d[5] \in Nat /\ C1(d) \in Nat /\ C1(d) <= Len(d)
    <3>1. /\ C1(d) = 5 + d[5] /\ d[5] \in Nat /\ C1(d) \in Nat /\ Len(d) \in Nat
          /\ C1(d) <= C2(d) /\ C2(d) <= C3(d) /\ C3(d) <= C4(d) /\ C4(d) <= Len(d)
          /\ C2(d) \in Nat /\ C3(d) \in Nat /\ C4(d) \in Nat
      BY Cursors
    <3> QED BY <3>1
  <2>3. Uint16(d, 3) # 0 /\ (d[5] > 0 => Uint16(d, 3) # GlobalBroadcastNetwork)
    BY DEF Readable
  <2>4. CASE d[5] = 0
    BY <1>1, <2>1, <2>3, <2>4
  <2>5. CASE d[5] # 0
    <3>1. d[5] > 0 /\ 5 \in Nat /\ 5 + 1 = 6 /\ 5 <= C1(d)
      BY <2>2, <2>5
    <3>2. n.dadr = {SubSeq(d, 5 + 1, C1(d))}
      BY <1>1, <3>1
    <3>3. Len(SubSeq(d, 5 + 1, C1(d))) = C1(d) - 5
      BY <2>2, <3>1, PieceOctets
    <3>4. C1(d) - 5 = d[5]
      BY <2>2
    <3>5. The(n.dadr) = SubSeq(d, 5 + 1, C1(d))
      BY <1>2, <3>2
    <3> QED BY <2>1, <2>3, <2>5, <3>1, <3>2, <3>3, <3>4, <3>5
  <2> QED BY <2>4, <2>5
<1>8. ~Dst(d) => n.dnet = {} /\ n.dlen = {} /\ n.dadr = {} /\ n.hopCount = {}
    BY <1>1
<1>9. Src(d) => /\ n.snet # {} /\ n.slen # {} /\ The(n.slen) # 0
                /\ n.sadr # {} /\ Len(The(n.sadr)) = The(n.slen) /\ SnetValid(The(n.snet))
  <2> SUFFICES ASSUME Src(d) PROVE <1>9!2
    OBVIOUS
  <2> DEFINE a == C1(d)
             b == C2(d)
  <2>1. /\ n.snet # {} /\ n.slen # {} /\ n.sadr # {} /\ The(n.snet) = Uint16(d, a + 1)
        /\ The(n.slen) = d[a + 3] /\ The(n.sadr) = SubSeq(d, a + 4, b)
    BY <1>1, <1>2
  <2>2. SnetValid(Uint16(d, a + 1)) /\ d[a + 3] # 0
    BY DEF Readable
  <2>3. a \in Nat /\ b \in Nat /\ b = a + 3 + d[a + 3] /\ d[a + 3] \in Nat /\ b <= Len(d)
    <3>1. /\ a \in Nat /\ b \in Nat /\ b = a + 3 + d[a + 3] /\ d[a + 3] \in Nat
          /\ b <= C3(d) /\ C3(d) <= C4(d) /\ C4(d) <= Len(d) /\ Len(d) \in Nat
          /\ C3(d) \in Nat /\ C4(d) \in Nat
      BY Cursors
    <3> HIDE DEF a, b
    <3> QED BY <3>1
  <2> HIDE DEF a, b
  <2>4. a + 3 \in Nat /\ a + 3 + 1 = a + 4 /\ a + 3 <= b /\ b - (a + 3) = d[a + 3]
    BY <2>3
  <2>5. Len(SubSeq(d, a + 3 + 1, b)) = b - (a + 3)
    BY <2>3, <2>4, PieceOctets
  <2> QED BY <2>1, <2>2, <2>4, <2>5
<1>10. ~Src(d) => n.snet = {} /\ n.slen = {} /\ n.sadr = {}
    BY <1>1
<1> QED BY <1>3, <1>4, <1>5, <1>6, <1>7, <1>8, <1>9, <1>10, Zenon DEF NPDUValid

\* What NPDUDecode accepts is encoded back to the octets it was.
LEMMA NPDUCanonical ==
    ASSUME NEW d \in Octets, NEW n \in NPDUDecode(d)
    PROVE  NPDUEncode(n) = {d} /\ NPDUValid(n)
<1>1. Readable(d) /\ n = ReadNPDU(d)
    BY NPDUDecodes
<1>2. NPDUValid(n)
    BY <1>1, ReadValid
<1> DEFINE a == C1(d)
           b == C2(d)
           c == C3(d)
           e == C4(d)
           f == Len(d)
<1>3. /\ a \in Nat /\ b \in Nat /\ c \in Nat /\ e \in Nat /\ f \in Nat
      /\ 2 <= a /\ a <= b /\ b <= c /\ c <= e /\ e <= f
    BY <1>1, Cursors
<1>4. /\ <<n.version, n.flags>> = SubSeq(d, 1, 2)
      /\ PartD(n) = SubSeq(d, 2 + 1, a) /\ PartS(n) = SubSeq(d, a + 1, b)
      /\ PartH(n) = SubSeq(d, b + 1, c) /\ PartT(n) = SubSeq(d, c + 1, e)
      /\ n.apdu = SubSeq(d, e + 1, f)
    BY <1>1, PartsPut
<1>5. SubSeq(d, 1, f) = d
    BY WholePiece
<1>6. f = Len(d)
    OBVIOUS
<1> HIDE DEF a, b, c, e, f
<1>7. a <= f /\ b <= f /\ c <= f /\ 2 \in Nat
    BY <1>3
<1>8. SubSeq(d, 1, 2) \o SubSeq(d, 2 + 1, a) = SubSeq(d, 1, a)
    BY <1>3, <1>6, <1>7, Split
<1>9. SubSeq(d, 1, a) \o SubSeq(d, a + 1, b) = SubSeq(d, 1, b)
    BY <1>3, <1>6, <1>7, Split
<1>10. SubSeq(d, 1, b) \o SubSeq(d, b + 1, c) = SubSeq(d, 1, c)
    BY <1>3, <1>6, <1>7, Split
<1>11. SubSeq(d, 1, c) \o SubSeq(d, c + 1, e) = SubSeq(d, 1, e)
    BY <1>3, <1>6, <1>7, Split
<1>12. SubSeq(d, 1, e) \o SubSeq(d, e + 1, f) = SubSeq(d, 1, f)
  <2>1. e \in Nat /\ f \in Nat /\ e <= f /\ f <= f
    BY <1>3
  <2>2. f <= Len(d)
    BY <1>6, <2>1
  <2> QED BY <2>1, <2>2, Split
<1>13. NPDUEncode(n) = {<<n.version, n.flags>> \o PartD(n) \o PartS(n) \o PartH(n)
                        \o PartT(n) \o n.apdu}
    BY <1>2, NPDUEncodes
<1> QED BY <1>2, <1>4, <1>5, <1>8, <1>9, <1>10, <1>11, <1>12, <1>13, Zenon

\* What DecodeFrame checks of a datagram.
IsFrame(d) ==
    /\ Len(d) >= 4 /\ TypeValid(d[1]) /\ FunctionValid(d[2]) /\ Uint16(d, 3) = Len(d)

\* A frame is its header and the octets behind it, and its length fits its field.
LEMMA FrameParts ==
    ASSUME NEW d \in Octets, IsFrame(d)
    PROVE  /\ Len(d) \in Nat /\ Len(d) <= MaxUint16 /\ From(d, 4) \in Octets
           /\ Len(From(d, 4)) = Len(d) - 4
           /\ <<d[1], d[2]>> \o PutUint16(Len(d)) \o From(d, 4) = d
<1>1. /\ Len(d) \in Nat /\ Len(d) >= 4 /\ Uint16(d, 3) = Len(d)
      /\ 0 \in Nat /\ 2 \in Nat /\ 4 \in Nat /\ 0 + 2 <= Len(d) /\ 2 + 2 <= Len(d) /\ 2 <= 4 /\ 4 <= Len(d)
      /\ 0 + 1 = 1 /\ 0 + 2 = 2 /\ 2 + 1 = 3 /\ 2 + 2 = 4 /\ Len(d) <= Len(d)
    BY DEF Octets, IsFrame
<1>2. SubSeq(d, 0 + 1, 0 + 2) = <<d[0 + 1], d[0 + 2]>>
    BY <1>1, ShortPieces
<1>3. SubSeq(d, 2 + 1, 2 + 2) = PutUint16(Uint16(d, 2 + 1)) /\ Uint16(d, 2 + 1) \in 0 .. MaxUint16
    BY <1>1, ShortPieces
<1>4. MaxUint16 \in Nat
    BY DEF MaxUint16
<1>5. Len(d) <= MaxUint16
    BY <1>1, <1>3, <1>4
<1>6. SubSeq(d, 1, 2) \o SubSeq(d, 2 + 1, 4) = SubSeq(d, 1, 4)
    BY <1>1, Split
<1>7. SubSeq(d, 1, 4) \o SubSeq(d, 4 + 1, Len(d)) = SubSeq(d, 1, Len(d))
    BY <1>1, Split
<1>8. SubSeq(d, 1, Len(d)) = d
    BY WholePiece
<1>9. SubSeq(d, 4 + 1, Len(d)) \in Octets /\ Len(SubSeq(d, 4 + 1, Len(d))) = Len(d) - 4
    BY <1>1, PieceOctets
<1>10. From(d, 4) = SubSeq(d, 4 + 1, Len(d))
    BY DEF From
<1>11. <<d[1], d[2]>> = SubSeq(d, 1, 2) /\ PutUint16(Len(d)) = SubSeq(d, 2 + 1, 4)
    BY <1>1, <1>2, <1>3
<1> QED BY <1>1, <1>5, <1>6, <1>7, <1>8, <1>9, <1>10, <1>11

\* DecodeFrame keeps every octet it was given.
LEMMA FrameCanonical ==
    ASSUME NEW d \in Octets, NEW frame \in DecodeFrame(d)
    PROVE  /\ IsFrame(d) /\ FrameEncode(frame) = {d}
           /\ frame.payload = From(d, 4) /\ frame.payload \in Octets
<1>1. IsFrame(d) /\ frame = [type |-> d[1], function |-> d[2], payload |-> From(d, 4)]
    BY DEF DecodeFrame, IsFrame, HeaderLen
<1> DEFINE p == From(d, 4)
           n == Len(d)
           o1 == d[1]
           o2 == d[2]
<1>2. /\ n \in Nat /\ n <= MaxUint16 /\ p \in Octets /\ Len(p) = n - 4
      /\ <<o1, o2>> \o PutUint16(n) \o p = d
    BY <1>1, FrameParts
<1>3. TypeValid(o1) /\ FunctionValid(o2) /\ MaxUint16 \in Nat
    BY <1>1 DEF IsFrame, MaxUint16
<1>4. frame = [type |-> o1, function |-> o2, payload |-> p]
    BY <1>1
<1> HIDE DEF p, n, o1, o2
<1>5. frame.type = o1 /\ frame.function = o2 /\ frame.payload = p
    BY <1>4
<1>6. 4 + Len(p) = n
    BY <1>2
<1>7. FrameEncode(frame) = When(TypeValid(o1) /\ FunctionValid(o2) /\ n <= MaxUint16,
                                <<o1, o2>> \o PutUint16(n) \o p)
    BY <1>5, <1>6 DEF FrameEncode, HeaderLen
<1>8. FrameEncode(frame) = {d}
    BY <1>2, <1>3, <1>7, Zenon DEF When
<1> QED BY <1>1, <1>2, <1>5, <1>8 DEF p

\* A header read from a frame and the octets behind it, put back.
LEMMA Rebuilt ==
    ASSUME NEW d \in Octets, IsFrame(d), NEW f, NEW h \in HeaderOf(d, f)
    PROVE  /\ HeaderEncode(h, From(d, 4)) = {d} /\ WholeEncode(h, From(d, 4)) = {d}
           /\ h.length = Len(d) /\ h.function = f
<1> DEFINE p == From(d, 4)
           n == Len(d)
           o1 == d[1]
           o2 == d[2]
           u == SubSeq(d, 1, 4)
<1>1. /\ n \in Nat /\ n <= MaxUint16 /\ p \in Octets /\ Len(p) = n - 4
      /\ <<o1, o2>> \o PutUint16(n) \o p = d
    BY FrameParts
<1>2. TypeValid(o1) /\ FunctionValid(o2) /\ n >= 4 /\ Uint16(d, 3) = n
    BY DEF IsFrame
<1>3. u[1] = o1 /\ u[2] = o2 /\ Uint16(u, 3) = n
  <2>1. 0 \in Nat /\ 4 \in Nat /\ 0 <= 4 /\ 4 <= Len(d) /\ 4 - 0 = 4
    BY <1>2
  <2>2. \A i \in 1 .. 4 - 0 : SubSeq(d, 0 + 1, 4)[i] = d[0 + i]
    BY <2>1, PieceOctets
  <2>3. u = SubSeq(d, 0 + 1, 4)
    OBVIOUS
  <2> HIDE DEF u
  <2>4. \A i \in 1 .. 4 : u[i] = d[i]
    BY <2>2, <2>3
  <2>5. u[1] = d[1] /\ u[2] = d[2] /\ u[3] = d[3] /\ u[4] = d[4]
    BY <2>4
  <2> QED BY <1>2, <2>5 DEF Uint16
<1>4. h \in HeaderDecode(u) /\ h.function = f
    BY DEF HeaderOf, Upto, HeaderLen
<1> HIDE DEF u, p, n, o1, o2
<1>5. h = [type |-> o1, function |-> o2, length |-> n]
    BY <1>3, <1>4 DEF HeaderDecode
<1>6. h.type = o1 /\ h.function = o2 /\ h.length = n
    BY <1>5
<1>7. [i \in 1 .. n - 4 |-> IF i <= Len(p) THEN p[i] ELSE 0] = p
  <2> DEFINE q == [i \in 1 .. n - 4 |-> IF i <= Len(p) THEN p[i] ELSE 0]
  <2>1. p = [i \in 1 .. Len(p) |-> p[i]]
    BY <1>1 DEF Octets
  <2>2. q = [i \in 1 .. Len(p) |-> p[i]]
    BY <1>1
  <2> QED BY <2>1, <2>2
<1>8. HeaderEncode(h, p) = When(HeaderValid(h) /\ n >= 4, <<o1, o2>> \o PutUint16(n) \o p)
    BY <1>6, <1>7 DEF HeaderEncode, HeaderLen
<1>9. HeaderValid(h)
    BY <1>2, <1>6 DEF HeaderValid
<1>10. HeaderEncode(h, p) = {d}
    BY <1>1, <1>2, <1>8, <1>9, Zenon DEF When
<1>11. Len(p) <= h.length - 4
    BY <1>1, <1>6
<1>12. WholeEncode(h, p) = {d}
    BY <1>10, <1>11 DEF WholeEncode, HeaderLen
<1> QED BY <1>4, <1>6, <1>10, <1>12 DEF p, n

\* A two-octet field at the end of a frame of six octets is all that follows its header.
LEMMA LastField ==
    ASSUME NEW d \in Octets, Len(d) = 6
    PROVE  PutUint16(Uint16(d, 5)) = From(d, 4)
<1>1. 4 \in Nat /\ 4 + 2 <= Len(d) /\ 4 + 1 = 5 /\ 4 + 2 = 6
    OBVIOUS
<1>2. SubSeq(d, 4 + 1, 4 + 2) = PutUint16(Uint16(d, 4 + 1))
    BY <1>1, ShortPieces
<1> QED BY <1>1, <1>2 DEF From

\* The functions with a code or a time, and the ones with nothing behind their header.
LEMMA FixedCanonical ==
    ASSUME NEW d \in Octets, IsFrame(d)
    PROVE  /\ \A m \in BVLCResultDecode(d) : BVLCResultEncode(m) = {d}
           /\ \A m \in RegisterDecode(d) : RegisterEncode(m) = {d}
           /\ \A m \in ReadBDTDecode(d) : ReadBDTEncode(m) = {d}
           /\ \A m \in ReadFDTDecode(d) : ReadFDTEncode(m) = {d}
<1> DEFINE v == Uint16(d, 5)
<1>1. ASSUME NEW m \in BVLCResultDecode(d) PROVE BVLCResultEncode(m) = {d}
  <2>1. Len(d) = 6
    BY <1>1 DEF BVLCResultDecode, HeaderLen
  <2>2. PutUint16(v) = From(d, 4)
    BY <2>1, LastField
  <2> HIDE DEF v
  <2>3. PICK h \in HeaderOf(d, FnResult) : m = [header |-> h, resultCode |-> v]
    BY <1>1 DEF BVLCResultDecode, v
  <2>4. HeaderEncode(h, From(d, 4)) = {d} /\ h.length = Len(d)
    BY Rebuilt
  <2>5. m.header = h /\ m.resultCode = v
    BY <2>3
  <2> QED BY <2>1, <2>2, <2>4, <2>5 DEF BVLCResultEncode, HeaderLen
<1>2. ASSUME NEW m \in RegisterDecode(d) PROVE RegisterEncode(m) = {d}
  <2>1. Len(d) = 6
    BY <1>2 DEF RegisterDecode, HeaderLen
  <2>2. PutUint16(v) = From(d, 4)
    BY <2>1, LastField
  <2> HIDE DEF v
  <2>3. PICK h \in HeaderOf(d, FnRegisterForeignDevice) : m = [header |-> h, ttl |-> v]
    BY <1>2 DEF RegisterDecode, v
  <2>4. HeaderEncode(h, From(d, 4)) = {d} /\ h.length = Len(d)
    BY Rebuilt
  <2>5. m.header = h /\ m.ttl = v
    BY <2>3
  <2>6. ~(h.length \in 4 .. 4 + 1)
    BY <2>1, <2>4
  <2> QED BY <2>2, <2>4, <2>5, <2>6 DEF RegisterEncode, HeaderLen
<1>3. Len(d) = 4 => From(d, 4) = <<>>
  <2>1. ASSUME Len(d) = 4 PROVE SubSeq(d, 4 + 1, 4) = <<>>
    <3>1. 4 \in Nat /\ 4 <= Len(d)
      BY <2>1
    <3> QED BY <3>1, ShortPieces
  <2> QED BY <2>1 DEF From
<1>4. ASSUME NEW m \in ReadBDTDecode(d) PROVE ReadBDTEncode(m) = {d}
  <2>1. Len(d) = 4
    BY <1>4 DEF ReadBDTDecode, HeaderLen
  <2>3. PICK h \in HeaderOf(d, FnReadBDT) : m = [header |-> h]
    BY <1>4 DEF ReadBDTDecode
  <2>4. HeaderEncode(h, From(d, 4)) = {d}
    BY Rebuilt
  <2>5. m.header = h
    BY <2>3
  <2> QED BY <1>3, <2>1, <2>4, <2>5 DEF ReadBDTEncode
<1>5. ASSUME NEW m \in ReadFDTDecode(d) PROVE ReadFDTEncode(m) = {d}
  <2>1. Len(d) = 4
    BY <1>5 DEF ReadFDTDecode, HeaderLen
  <2>3. PICK h \in HeaderOf(d, FnReadFDT) : m = [header |-> h]
    BY <1>5 DEF ReadFDTDecode
  <2>4. HeaderEncode(h, From(d, 4)) = {d}
    BY Rebuilt
  <2>5. m.header = h
    BY <2>3
  <2> QED BY <1>3, <2>1, <2>4, <2>5 DEF ReadFDTEncode
<1> QED BY <1>1, <1>2, <1>4, <1>5

\* The functions that carry an NPDU behind their header.
LEMMA NpduCanonical ==
    ASSUME NEW d \in Octets, IsFrame(d)
    PROVE  /\ \A m \in DistributeDecode(d) : DistributeEncode(m) = {d}
           /\ \A m \in OriginalUnicastDecode(d) : OriginalUnicastEncode(m) \subseteq {d}
           /\ \A m \in OriginalBroadcastDecode(d) : OriginalBroadcastEncode(m) \subseteq {d}
<1> DEFINE p == From(d, 4)
<1>1. ASSUME NEW f, NEW m \in NpduDecode(d, f)
      PROVE  m.npdu = p /\ WholeEncode(m.header, p) = {d} /\ HeaderEncode(m.header, p) = {d}
  <2>1. PICK h \in HeaderOf(d, f) : m = [header |-> h, npdu |-> From(d, 4)]
    BY <1>1 DEF NpduDecode, HeaderLen
  <2>2. WholeEncode(h, p) = {d} /\ HeaderEncode(h, p) = {d}
    BY Rebuilt
  <2> HIDE DEF p
  <2>3. m = [header |-> h, npdu |-> p]
    BY <2>1 DEF p
  <2>4. m.header = h /\ m.npdu = p
    BY <2>3
  <2> QED BY <2>2, <2>4
<1> HIDE DEF p
<1>2. ASSUME NEW m \in DistributeDecode(d) PROVE DistributeEncode(m) = {d}
    BY <1>1, <1>2, Zenon DEF DistributeDecode, DistributeEncode
<1>3. ASSUME NEW m \in OriginalUnicastDecode(d) PROVE OriginalUnicastEncode(m) \subseteq {d}
  <2>1. WholeEncode(m.header, m.npdu) = {d}
    BY <1>1, <1>3, Zenon DEF OriginalUnicastDecode
  <2> QED BY <2>1 DEF OriginalUnicastEncode
<1>4. ASSUME NEW m \in OriginalBroadcastDecode(d) PROVE OriginalBroadcastEncode(m) \subseteq {d}
  <2>1. HeaderEncode(m.header, m.npdu) = {d}
    BY <1>1, <1>4, Zenon DEF OriginalBroadcastDecode
  <2> QED BY <2>1 DEF OriginalBroadcastEncode
<1> QED BY <1>2, <1>3, <1>4

\* The address in front of s is put back as it was read.
LEMMA AddressPiece ==
    ASSUME NEW s \in Octets, NEW a \in decodeAddressPortIpV4(s)
    PROVE  encodeAddressPortIpV4(a) = s
<1>1. Len(s) = 6 /\ a = [ip |-> SubSeq(s, 1, 4), port |-> Uint16(s, 5)]
    BY DEF decodeAddressPortIpV4, When, Upto
<1> DEFINE x == SubSeq(s, 1, 4)
           y == Uint16(s, 5)
<1>2. a = [ip |-> x, port |-> y]
    BY <1>1
<1>3. 4 \in Nat /\ 6 \in Nat /\ 4 <= 6 /\ 6 <= Len(s) /\ 4 + 1 = 5
    BY <1>1
<1>4. SubSeq(s, 1, 4) \o SubSeq(s, 4 + 1, 6) = SubSeq(s, 1, 6)
    BY <1>3, Split
<1>5. SubSeq(s, 1, 6) = s
    BY <1>1, WholePiece
<1>6. PutUint16(y) = SubSeq(s, 4 + 1, 6)
    BY <1>1, LastField DEF From
<1>7. x \o PutUint16(y) = s
    BY <1>4, <1>5, <1>6
<1> HIDE DEF x, y
<1>8. a.ip = x /\ a.port = y
    BY <1>2
<1> QED BY <1>7, <1>8 DEF encodeAddressPortIpV4

\* A Forwarded-NPDU: the address of the device and the NPDU behind it.
LEMMA ForwardedCanonical ==
    ASSUME NEW d \in Octets, IsFrame(d), NEW m \in ForwardedNpduDecode(d)
    PROVE  ForwardedNpduEncode(m) = {d}
<1> DEFINE q == From(d, 10)
           s == SubSeq(d, 4 + 1, 10)
<1>1. Len(d) > 10 /\ Len(d) \in Nat
    BY DEF ForwardedNpduDecode, HeaderLen, Octets
<1>2. 4 \in Nat /\ 10 \in Nat /\ 4 <= 10 /\ 10 <= Len(d) /\ Len(d) <= Len(d)
    BY <1>1
<1>3. s \in Octets
    BY <1>2, PieceOctets
<1>4. SubSeq(d, 4 + 1, 10) \o SubSeq(d, 10 + 1, Len(d)) = SubSeq(d, 4 + 1, Len(d))
    BY <1>1, <1>2, Pieces
<1>5. s \o q = From(d, 4)
    BY <1>4 DEF From
<1>6. PICK h \in HeaderOf(d, FnForwardedNPDU) :
        \E a \in decodeAddressPortIpV4(SubSeq(d, 4 + 1, 4 + 6)) :
            m = [header |-> h, origin |-> a, npdu |-> From(d, 4 + 6)]
    BY DEF ForwardedNpduDecode, HeaderLen
<1>7. PICK a \in decodeAddressPortIpV4(s) : m = [header |-> h, origin |-> a, npdu |-> q]
    BY <1>6
<1>8. encodeAddressPortIpV4(a) = s
    BY <1>3, AddressPiece
<1>9. WholeEncode(h, From(d, 4)) = {d}
    BY Rebuilt
<1> HIDE DEF q, s
<1>10. m.header = h /\ m.origin = a /\ m.npdu = q
    BY <1>7
<1> QED BY <1>5, <1>8, <1>9, <1>10, Zenon DEF ForwardedNpduEncode

\* An entry of ten octets is put back as it was read.
LEMMA EntryCanonical ==
    ASSUME NEW x \in Octets
    PROVE  /\ \A e \in FdtEntryDecode(x) : FdtEntryEncode(e) = {x}
           /\ \A e \in BdtEntryDecode(x) : BdtEntryEncode(e) = {x}
<1> DEFINE s == SubSeq(x, 1, 6)
           a == The(decodeAddressPortIpV4(s))
<1>1. ASSUME Len(x) = 10
      PROVE  /\ a \in decodeAddressPortIpV4(s) /\ encodeAddressPortIpV4(a) = s
             /\ s \o PutUint16(Uint16(x, 7)) \o PutUint16(Uint16(x, 9)) = x
             /\ s \o From(x, 6) = x
  <2>1. /\ 0 \in Nat /\ 6 \in Nat /\ 8 \in Nat /\ 10 \in Nat /\ 0 <= 6 /\ 6 <= 8 /\ 8 <= 10 /\ 6 <= 10
        /\ 6 <= Len(x) /\ 8 <= Len(x) /\ 10 <= Len(x) /\ 6 + 2 <= Len(x) /\ 8 + 2 <= Len(x)
        /\ 6 + 2 = 8 /\ 8 + 2 = 10 /\ 6 + 1 = 7 /\ 8 + 1 = 9 /\ 6 - 0 = 6 /\ 0 + 1 = 1
    BY <1>1
  <2>2. SubSeq(x, 0 + 1, 6) \in Octets /\ Len(SubSeq(x, 0 + 1, 6)) = 6 - 0
    BY <2>1, PieceOctets
  <2>3. s \in Octets /\ Len(s) = 6
    BY <2>1, <2>2
  <2>4. SubSeq(x, 6 + 1, 6 + 2) = PutUint16(Uint16(x, 6 + 1))
    BY <2>1, ShortPieces
  <2>5. SubSeq(x, 8 + 1, 8 + 2) = PutUint16(Uint16(x, 8 + 1))
    BY <2>1, ShortPieces
  <2>6. SubSeq(x, 1, 6) \o SubSeq(x, 6 + 1, 8) = SubSeq(x, 1, 8)
    BY <2>1, Split
  <2>7. SubSeq(x, 1, 8) \o SubSeq(x, 8 + 1, 10) = SubSeq(x, 1, 10)
    BY <2>1, Split
  <2>8. SubSeq(x, 1, 6) \o SubSeq(x, 6 + 1, 10) = SubSeq(x, 1, 10)
    BY <2>1, Split
  <2>9. SubSeq(x, 1, 10) = x
    BY <1>1, WholePiece
  <2>10. s \o PutUint16(Uint16(x, 7)) \o PutUint16(Uint16(x, 9)) = x
    BY <2>1, <2>4, <2>5, <2>6, <2>7, <2>9
  <2>11. s \o From(x, 6) = x
    BY <1>1, <2>8, <2>9 DEF From
  <2> HIDE DEF s
  <2>12. \E b : b \in decodeAddressPortIpV4(s)
    BY <2>3 DEF decodeAddressPortIpV4, When
  <2>13. a \in decodeAddressPortIpV4(s)
    BY <2>12, Zenon DEF The
  <2>14. encodeAddressPortIpV4(a) = s
    BY <2>3, <2>13, AddressPiece
  <2> QED BY <2>10, <2>11, <2>13, <2>14
<1> DEFINE t == Uint16(x, 7)
           r == Uint16(x, 9)
           k == From(x, 6)
<1>2. ASSUME NEW e \in FdtEntryDecode(x) PROVE FdtEntryEncode(e) = {x}
  <2>1. Len(x) = 10
    BY <1>2 DEF FdtEntryDecode, EntryLen
  <2>2. e = [address |-> a, registeredTtl |-> t, remainingTtl |-> r] /\ FdtEntryValid(e)
    BY <1>2, <2>1 DEF FdtEntryDecode, EntryLen, When, Upto
  <2>3. encodeAddressPortIpV4(a) = s /\ s \o PutUint16(t) \o PutUint16(r) = x
    BY <1>1, <2>1
  <2> HIDE DEF a, s, t, r
  <2>4. e.address = a /\ e.registeredTtl = t /\ e.remainingTtl = r
    BY <2>2
  <2>5. Is4(a)
    BY <2>2, <2>4 DEF FdtEntryValid
  <2> QED BY <2>3, <2>4, <2>5, Zenon DEF FdtEntryEncode, When
<1>3. ASSUME NEW e \in BdtEntryDecode(x) PROVE BdtEntryEncode(e) = {x}
  <2>1. Len(x) = 10
    BY <1>3 DEF BdtEntryDecode, EntryLen
  <2>2. e = [address |-> a, mask |-> k] /\ BdtEntryValid(e)
    BY <1>3, <2>1 DEF BdtEntryDecode, EntryLen, When, Upto
  <2>3. encodeAddressPortIpV4(a) = s /\ s \o k = x
    BY <1>1, <2>1
  <2> HIDE DEF a, s, k
  <2>4. e.address = a /\ e.mask = k
    BY <2>2
  <2>5. Is4(a)
    BY <2>2, <2>4 DEF BdtEntryValid
  <2> QED BY <2>3, <2>4, <2>5, Zenon DEF BdtEntryEncode, When
<1> QED BY <1>2, <1>3

\* The pieces of a string, joined again.
LEMMA JoinedPieces ==
    ASSUME NEW x \in Octets, NEW n \in Nat, Len(x) = 10 * n
    PROVE  /\ \A i \in 1 .. n : Piece(x, i) \in Octets
           /\ Joined([i \in 1 .. n |-> Piece(x, i)]) = x
<1> DEFINE P == [i \in 1 .. n |-> Piece(x, i)]
<1>1. ASSUME NEW i \in 1 .. n
      PROVE  Piece(x, i) \in Octets /\ \A j \in 1 .. 10 : Piece(x, i)[j] = x[10 * (i - 1) + j]
  <2> DEFINE b == 10 * (i - 1)
             c == 10 * i
  <2>1. b \in Nat /\ c \in Nat /\ b <= c /\ c <= Len(x) /\ c - b = 10
    OBVIOUS
  <2>2. Piece(x, i) = SubSeq(x, b + 1, c)
    BY DEF Piece, EntryLen
  <2> HIDE DEF b, c
  <2>3. SubSeq(x, b + 1, c) \in Octets /\ \A j \in 1 .. c - b : SubSeq(x, b + 1, c)[j] = x[b + j]
    BY <2>1, PieceOctets
  <2> QED BY <2>1, <2>2, <2>3 DEF b
<1>2. Len(P) = n
  <2> DEFINE S == {Piece(x, i) : i \in 1 .. n}
  <2>1. P \in [1 .. n -> S]
    OBVIOUS
  <2> HIDE DEF P, S
  <2>2. DOMAIN P = 1 .. n /\ P \in Seq(S)
    BY <2>1
  <2> QED BY <2>2
<1>3. ASSUME NEW j \in 1 .. 10 * n
      PROVE  P[(j - 1) \div 10 + 1][((j - 1) % 10) + 1] = x[j]
  <2> DEFINE i == (j - 1) \div 10 + 1
             k == ((j - 1) % 10) + 1
  <2>1. i \in 1 .. n /\ k \in 1 .. 10 /\ 10 * (i - 1) + k = j
    OBVIOUS
  <2> HIDE DEF i, k
  <2>2. P[i] = Piece(x, i)
    BY <2>1
  <2>3. Piece(x, i)[k] = x[10 * (i - 1) + k]
    BY <1>1, <2>1
  <2>4. P[i][k] = x[j]
    BY <2>1, <2>2, <2>3
  <2> QED BY <2>4 DEF i, k
<1>4. x = [j \in 1 .. 10 * n |-> x[j]]
    BY DEF Octets
<1>5. Joined(P) = [j \in 1 .. 10 * n |-> P[(j - 1) \div 10 + 1][((j - 1) % 10) + 1]]
    BY <1>2 DEF Joined, EntryLen
<1> HIDE DEF P
<1>6. Joined(P) = x
    BY <1>3, <1>4, <1>5
<1> QED BY <1>1, <1>6 DEF P

\* A list of entries, of either table, is put back as it was read.
LEMMA ListCanonical ==
    ASSUME NEW x \in Octets
    PROVE  /\ \A l \in FdtEntryListDecode(x) : FdtEntryListEncode(l) = {x}
           /\ \A l \in BdtEntryListDecode(x) : BdtEntryListEncode(l) = {x}
<1> DEFINE n == Len(x) \div 10
<1>1. Len(x) % 10 = 0 => n \in Nat /\ Len(x) = 10 * n
    BY DEF Octets
<1>2. ASSUME NEW l \in FdtEntryListDecode(x) PROVE FdtEntryListEncode(l) = {x}
  <2>1. /\ Len(x) % 10 = 0 /\ \A i \in 1 .. n : FdtEntryDecode(Piece(x, i)) # {}
        /\ l = [i \in 1 .. n |-> The(FdtEntryDecode(Piece(x, i)))]
    BY <1>2 DEF FdtEntryListDecode, EntryLen
  <2>2. n \in Nat /\ Len(x) = 10 * n
    BY <1>1, <2>1
  <2> HIDE DEF n
  <2>3. /\ \A i \in 1 .. n : Piece(x, i) \in Octets
        /\ Joined([i \in 1 .. n |-> Piece(x, i)]) = x
    BY <2>2, JoinedPieces
  <2>4. \A i \in 1 .. n : The(FdtEntryDecode(Piece(x, i))) \in FdtEntryDecode(Piece(x, i))
    BY <2>1, Zenon DEF The
  <2>5. DOMAIN l = 1 .. n
    BY <2>1
  <2>6. ASSUME NEW i \in 1 .. n PROVE FdtEntryEncode(l[i]) = {Piece(x, i)}
    <3>1. l[i] = The(FdtEntryDecode(Piece(x, i)))
      BY <2>1
    <3> QED BY <2>3, <2>4, <3>1, EntryCanonical
  <2>7. ASSUME NEW i \in 1 .. n
        PROVE  FdtEntryEncode(l[i]) # {} /\ The(FdtEntryEncode(l[i])) = Piece(x, i)
    <3> DEFINE y == Piece(x, i)
    <3>1. The({y}) = y
      BY DEF The
    <3> QED BY <2>6, <3>1, Zenon
  <2>8. [i \in DOMAIN l |-> The(FdtEntryEncode(l[i]))] = [i \in 1 .. n |-> Piece(x, i)]
    BY <2>5, <2>7, Zenon
  <2>9. ~\E i \in DOMAIN l : FdtEntryEncode(l[i]) = {}
    BY <2>5, <2>7, Zenon
  <2> QED BY <2>3, <2>8, <2>9, Zenon DEF FdtEntryListEncode
<1>3. ASSUME NEW l \in BdtEntryListDecode(x) PROVE BdtEntryListEncode(l) = {x}
  <2>1. /\ Len(x) % 10 = 0 /\ \A i \in 1 .. n : BdtEntryDecode(Piece(x, i)) # {}
        /\ l = [i \in 1 .. n |-> The(BdtEntryDecode(Piece(x, i)))]
    BY <1>3 DEF BdtEntryListDecode, EntryLen
  <2>2. n \in Nat /\ Len(x) = 10 * n
    BY <1>1, <2>1
  <2> HIDE DEF n
  <2>3. /\ \A i \in 1 .. n : Piece(x, i) \in Octets
        /\ Joined([i \in 1 .. n |-> Piece(x, i)]) = x
    BY <2>2, JoinedPieces
  <2>4. \A i \in 1 .. n : The(BdtEntryDecode(Piece(x, i))) \in BdtEntryDecode(Piece(x, i))
    BY <2>1, Zenon DEF The
  <2>5. DOMAIN l = 1 .. n
    BY <2>1
  <2>6. ASSUME NEW i \in 1 .. n PROVE BdtEntryEncode(l[i]) = {Piece(x, i)}
    <3>1. l[i] = The(BdtEntryDecode(Piece(x, i)))
      BY <2>1
    <3> QED BY <2>3, <2>4, <3>1, EntryCanonical
  <2>7. ASSUME NEW i \in 1 .. n
        PROVE  BdtEntryEncode(l[i]) # {} /\ The(BdtEntryEncode(l[i])) = Piece(x, i)
    <3> DEFINE y == Piece(x, i)
    <3>1. The({y}) = y
      BY DEF The
    <3> QED BY <2>6, <3>1, Zenon
  <2>8. [i \in DOMAIN l |-> The(BdtEntryEncode(l[i]))] = [i \in 1 .. n |-> Piece(x, i)]
    BY <2>5, <2>7, Zenon
  <2>9. ~\E i \in DOMAIN l : BdtEntryEncode(l[i]) = {}
    BY <2>5, <2>7, Zenon
  <2> QED BY <2>3, <2>8, <2>9, Zenon DEF BdtEntryListEncode
<1> QED BY <1>2, <1>3

\* The functions that carry entries of a table.
LEMMA EntriesCanonical ==
    ASSUME NEW d \in Octets, IsFrame(d)
    PROVE  /\ \A m \in WriteBDTDecode(d) : WriteBDTEncode(m) = {d}
           /\ \A m \in ReadBDTAckDecode(d) : ReadBDTAckEncode(m) = {d}
           /\ \A m \in ReadFDTAckDecode(d) : ReadFDTAckEncode(m) = {d}
           /\ \A m \in DeleteFDTEntryDecode(d) : DeleteFDTEntryEncode(m) = {d}
<1> DEFINE x == From(d, 4)
<1>0. x \in Octets
    BY FrameParts
<1>1. ASSUME NEW f, NEW h \in HeaderOf(d, f) PROVE UNION {WholeEncode(h, body) : body \in {x}} = {d}
  <2>1. WholeEncode(h, x) = {d}
    BY Rebuilt
  <2> HIDE DEF x
  <2> QED BY <2>1
<1>2. x = From(d, HeaderLen)
    BY DEF HeaderLen
<1> HIDE DEF x
<1>3. ASSUME NEW m \in WriteBDTDecode(d) PROVE WriteBDTEncode(m) = {d}
  <2>1. PICK h \in HeaderOf(d, FnWriteBDT) :
            \E l \in BdtEntryListDecode(x) : m = [header |-> h, entries |-> l]
    BY <1>2, <1>3 DEF WriteBDTDecode
  <2>2. PICK l \in BdtEntryListDecode(x) : m = [header |-> h, entries |-> l]
    BY <2>1
  <2>3. m.header = h /\ m.entries = l
    BY <2>2
  <2>4. BdtEntryListEncode(l) = {x}
    BY <1>0, ListCanonical
  <2>5. UNION {WholeEncode(h, body) : body \in {x}} = {d}
    BY <1>1
  <2> QED BY <2>3, <2>4, <2>5, Zenon DEF WriteBDTEncode
<1>4. ASSUME NEW m \in ReadBDTAckDecode(d) PROVE ReadBDTAckEncode(m) = {d}
  <2>1. PICK h \in HeaderOf(d, FnReadBDTAck) :
            \E l \in BdtEntryListDecode(x) : m = [header |-> h, entries |-> l]
    BY <1>2, <1>4 DEF ReadBDTAckDecode
  <2>2. PICK l \in BdtEntryListDecode(x) : m = [header |-> h, entries |-> l]
    BY <2>1
  <2>3. m.header = h /\ m.entries = l
    BY <2>2
  <2>4. BdtEntryListEncode(l) = {x}
    BY <1>0, ListCanonical
  <2>5. UNION {WholeEncode(h, body) : body \in {x}} = {d}
    BY <1>1
  <2> QED BY <2>3, <2>4, <2>5, Zenon DEF ReadBDTAckEncode
<1>5. ASSUME NEW m \in ReadFDTAckDecode(d) PROVE ReadFDTAckEncode(m) = {d}
  <2>1. PICK h \in HeaderOf(d, FnReadFDTAck) :
            \E l \in FdtEntryListDecode(x) : m = [header |-> h, entries |-> l]
    BY <1>2, <1>5 DEF ReadFDTAckDecode
  <2>2. PICK l \in FdtEntryListDecode(x) : m = [header |-> h, entries |-> l]
    BY <2>1
  <2>3. m.header = h /\ m.entries = l
    BY <2>2
  <2>4. FdtEntryListEncode(l) = {x}
    BY <1>0, ListCanonical
  <2>5. UNION {WholeEncode(h, body) : body \in {x}} = {d}
    BY <1>1
  <2> QED BY <2>3, <2>4, <2>5, Zenon DEF ReadFDTAckEncode
<1>6. ASSUME NEW m \in DeleteFDTEntryDecode(d) PROVE DeleteFDTEntryEncode(m) = {d}
  <2>1. PICK h \in HeaderOf(d, FnDeleteFDTEntry) :
            \E e \in FdtEntryDecode(x) : m = [header |-> h, entry |-> e]
    BY <1>2, <1>6 DEF DeleteFDTEntryDecode
  <2>2. PICK e \in FdtEntryDecode(x) : m = [header |-> h, entry |-> e]
    BY <2>1
  <2>3. m.header = h /\ m.entry = e
    BY <2>2
  <2>4. FdtEntryEncode(e) = {x}
    BY <1>0, EntryCanonical
  <2>5. UNION {WholeEncode(h, body) : body \in {x}} = {d}
    BY <1>1
  <2> QED BY <2>3, <2>4, <2>5, Zenon DEF DeleteFDTEntryEncode
<1> QED BY <1>3, <1>4, <1>5, <1>6

\* Whatever function's decoder accepts a frame, its encoder puts it back.
LEMMA ReencodedSame ==
    ASSUME NEW d \in Octets, IsFrame(d)
    PROVE  Reencoded(d) \subseteq {d}
<1> SUFFICES ASSUME NEW y \in Reencoded(d) PROVE y = d
    OBVIOUS
<1>1. \/ \E m \in BVLCResultDecode(d) : y \in BVLCResultEncode(m)
      \/ \E m \in WriteBDTDecode(d) : y \in WriteBDTEncode(m)
      \/ \E m \in ReadBDTDecode(d) : y \in ReadBDTEncode(m)
      \/ \E m \in ReadBDTAckDecode(d) : y \in ReadBDTAckEncode(m)
      \/ \E m \in ForwardedNpduDecode(d) : y \in ForwardedNpduEncode(m)
      \/ \E m \in RegisterDecode(d) : y \in RegisterEncode(m)
      \/ \E m \in ReadFDTDecode(d) : y \in ReadFDTEncode(m)
      \/ \E m \in ReadFDTAckDecode(d) : y \in ReadFDTAckEncode(m)
      \/ \E m \in DeleteFDTEntryDecode(d) : y \in DeleteFDTEntryEncode(m)
      \/ \E m \in DistributeDecode(d) : y \in DistributeEncode(m)
      \/ \E m \in OriginalUnicastDecode(d) : y \in OriginalUnicastEncode(m)
      \/ \E m \in OriginalBroadcastDecode(d) : y \in OriginalBroadcastEncode(m)
    BY DEF Reencoded
<1>2. CASE \/ \E m \in BVLCResultDecode(d) : y \in BVLCResultEncode(m)
           \/ \E m \in RegisterDecode(d) : y \in RegisterEncode(m)
           \/ \E m \in ReadBDTDecode(d) : y \in ReadBDTEncode(m)
           \/ \E m \in ReadFDTDecode(d) : y \in ReadFDTEncode(m)
    BY <1>2, FixedCanonical
<1>3. CASE \/ \E m \in WriteBDTDecode(d) : y \in WriteBDTEncode(m)
           \/ \E m \in ReadBDTAckDecode(d) : y \in ReadBDTAckEncode(m)
           \/ \E m \in ReadFDTAckDecode(d) : y \in ReadFDTAckEncode(m)
           \/ \E m \in DeleteFDTEntryDecode(d) : y \in DeleteFDTEntryEncode(m)
    BY <1>3, EntriesCanonical
<1>4. CASE \E m \in ForwardedNpduDecode(d) : y \in ForwardedNpduEncode(m)
    BY <1>4, ForwardedCanonical
<1>5. CASE \/ \E m \in DistributeDecode(d) : y \in DistributeEncode(m)
           \/ \E m \in OriginalUnicastDecode(d) : y \in OriginalUnicastEncode(m)
           \/ \E m \in OriginalBroadcastDecode(d) : y \in OriginalBroadcastEncode(m)
    BY <1>5, NpduCanonical
<1> QED BY <1>1, <1>2, <1>3, <1>4, <1>5

-----------------------------------------------------------------------------
(***************************************************************************)
(* The theorems.                                                           *)
(***************************************************************************)

\* The invariant holds of every state of the program.
THEOREM LoopInvariant == Spec => []LoopInv
<1>1. Init => LoopInv
    BY DEF Init, LoopInv, NoFrame
<1>2. LoopInv /\ [Next]_vars => LoopInv'
    BY LoopStep
<1> QED BY <1>1, <1>2, PTL DEF Spec

\* Whatever the letters and the ways of wrapping them, the ASE gets of a peer's
\* datagram what the peer meant and from whom (stack.go dispatchFrame).
THEOREM LettersArriveAsMeant == Spec => []EndToEnd
<1>1. LoopInv => EndToEnd
    BY DEF LoopInv, Told, EndToEnd
<1> QED BY <1>1, LoopInvariant, PTL

\* Every answer goes back the way its letter came, and is read as it was said.
THEOREM AnswersFindSenders == Spec => []AnswerFindsSender
<1>1. LoopInv => AnswerFindsSender
    BY DEF LoopInv, Answered, Back, AnswerFindsSender
<1> QED BY <1>1, LoopInvariant, PTL

\* Every network-layer message a constructor makes is read as it was.
THEOREM EveryMessageSurvives == Spec => []MessagesSurvive
<1>1. LoopInv => MessagesSurvive
    BY DEF LoopInv, Told, Known, Survives, MessagesSurvive
<1> QED BY <1>1, LoopInvariant, PTL

\* Nothing that dispatchFrame finds in a frame ends the receive loop, and of the
\* datagrams only those do that are longer than the buffer, or malformed and
\* refused by DecodeFrame; for all buffers, senders and datagrams.
THEOREM RunGoesOn == Spec => FramesKeepRun
<1> DEFINE Fatal == \/ conn = "closed"
                    \/ \E d \in sock : \/ Len(d.data) > MaxDatagram
                                       \/ d.msg = {} /\ DecodeFrame(d.data) = {}
           Keeps == (run.pc # "done" /\ run'.pc = "done") =>
                      /\ run.pc = "read"
                      /\ \/ conn = "closed"
                         \/ \E d \in sock : \/ Len(d.data) > MaxDatagram
                                            \/ d.msg = {} /\ DecodeFrame(d.data) = {}
<1>1. LoopInv /\ [Next]_vars => [Keeps]_vars
  <2> SUFFICES ASSUME LoopInv, Next, run.pc # "done", run'.pc = "done"
               PROVE  run.pc = "read" /\ Fatal
    OBVIOUS
  <2> DEFINE a == run.pc
             b == run.datagram
             c == run.err
  <2>0. run = [pc |-> a, datagram |-> b, err |-> c]
    BY DEF LoopInv
  <2> HIDE DEF a, b, c
  <2>1. run' # run
    OBVIOUS
  <2>2. ~(StartRun \/ Dispatch)
    <3>1. ASSUME StartRun \/ Dispatch PROVE FALSE
      <4>1. run'.pc = "read"
        BY <2>0, <3>1 DEF StartRun, Dispatch
      <4> QED BY <4>1
    <3> QED BY <3>1
  <2>3. CASE ReceiveClosed
    BY <2>3 DEF ReceiveClosed
  <2>4. CASE Receive
    <3> DEFINE d == The(sock)
               raw == IF Len(d.data) <= MaxDatagram THEN d.data ELSE Upto(d.data, MaxDatagram)
    <3>1. d \in sock /\ Waiting(d) /\ run.pc = "read"
      BY <2>4 DEF Receive, The, LoopInv
    <3>2. run' = IF DecodeFrame(raw) = {} THEN Ended
                  ELSE [run EXCEPT !.pc = "dispatch", !.datagram = {[d EXCEPT !.data = raw]}]
      BY <2>4 DEF Receive
    <3> HIDE DEF d, raw
    <3>3. DecodeFrame(raw) = {}
      <4>1. SUFFICES ASSUME DecodeFrame(raw) # {} PROVE FALSE
        OBVIOUS
      <4> DEFINE S == {[d EXCEPT !.data = raw]}
      <4>2. run' = [run EXCEPT !.pc = "dispatch", !.datagram = S]
        BY <3>2, <4>1
      <4> HIDE DEF S
      <4>3. run'.pc = "dispatch"
        BY <2>0, <4>2
      <4> QED BY <4>3
    <3>4. Len(d.data) \in Nat /\ MaxDatagram \in Nat
      BY <3>1, MaxDatagramAssumption DEF Waiting, Octets
    <3>5. CASE Len(d.data) > MaxDatagram
      BY <3>1, <3>5
    <3>6. CASE ~(Len(d.data) > MaxDatagram)
      <4>1. Len(d.data) <= MaxDatagram
        BY <3>4, <3>6
      <4>2. raw = d.data
        BY <4>1 DEF raw
      <4>3. d.msg = {} /\ DecodeFrame(d.data) = {}
        BY <3>1, <3>3, <4>2 DEF Waiting
      <4> QED BY <3>1, <4>3
    <3> QED BY <3>5, <3>6
  <2>5. CASE ~(StartRun \/ Dispatch \/ Receive \/ ReceiveClosed)
    <3>1. run' = run
      BY <2>5 DEF Next, PeerSend, PeerSendMessage, PeerSendControl, Malformed, Arrive, Lose, Watch,
                  Answer, Cancel, CloseCancel, CloseASE, CloseTransport
    <3> QED BY <2>1, <3>1
  <2> QED BY <2>2, <2>3, <2>4, <2>5
<1>2. Spec => [][Keeps]_vars
    BY <1>1, LoopInvariant, PTL DEF Spec
<1> QED BY <1>2 DEF FramesKeepRun

\* Of every datagram the loop read, malformed or not, the decoders of the
\* frame, of its function and of the NPDU keep every octet (frame.go,
\* bvlc_functions.go, npdu.go).
THEOREM OctetsAreCanonical == Spec => []Canonical
<1>1. LoopInv => Canonical
  <2> SUFFICES ASSUME LoopInv, NEW l \in last, NEW frame \in DecodeFrame(l.data)
               PROVE  /\ FrameEncode(frame) = {l.data}
                      /\ Reencoded(l.data) \subseteq {l.data}
                      /\ \A pkt \in NPDUDecode(frame.payload) :
                            NPDUEncode(pkt) = {frame.payload} /\ NPDUValid(pkt)
    BY DEF Canonical
  <2>1. l.data \in Octets
    BY DEF LoopInv, Told
  <2>2. IsFrame(l.data) /\ FrameEncode(frame) = {l.data} /\ frame.payload \in Octets
    BY <2>1, FrameCanonical
  <2>3. Reencoded(l.data) \subseteq {l.data}
    BY <2>1, <2>2, ReencodedSame
  <2>4. \A pkt \in NPDUDecode(frame.payload) : NPDUEncode(pkt) = {frame.payload} /\ NPDUValid(pkt)
    BY <2>2, NPDUCanonical
  <2> QED BY <2>2, <2>3, <2>4
<1> QED BY <1>1, LoopInvariant, PTL
===============================================================================
