-------------------------------- MODULE Octets --------------------------------
(***************************************************************************)
(* Octet strings, as the codecs of packages bip, npdu and apdu use them.   *)
(* A string is a sequence over Octet.  An operation that returns a value   *)
(* or an error returns a set: {v} for the value v, {} for the error.       *)
(* A nil pointer is {} and a pointer to v is {v}.                          *)
(***************************************************************************)
EXTENDS Integers, Sequences

Octet == 0 .. 255
MaxUint16 == 65535

\* encoding/binary: BigEndian.PutUint16 and BigEndian.Uint16 at an offset.
PutUint16(n) == <<n \div 256, n % 256>>
Uint16(s, at) == 256 * s[at] + s[at + 1]

\* The bit with value b (a power of two) of octet o.
Bit(o, b) == (o \div b) % 2 = 1

\* The bit with value b when it is set, as an addend.
Flag(set, b) == IF set THEN b ELSE 0

\* s[k:] and s[:k] of the code.
From(s, k) == SubSeq(s, k + 1, Len(s))
Upto(s, k) == SubSeq(s, 1, k)

\* What a call that may fail returns when its condition holds.
When(cond, v) == IF cond THEN {v} ELSE {}

The(S) == CHOOSE v \in S : TRUE
===============================================================================
