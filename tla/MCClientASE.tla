---------------------------- MODULE MCClientASE ----------------------------
(* Instances of ClientASE for TLC. *)
EXTENDS ClientASE

CONSTANTS c1, c2, p1, s1, s2

\* Every call is made to the same peer, so that only the invoke ID and the
\* service tell answers apart.
PeerSame == [c \in Calls |-> p1]

\* Both calls ask for the same service, or for different ones.
ServiceSame == [c \in Calls |-> s1]
ServiceOther == [c \in Calls |-> IF c = c1 THEN s1 ELSE s2]
=============================================================================
