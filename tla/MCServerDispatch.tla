-------------------------- MODULE MCServerDispatch --------------------------
(* An instance of ServerDispatch for TLC: with 50 bytes, two segments carry 91. *)
EXTENDS ServerDispatch

Request(k, s, assembled, accepts, segments, size) ==
    [key |-> k, service |-> s, assembled |-> assembled, accepts |-> accepts,
     maxSegments |-> segments, maxAPDU |-> size]

MCRequests ==
    {Request("k1", "s1", FALSE, TRUE, 2, 50), Request("k1", "s1", TRUE, TRUE, 4, 50),
     Request("k2", "s1", FALSE, TRUE, 2, 128)}

MCLengths == {0, 2, 91, 92}
=============================================================================
