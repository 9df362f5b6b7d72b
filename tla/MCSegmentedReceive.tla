------------------------- MODULE MCSegmentedReceive -------------------------
(* Instances of SegmentedReceive for TLC: the constants are numbers. *)
EXTENDS SegmentedReceive
=============================================================================
