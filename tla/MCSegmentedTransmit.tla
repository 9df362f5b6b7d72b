------------------------ MODULE MCSegmentedTransmit ------------------------
(* Instances of SegmentedTransmit for TLC: the constants are numbers. *)
EXTENDS SegmentedTransmit
=============================================================================
