---------------------------- MODULE MCFlushSink -----------------------------
(* Instances of FlushSink for TLC.                                         *)
EXTENDS FlushSink

CONSTANTS p1, p2, p3

ThreePoints == {p1, p2, p3}
=============================================================================
