--------------------------- MODULE MCSupervision ----------------------------
(* Instances of Supervision for TLC.                                       *)
EXTENDS Supervision

CONSTANTS a, b

TwoBms == {a, b}
=============================================================================
