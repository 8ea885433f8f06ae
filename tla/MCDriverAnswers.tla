--------------------------- MODULE MCDriverAnswers ---------------------------
(* Instances of DriverAnswers for TLC.                                      *)
EXTENDS DriverAnswers

Both == BOOLEAN
=============================================================================
