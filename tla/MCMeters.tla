------------------------------ MODULE MCMeters ------------------------------
(* Instances of Meters for TLC.                                            *)
EXTENDS Meters, TLC

\* Charging and discharging.
SomePowers == {-1, 1}

Symmetry == Permutations(Loops)
=============================================================================
