---------------------------- MODULE MCSocControl ----------------------------
(* Instances of SocControl for TLC.                                        *)
EXTENDS SocControl
=============================================================================
