---------------------------- MODULE MCWALStream ----------------------------
(***************************************************************************)
(* Instances of WALStream for TLC.                                         *)
(***************************************************************************)
EXTENDS WALStream

CONSTANTS s1, s2, e1, e2
=============================================================================
