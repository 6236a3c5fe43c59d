------------------------------- MODULE MCWAL -------------------------------
(***************************************************************************)
(* Instances of WAL for TLC.                                               *)
(***************************************************************************)
EXTENDS WAL, TLC

CONSTANTS e1, e2, e3

MCSymmetry == Permutations(Entry)
=============================================================================
