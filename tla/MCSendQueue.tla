---------------------------- MODULE MCSendQueue ----------------------------
(***************************************************************************)
(* Instances of SendQueue for TLC.                                         *)
(***************************************************************************)
EXTENDS SendQueue, TLC

CONSTANTS i1, i2, i3

MCSymmetry == Permutations(Id)
=============================================================================
