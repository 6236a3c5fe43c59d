-------------------------- MODULE MCPositionSystem -------------------------
(***************************************************************************)
(* The instance of PositionSystem for TLC.                                 *)
(***************************************************************************)
EXTENDS PositionSystem

CONSTANTS p1, p2, p3, p4
=============================================================================
