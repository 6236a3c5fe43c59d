------------------------------ MODULE MCDaemon ------------------------------
(***************************************************************************)
(* The instance of Daemon for TLC.                                         *)
(***************************************************************************)
EXTENDS Daemon

CONSTANTS c1, c2, d1, d2, t1
=============================================================================
