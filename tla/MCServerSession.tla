-------------------------- MODULE MCServerSession --------------------------
(***************************************************************************)
(* The instance of ServerSession for TLC.                                  *)
(***************************************************************************)
EXTENDS ServerSession

CONSTANTS x1, x2, g1, g2, p1, p2

\* The one state in which the server may do nothing for ever: it was stopped,
\* and every connection has been dealt with.  Any other state without a next
\* step is a deadlock.
Stopped ==
    /\ stopped
    /\ \A x \in Conn : pc[x] = "free"
    /\ UNCHANGED sessionVars

MCSpec == Init /\ [][Next \/ Stopped]_sessionVars

MCFairSpec == MCSpec /\ Fairness
=============================================================================
