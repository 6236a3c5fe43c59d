--------------------------- MODULE MCGameSession ---------------------------
(***************************************************************************)
(* The instance of GameSession for TLC.                                    *)
(***************************************************************************)
EXTENDS GameSession

\* The client was stopped, or has used up the sessions of the instance: it has
\* nothing left to do, and any other state without a next step is a deadlock.
Over == pc = "closed" /\ UNCHANGED vars

MCFairSpec == Init /\ [][Next \/ Over]_vars /\ Fairness
=============================================================================
