--------------------------- MODULE MCReplication ---------------------------
(***************************************************************************)
(* Instances of Replication for TLC.                                       *)
(***************************************************************************)
EXTENDS Replication, TLC

CONSTANTS c1, c2, k1, k2, x1, x2

\* One game produces entries, the others only receive them.
MCOneProducer == [c \in Client |-> IF c = c1 THEN Key ELSE {}]

\* Every game can produce every key: players of one world.
MCAllKeys == [c \in Client |-> Key]

(***************************************************************************)
(* With a bound on what the games hand over, the system comes to rest.     *)
(* A rest is not a deadlock when everybody is connected and idle, no send  *)
(* queue holds an entry and all WALs are equal; any other state without a  *)
(* next step is one TLC reports.                                           *)
(***************************************************************************)
AtRest ==
    /\ submits = MaxSubmits
    /\ \A c \in Client :
         /\ phase[c] = "up"
         /\ unacked[c] = NoKey
         /\ sendQ[c] = {} /\ pending[c] = {}
         /\ uplinkOut[c] = <<>> /\ uplinkIn[c] = <<>>
         /\ cwal[c] = swal
         /\ acked[c] \subseteq Keys(swal)
    /\ UNCHANGED vars

MCSpec == Init /\ [][Next \/ AtRest]_vars
MCFairSpec == MCSpec /\ Fairness

\* With MCAllKeys, clients, keys and connections are interchangeable.
MCSymmetry ==
    Permutations(Client) \cup Permutations(Key) \cup Permutations(Conn)
=============================================================================
