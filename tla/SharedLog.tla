----------------------------- MODULE SharedLog -----------------------------
(***************************************************************************)
(* What the replication of a session's WAL promises, without queues,       *)
(* connections or faults: one log that only grows, in which a              *)
(* deduplication key occurs once and every entry was handed over by a      *)
(* game; and for every client a copy that grows by exactly the next entry  *)
(* of the log.                                                             *)
(***************************************************************************)
EXTENDS Naturals, Sequences

CONSTANTS Client, Key

VARIABLES
    log,         \* the log of the session
    learned,     \* each client's copy
    submitted,   \* the entries the games handed over
    acked        \* the keys acknowledged to each game

sharedVars == <<log, learned, submitted, acked>>

LogKeys == {log[i].key : i \in 1..Len(log)}

Init ==
    /\ log = <<>>
    /\ learned = [c \in Client |-> <<>>]
    /\ submitted = {}
    /\ acked = [c \in Client |-> {}]

Submit(c, k) ==
    /\ submitted' = submitted \cup {[key |-> k, player |-> c]}
    /\ UNCHANGED <<log, learned, acked>>

Acknowledge(c, k) ==
    /\ [key |-> k, player |-> c] \in submitted
    /\ acked' = [acked EXCEPT ![c] = @ \cup {k}]
    /\ UNCHANGED <<log, learned, submitted>>

Commit ==
    /\ \E e \in submitted : e.key \notin LogKeys /\ log' = Append(log, e)
    /\ UNCHANGED <<learned, submitted, acked>>

Learn(c) ==
    /\ Len(learned[c]) < Len(log)
    /\ learned' = [learned EXCEPT ![c] = Append(@, log[Len(@) + 1])]
    /\ UNCHANGED <<log, submitted, acked>>

Next ==
    \/ \E c \in Client, k \in Key : Submit(c, k) \/ Acknowledge(c, k)
    \/ Commit
    \/ \E c \in Client : Learn(c)

Spec == Init /\ [][Next]_sharedVars
=============================================================================
