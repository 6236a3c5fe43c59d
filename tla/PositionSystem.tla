-------------------------- MODULE PositionSystem --------------------------
(***************************************************************************)
(* The positions of the other players, as the client shows them to its    *)
(* game: PositionSystem of a game session.                                 *)
(*                                                                         *)
(* The game knows a player by a 16-bit local identifier.  A player gets    *)
(* one with the first position the server relays, and keeps it while       *)
(* positions come; after TTL ticks without one the identifier is free for  *)
(* another player.  The ticks, the positions of the server and those of    *)
(* the game come from three goroutines; a mutex makes each operation       *)
(* atomic, but not the two halves of a tick together.                      *)
(*                                                                         *)
(* What is sent (to the server, to the game) goes through TrySendUplink    *)
(* and TrySend, which drop it when the channel is full: nothing here       *)
(* depends on whether it arrived.                                          *)
(***************************************************************************)
EXTENDS Naturals, Sequences, FiniteSets, Functions

CONSTANTS
    Player,      \* player identifiers (of the server's packets)
    NoPlayer,    \* not a player
    Pos,         \* positions in the game, without the one with key 0xffff
    NoPos,       \* the position with key 0xffff: there is none to send
    IdLimit,     \* number of values of a local identifier, 2^16 in the code
    TTL,         \* ticks a silent player is remembered, 30 in the code
    MaxPlayers   \* bound on the players that are remembered at one time

(***************************************************************************)
(* The code has no MaxPlayers: 2^16 or more players at one time are out of *)
(* reach of a session.                                                     *)
(***************************************************************************)
ASSUME PositionAssumption ==
    /\ NoPlayer \notin Player
    /\ NoPos \notin Pos
    /\ IdLimit \in Nat \ {0}
    /\ TTL \in Nat \ {0}
    /\ MaxPlayers \in Nat
    /\ MaxPlayers < IdLimit

VARIABLES
    known,       \* the players in PositionSystem.local ...
    localId,     \* ... their LocalID ...
    ttl,         \* ... and their TTL
    free,        \* localIdFree, used as a stack
    next,        \* localIdNext
    pos,         \* the own position, to be sent with the next tick
    tick,        \* where run stands
    cancelled,   \* has Close been called?
    owner,       \* history: the last player an identifier was used for
    quiet        \* history: ticks since it was last used, at most TTL

localVars == <<known, localId, ttl, free, next>>
positionVars == <<known, localId, ttl, free, next, pos, tick, cancelled, owner, quiet>>

Id == 0..(IdLimit - 1)

TypeOK ==
    /\ known \in SUBSET Player
    /\ localId \in [Player -> Id]
    /\ ttl \in [Player -> 0..TTL]
    /\ free \in Seq(Id)
    /\ next \in Id
    /\ pos \in Pos \cup {NoPos}
    /\ tick \in {"wait", "lower", "done"}
    /\ cancelled \in BOOLEAN
    /\ owner \in [Id -> Player \cup {NoPlayer}]
    /\ quiet \in [Id -> 0..TTL]
    /\ IsFiniteSet(known) /\ Cardinality(known) <= MaxPlayers

\* createPositionSystem.  Local identifiers start at 1 (and wrap around).
Init ==
    /\ known = {}
    /\ localId = [p \in Player |-> 0]
    /\ ttl = [p \in Player |-> 0]
    /\ free = <<>>
    /\ next = 1 % IdLimit
    /\ pos = NoPos
    /\ tick = "wait"
    /\ cancelled = FALSE
    /\ owner = [i \in Id |-> NoPlayer]
    /\ quiet = [i \in Id |-> TTL]

-----------------------------------------------------------------------------
\* OnGamePos: a newer position replaces one that was not sent yet.
OnGamePos(q) ==
    /\ pos' = q
    /\ UNCHANGED <<localVars, tick, cancelled, owner, quiet>>

\* The first half of tick: sendSelfPos.
SendSelfPos ==
    /\ tick = "wait"
    /\ pos' = NoPos
    /\ tick' = "lower"
    /\ UNCHANGED <<localVars, cancelled, owner, quiet>>

\* Variant: the map holds values, and the TTL of a copy is lowered.
LowerTTLsOfCopy ==
    /\ tick = "lower"
    /\ tick' = "wait"
    /\ quiet' = [i \in Id |-> IF quiet[i] < TTL THEN quiet[i] + 1 ELSE TTL]
    /\ UNCHANGED <<localVars, pos, cancelled, owner>>

Expired == {p \in known : ttl[p] <= 1}

\* Variant: the identifier is given back, but the player stays in the map.
LowerTTLsKeeps ==
    /\ tick = "lower"
    /\ tick' = "wait"
    /\ ttl' = [p \in Player |-> IF p \in known THEN ttl[p] - 1 ELSE 0]
    /\ \E order \in Bijection(1..Cardinality(Expired), Expired) :
         free' = free \o [i \in 1..Cardinality(Expired) |-> localId[order[i]]]
    /\ quiet' = [i \in Id |-> IF quiet[i] < TTL THEN quiet[i] + 1 ELSE TTL]
    /\ UNCHANGED <<known, localId, next, pos, cancelled, owner>>

\* The second half of tick: lowerTTLs.  The players whose TTL is used up are
\* met in the order of a Go map, which is any.
LowerTTLs ==
    /\ tick = "lower"
    /\ tick' = "wait"
    /\ known' = known \ Expired
    /\ ttl' = [p \in Player |-> IF p \in known \ Expired THEN ttl[p] - 1 ELSE 0]
    /\ localId' = [p \in Player |-> IF p \in Expired THEN 0 ELSE localId[p]]
    /\ \E order \in Bijection(1..Cardinality(Expired), Expired) :
         free' = free \o [i \in 1..Cardinality(Expired) |-> localId[order[i]]]
    /\ quiet' = [i \in Id |-> IF quiet[i] < TTL THEN quiet[i] + 1 ELSE TTL]
    /\ UNCHANGED <<next, pos, cancelled, owner>>

\* A local identifier is used: the message to the game carries it.
Used(p, i) ==
    /\ owner' = [owner EXCEPT ![i] = p]
    /\ quiet' = [quiet EXCEPT ![i] = 0]

\* Variant: the identifier taken from the free list stays in it.
NewPlayerKeepsFree(p) ==
    /\ p \notin known
    /\ Cardinality(known) < MaxPlayers
    /\ LET i == IF free # <<>> THEN free[Len(free)] ELSE next IN
       /\ next' = IF free # <<>> THEN next ELSE (next + 1) % IdLimit
       /\ known' = known \cup {p}
       /\ localId' = [localId EXCEPT ![p] = i]
       /\ ttl' = [ttl EXCEPT ![p] = TTL]
       /\ Used(p, i)
    /\ UNCHANGED <<free, pos, tick, cancelled>>

\* OnServerPos, for a player that is not known: the identifier that was freed
\* last, or a new one.
NewPlayer(p) ==
    /\ p \notin known
    /\ Cardinality(known) < MaxPlayers
    /\ LET i == IF free # <<>> THEN free[Len(free)] ELSE next IN
       /\ IF free # <<>>
          THEN free' = SubSeq(free, 1, Len(free) - 1) /\ UNCHANGED next
          ELSE next' = (next + 1) % IdLimit /\ UNCHANGED free
       /\ known' = known \cup {p}
       /\ localId' = [localId EXCEPT ![p] = i]
       /\ ttl' = [ttl EXCEPT ![p] = TTL]
       /\ Used(p, i)
    /\ UNCHANGED <<pos, tick, cancelled>>

\* Variant: the TTL is not renewed.
KnownPlayerNotRenewed(p) ==
    /\ p \in known
    /\ Used(p, localId[p])
    /\ UNCHANGED <<localVars, pos, tick, cancelled>>

\* OnServerPos, for a player that is known.
KnownPlayer(p) ==
    /\ p \in known
    /\ ttl' = [ttl EXCEPT ![p] = TTL]
    /\ Used(p, localId[p])
    /\ UNCHANGED <<known, localId, free, next, pos, tick, cancelled>>

OnServerPos(p) == NewPlayer(p) \/ KnownPlayer(p)

\* Close, up to the wait for run ...
Close ==
    /\ ~cancelled
    /\ cancelled' = TRUE
    /\ UNCHANGED <<localVars, pos, tick, owner, quiet>>

\* ... which returns at its next select, or after one more tick.  Positions of
\* the server may still come: the goroutines of the uplink end later.
RunReturns ==
    /\ cancelled
    /\ tick = "wait"
    /\ tick' = "done"
    /\ UNCHANGED <<localVars, pos, cancelled, owner, quiet>>

-----------------------------------------------------------------------------
Next ==
    \/ \E q \in Pos \cup {NoPos} : OnGamePos(q)
    \/ SendSelfPos
    \/ LowerTTLs
    \/ \E p \in Player : OnServerPos(p)
    \/ Close
    \/ RunReturns

Spec == Init /\ [][Next]_positionVars

\* Fairness: the ticker of run goes on.
Fairness == WF_positionVars(SendSelfPos \/ LowerTTLs \/ RunReturns)

FairSpec == Spec /\ Fairness

-----------------------------------------------------------------------------
(***************************************************************************)
(* Properties.                                                             *)
(***************************************************************************)

\* The game never sees two players under one identifier, although identifiers
\* come from a list and from a counter that wraps, and go back to the list in
\* any order.
UniqueLocalIds ==
    \A p, q \in known : localId[p] = localId[q] => p = q

\* An identifier changes hands only when its player was silent for TTL whole
\* ticks: a position that comes between the two halves of a tick, or in the
\* last of the ticks, keeps it.
Handover ==
    [][\A i \in Id :
         owner[i] # NoPlayer /\ owner'[i] # owner[i] => quiet[i] = TTL]_positionVars

\* A player is forgotten again and again, or its positions keep coming, as
\* long as the session lasts: none keeps its identifier for ever.
Forgotten ==
    \A p \in Player :
        \/ <>cancelled
        \/ []<>(p \notin known)
        \/ []<><<OnServerPos(p)>>_positionVars

\* The identifiers handed out so far.
Issued == IF next = 0 THEN 1..(IdLimit - 1) ELSE 1..(next - 1)

\* Where the identifiers are: every one that was handed out is a player's or
\* free, once; and a counter that has come to its end is not used.
IdsAccounted ==
    /\ \A i, j \in 1..Len(free) : free[i] = free[j] => i = j
    /\ \A p \in known, i \in 1..Len(free) : localId[p] # free[i]
    /\ Issued = {localId[p] : p \in known} \cup {free[i] : i \in 1..Len(free)}

\* How long they have been silent.
QuietOK ==
    /\ \A p \in known :
         /\ ttl[p] > 0
         /\ owner[localId[p]] = p
         /\ quiet[localId[p]] + ttl[p] = TTL
    /\ \A i \in 1..Len(free) : quiet[free[i]] = TTL
    /\ \A i \in Id : owner[i] # NoPlayer => i \in Issued
=============================================================================
