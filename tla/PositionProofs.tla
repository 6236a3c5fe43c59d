--------------------------- MODULE PositionProofs ---------------------------
(***************************************************************************)
(* The identifiers the client shows its game: the proofs.                  *)
(*                                                                         *)
(* UniqueLocalIds is not inductive: a new player may get the identifier at *)
(* the end of the free list, or the counter, which has wrapped around once *)
(* 2^16 identifiers were used.  IdsAccounted says where every identifier   *)
(* is; because fewer than IdLimit players are known, one of them is in the *)
(* free list when the counter has come to its end.  QuietOK ties the time  *)
(* an identifier has not been used to the TTL of its player.               *)
(***************************************************************************)
EXTENDS PositionSystem, FiniteSetTheorems, SequenceTheorems, TLAPS

PositionInv == TypeOK /\ UniqueLocalIds /\ IdsAccounted /\ QuietOK

LocalIds == {localId[p] : p \in known}
FreeIds == {free[i] : i \in 1..Len(free)}

\* The 16-bit counter: the identifier after i, or 0 at the end.
LEMMA NextId ==
    ASSUME NEW i \in Id, i # 0
    PROVE  (i + 1) % IdLimit = IF i + 1 = IdLimit THEN 0 ELSE i + 1
<1>1. /\ IdLimit \in Nat /\ IdLimit > 0 /\ i \in Nat /\ i + 1 <= IdLimit
  BY PositionAssumption DEF Id
<1>2. CASE i + 1 = IdLimit
  BY <1>1, <1>2
<1>3. CASE i + 1 < IdLimit
  BY <1>1, <1>3
<1> QED
  BY <1>1, <1>2, <1>3

\* createPositionSystem establishes the invariant.
LEMMA PositionInit == Init => PositionInv
<1> SUFFICES ASSUME Init PROVE PositionInv
  OBVIOUS
<1>1. IdLimit \in Nat /\ IdLimit > 0 /\ TTL \in Nat /\ TTL > 0
  BY PositionAssumption
<1>2. 1 % IdLimit = IF IdLimit = 1 THEN 0 ELSE 1
  BY <1>1
<1>3. 0 \in Id /\ next \in Id
  BY <1>1, <1>2 DEF Init, Id
<1>4. TypeOK
  BY <1>1, <1>3, FS_EmptySet, PositionAssumption DEF Init, TypeOK
<1>5. Issued = {}
  BY <1>1, <1>2 DEF Issued, Init
<1> QED
  BY <1>4, <1>5 DEF PositionInv, UniqueLocalIds, IdsAccounted, QuietOK, Init

\* Without a free identifier, the counter has not come to its end: as many
\* players as identifiers would be known.
LEMMA CounterNotUsedUp ==
    ASSUME PositionInv, free = <<>>, Cardinality(known) < MaxPlayers
    PROVE  next # 0
<1> SUFFICES ASSUME next = 0 PROVE FALSE
  OBVIOUS
<1>1. LocalIds = 1..(IdLimit - 1)
  BY DEF PositionInv, IdsAccounted, Issued, LocalIds
<1> DEFINE f == [p \in known |-> localId[p]]
<1>2. f \in Surjection(known, 1..(IdLimit - 1))
  BY <1>1 DEF Surjection, LocalIds
<1>3. IsFiniteSet(known)
  BY DEF PositionInv, TypeOK
<1>4. Cardinality(1..(IdLimit - 1)) <= Cardinality(known)
  BY <1>2, <1>3, FS_Surjection
<1>5. Cardinality(1..(IdLimit - 1)) = IF 1 > IdLimit - 1 THEN 0 ELSE IdLimit - 1 - 1 + 1
  BY FS_Interval, PositionAssumption
<1>6. Cardinality(known) \in Nat
  BY <1>3, FS_CardinalityType
<1> QED
  BY <1>4, <1>5, <1>6, PositionAssumption

\* The identifier a new player gets: nobody has it, and it was silent.
NewId == IF free # <<>> THEN free[Len(free)] ELSE next

LEMMA NewIdOK ==
    ASSUME PositionInv, Cardinality(known) < MaxPlayers
    PROVE  /\ NewId \in Id
           /\ NewId \notin LocalIds
           /\ owner[NewId] # NoPlayer => quiet[NewId] = TTL
<1>0. /\ free \in Seq(Id) /\ next \in Id /\ Len(free) \in Nat
      /\ IdLimit \in Nat
  BY PositionAssumption DEF PositionInv, TypeOK
<1>1. CASE free # <<>>
  <2>1. Len(free) \in 1..Len(free) /\ NewId = free[Len(free)]
    BY <1>0, <1>1 DEF NewId
  <2> QED
    BY <2>1, <1>0 DEF PositionInv, IdsAccounted, QuietOK, LocalIds
<1>2. CASE free = <<>>
  <2>1. NewId = next /\ next # 0
    BY <1>2, CounterNotUsedUp DEF NewId
  <2>2. next \notin Issued
    BY <2>1, <1>0 DEF Issued, Id
  <2>3. LocalIds \subseteq Issued
    BY DEF PositionInv, IdsAccounted, LocalIds
  <2> QED
    BY <2>1, <2>2, <2>3, <1>0 DEF PositionInv, QuietOK
<1> QED
  BY <1>1, <1>2

\* A stack without its top.
LEMMA ButLast ==
    ASSUME NEW S, NEW q \in Seq(S), q # <<>>
    PROVE  LET r == SubSeq(q, 1, Len(q) - 1)
           IN  /\ r \in Seq(S)
               /\ Len(r) = Len(q) - 1
               /\ \A i \in 1..Len(r) : r[i] = q[i]
<1>1. Len(q) \in Nat /\ Len(q) > 0
  OBVIOUS
<1> DEFINE n == Len(q) - 1
<1>2. n \in Nat /\ n - 1 + 1 = n /\ Len(q) = n + 1
  BY <1>1
<1> HIDE DEF n
<1>3. 1 \in Int /\ n \in Int /\ \A i \in 1..n : q[i] \in S
  BY <1>2
<1>4. /\ SubSeq(q, 1, n) \in Seq(S)
      /\ Len(SubSeq(q, 1, n)) = IF 1 <= n THEN n - 1 + 1 ELSE 0
      /\ \A i \in 1..(n - 1 + 1) : SubSeq(q, 1, n)[i] = q[1 + i - 1]
  BY <1>3, SubSeqProperties
<1>5. Len(SubSeq(q, 1, n)) = n
  BY <1>2, <1>4
<1>6. \A i \in 1..n : SubSeq(q, 1, n)[i] = q[i]
  BY <1>2, <1>4
<1> QED
  BY <1>4, <1>5, <1>6 DEF n

\* The parts of IdsAccounted.
LEMMA Accounts ==
    ASSUME PositionInv
    PROVE  /\ \A i, j \in 1..Len(free) : free[i] = free[j] => i = j
           /\ \A p \in known, i \in 1..Len(free) : localId[p] # free[i]
           /\ Issued = LocalIds \cup FreeIds
BY DEF PositionInv, IdsAccounted, LocalIds, FreeIds

\* What a new player changes, in the terms of IdsAccounted.
LEMMA NewPlayerIds ==
    ASSUME PositionInv, NEW p \in Player, NewPlayer(p)
    PROVE  /\ free' \in Seq(Id) /\ next' \in Id
           /\ Len(free') \in Nat /\ Len(free') <= Len(free)
           /\ \A i \in 1..Len(free') : free'[i] = free[i] /\ free[i] # NewId
           /\ Issued' = Issued \cup {NewId}
           /\ FreeIds \cup {NewId} = FreeIds' \cup {NewId}
           /\ NewId \in Id /\ NewId \notin LocalIds
<1>0. /\ free \in Seq(Id) /\ next \in Id /\ Len(free) \in Nat
      /\ IdLimit \in Nat /\ IdLimit > 0
  BY PositionAssumption DEF PositionInv, TypeOK
<1>1. NewId \in Id /\ NewId \notin LocalIds
  BY NewIdOK DEF NewPlayer
<1>2. CASE free # <<>>
  <2>1. free' = SubSeq(free, 1, Len(free) - 1) /\ next' = next
    BY <1>2 DEF NewPlayer
  <2>2. Len(free) > 0 /\ NewId = free[Len(free)]
    BY <1>0, <1>2 DEF NewId
  <2>3. /\ free' \in Seq(Id) /\ Len(free') = Len(free) - 1
        /\ \A i \in 1..Len(free') : free'[i] = free[i]
    BY <2>1, <1>0, <1>2, ButLast
  <2>4. \A i \in 1..Len(free') : free[i] # NewId
    BY <2>2, <2>3, <1>0, Accounts
  <2>5. NewId \in Issued /\ Issued' = Issued
    <3>1. NewId \in FreeIds
      BY <2>2, <1>0 DEF FreeIds
    <3> QED
      BY <2>1, <3>1, Accounts DEF Issued
  <2>6. FreeIds \cup {NewId} = FreeIds' \cup {NewId}
    BY <2>2, <2>3, <1>0 DEF FreeIds
  <2> QED
    BY <2>1, <2>3, <2>4, <2>5, <2>6, <1>0, <1>1
<1>3. CASE free = <<>>
  <2>1. free' = free /\ next' = (next + 1) % IdLimit /\ NewId = next
    BY <1>3 DEF NewPlayer, NewId
  <2>2. next # 0
    BY <1>3, CounterNotUsedUp DEF NewPlayer
  <2>3. next' = IF next + 1 = IdLimit THEN 0 ELSE next + 1
    BY <2>1, <2>2, <1>0, NextId
  <2>4. next' \in Id
    BY <2>3, <1>0 DEF Id
  <2>5. Issued' = Issued \cup {NewId}
    BY <2>1, <2>2, <2>3, <1>0 DEF Issued, Id
  <2> QED
    BY <2>1, <2>4, <2>5, <1>0, <1>1, <1>3 DEF FreeIds
<1> QED
  BY <1>2, <1>3

LEMMA NewPlayerStep ==
    ASSUME PositionInv, NEW p \in Player, NewPlayer(p)
    PROVE  PositionInv'
<1>0. /\ known \in SUBSET Player /\ localId \in [Player -> Id]
      /\ ttl \in [Player -> 0..TTL] /\ owner \in [Id -> Player \cup {NoPlayer}]
      /\ quiet \in [Id -> 0..TTL] /\ IsFiniteSet(known)
      /\ free \in Seq(Id) /\ Len(free) \in Nat
      /\ TTL \in Nat /\ TTL > 0 /\ MaxPlayers \in Nat
  BY PositionAssumption DEF PositionInv, TypeOK
<1>1. /\ known' = known \cup {p} /\ p \notin known
      /\ Cardinality(known) < MaxPlayers
      /\ localId' = [localId EXCEPT ![p] = NewId]
      /\ ttl' = [ttl EXCEPT ![p] = TTL]
      /\ owner' = [owner EXCEPT ![NewId] = p]
      /\ quiet' = [quiet EXCEPT ![NewId] = 0]
      /\ UNCHANGED <<pos, tick, cancelled>>
  BY DEF NewPlayer, NewId, Used
<1>2. /\ free' \in Seq(Id) /\ next' \in Id
      /\ Len(free') \in Nat /\ Len(free') <= Len(free)
      /\ \A i \in 1..Len(free') : free'[i] = free[i] /\ free[i] # NewId
      /\ Issued' = Issued \cup {NewId}
      /\ FreeIds \cup {NewId} = FreeIds' \cup {NewId}
      /\ NewId \in Id /\ NewId \notin LocalIds
  BY NewPlayerIds
<1>3. /\ \A q \in known : localId'[q] = localId[q] /\ localId[q] # NewId /\ q # p
      /\ localId'[p] = NewId
  BY <1>0, <1>1, <1>2 DEF LocalIds
<1>4. TypeOK'
  <2>1. IsFiniteSet(known') /\ Cardinality(known') <= MaxPlayers
    <3>1. Cardinality(known) \in Nat
      BY <1>0, FS_CardinalityType
    <3>2. /\ IsFiniteSet(known \cup {p})
          /\ Cardinality(known \cup {p}) = Cardinality(known) + 1
      BY <1>0, <1>1, FS_AddElement
    <3> QED
      BY <3>1, <3>2, <1>0, <1>1
  <2>2. /\ known' \in SUBSET Player /\ localId' \in [Player -> Id]
        /\ ttl' \in [Player -> 0..TTL]
        /\ owner' \in [Id -> Player \cup {NoPlayer}]
        /\ quiet' \in [Id -> 0..TTL]
    BY <1>0, <1>1, <1>2
  <2>3. pos' \in Pos \cup {NoPos} /\ tick' \in {"wait", "lower", "done"}
        /\ cancelled' \in BOOLEAN
    BY <1>1 DEF PositionInv, TypeOK
  <2> QED
    BY <2>1, <2>2, <2>3, <1>2 DEF TypeOK
<1>5. UniqueLocalIds'
  BY <1>1, <1>3 DEF PositionInv, UniqueLocalIds
<1>6. IdsAccounted'
  <2>1. \A i, j \in 1..Len(free') : free'[i] = free'[j] => i = j
    <3> TAKE i, j \in 1..Len(free')
    <3>1. i \in 1..Len(free) /\ j \in 1..Len(free)
      BY <1>0, <1>2
    <3>2. free'[i] = free[i] /\ free'[j] = free[j]
      BY <1>2
    <3>3. free[i] = free[j] => i = j
      BY <3>1, Accounts
    <3> QED
      BY <3>2, <3>3
  <2>2. \A q \in known', i \in 1..Len(free') : localId'[q] # free'[i]
    <3> TAKE q \in known', i \in 1..Len(free')
    <3>1. free'[i] = free[i] /\ free[i] # NewId /\ i \in 1..Len(free)
      BY <1>0, <1>2
    <3>2. CASE q = p
      BY <3>1, <3>2, <1>3
    <3>3. CASE q \in known
      BY <3>1, <3>3, <1>3, Accounts
    <3> QED
      BY <3>2, <3>3, <1>1
  <2>3. LocalIds' = LocalIds \cup {NewId}
    BY <1>1, <1>3 DEF LocalIds
  <2>4. Issued = LocalIds \cup FreeIds
    BY Accounts
  <2>5. Issued' = LocalIds' \cup FreeIds'
    BY <1>2, <2>3, <2>4
  <2> QED
    BY <2>1, <2>2, <2>5 DEF IdsAccounted, LocalIds, FreeIds
<1>7. QuietOK'
  <2>1. ASSUME NEW q \in known'
        PROVE  /\ ttl'[q] > 0
               /\ owner'[localId'[q]] = q
               /\ quiet'[localId'[q]] + ttl'[q] = TTL
    <3>1. CASE q = p
      BY <3>1, <1>0, <1>1, <1>2, <1>3
    <3>2. CASE q # p
      <4>1. q \in known /\ localId[q] \in Id
        BY <3>2, <1>0, <1>1
      <4> QED
        BY <4>1, <3>2, <1>0, <1>1, <1>2, <1>3 DEF PositionInv, QuietOK
    <3> QED
      BY <3>1, <3>2
  <2>2. \A i \in 1..Len(free') : quiet'[free'[i]] = TTL
    <3> TAKE i \in 1..Len(free')
    <3>1. i \in 1..Len(free) /\ free[i] \in Id /\ free[i] # NewId /\ free'[i] = free[i]
      BY <1>0, <1>2
    <3> QED
      BY <3>1, <1>0, <1>1 DEF PositionInv, QuietOK
  <2>3. \A i \in Id : owner'[i] # NoPlayer => i \in Issued'
    BY <1>0, <1>1, <1>2 DEF PositionInv, QuietOK
  <2> QED
    BY <2>1, <2>2, <2>3 DEF QuietOK
<1> QED
  BY <1>4, <1>5, <1>6, <1>7 DEF PositionInv

LEMMA KnownPlayerStep ==
    ASSUME PositionInv, NEW p \in Player, KnownPlayer(p)
    PROVE  PositionInv'
<1>0. /\ known \in SUBSET Player /\ localId \in [Player -> Id]
      /\ ttl \in [Player -> 0..TTL] /\ owner \in [Id -> Player \cup {NoPlayer}]
      /\ quiet \in [Id -> 0..TTL] /\ free \in Seq(Id) /\ Len(free) \in Nat
      /\ TTL \in Nat /\ TTL > 0
  BY PositionAssumption DEF PositionInv, TypeOK
<1>1. /\ p \in known /\ localId[p] \in Id
      /\ ttl' = [ttl EXCEPT ![p] = TTL]
      /\ owner' = [owner EXCEPT ![localId[p]] = p]
      /\ quiet' = [quiet EXCEPT ![localId[p]] = 0]
      /\ UNCHANGED <<known, localId, free, next, pos, tick, cancelled>>
  BY <1>0 DEF KnownPlayer, Used
<1>2. TypeOK'
  BY <1>0, <1>1 DEF PositionInv, TypeOK
<1>3. UniqueLocalIds' /\ IdsAccounted'
  BY <1>1 DEF PositionInv, UniqueLocalIds, IdsAccounted, Issued
<1>4. QuietOK'
  <2>1. ASSUME NEW q \in known
        PROVE  /\ ttl'[q] > 0
               /\ owner'[localId[q]] = q
               /\ quiet'[localId[q]] + ttl'[q] = TTL
    <3>1. CASE q = p
      BY <3>1, <1>0, <1>1
    <3>2. CASE q # p
      <4>1. localId[q] # localId[p] /\ localId[q] \in Id
        BY <3>2, <1>0, <1>1 DEF PositionInv, UniqueLocalIds
      <4> QED
        BY <4>1, <3>2, <1>0, <1>1 DEF PositionInv, QuietOK
    <3> QED
      BY <3>1, <3>2
  <2>2. \A i \in 1..Len(free) : quiet'[free[i]] = TTL
    <3> TAKE i \in 1..Len(free)
    <3>1. free[i] \in Id /\ free[i] # localId[p]
      BY <1>0, <1>1, Accounts
    <3> QED
      BY <3>1, <1>0, <1>1 DEF PositionInv, QuietOK
  <2>3. \A i \in Id : owner'[i] # NoPlayer => i \in Issued'
    <3>1. owner[localId[p]] = p /\ NoPlayer \notin Player /\ Issued' = Issued
      BY <1>1, PositionAssumption DEF PositionInv, QuietOK, Issued
    <3> QED
      BY <3>1, <1>0, <1>1 DEF PositionInv, QuietOK
  <2> QED
    BY <2>1, <2>2, <2>3, <1>1 DEF QuietOK
<1> QED
  BY <1>2, <1>3, <1>4 DEF PositionInv

\* The identifiers of the players that time out, in any order, after those
\* that are free.
LEMMA LowerTTLsIds ==
    ASSUME PositionInv, LowerTTLs
    PROVE  /\ free' \in Seq(Id)
           /\ \A i, j \in 1..Len(free') : free'[i] = free'[j] => i = j
           /\ \A i \in 1..Len(free') :
                \/ free'[i] \in FreeIds
                \/ \E p \in Expired : free'[i] = localId[p]
           /\ FreeIds' = FreeIds \cup {localId[p] : p \in Expired}
<1> DEFINE n == Cardinality(Expired)
<1>0. /\ free \in Seq(Id) /\ Len(free) \in Nat
      /\ known \in SUBSET Player /\ localId \in [Player -> Id]
      /\ Expired \in SUBSET known
  BY DEF PositionInv, TypeOK, Expired
<1>1. n \in Nat
  BY <1>0, FS_Subset, FS_CardinalityType DEF PositionInv, TypeOK
<1>2. PICK order \in Bijection(1..n, Expired) :
          free' = free \o [i \in 1..n |-> localId[order[i]]]
  BY DEF LowerTTLs
<1>3. /\ order \in [1..n -> Expired]
      /\ \A i, j \in 1..n : order[i] = order[j] => i = j
      /\ \A p \in Expired : \E i \in 1..n : order[i] = p
  BY <1>2 DEF Bijection, Injection, Surjection, IsInjective
<1> DEFINE g == [i \in 1..n |-> localId[order[i]]]
<1> HIDE DEF n
<1>4. /\ g \in Seq(Id) /\ Len(g) = n
      /\ \A i \in 1..n : g[i] = localId[order[i]] /\ order[i] \in Expired
  BY <1>0, <1>1, <1>3
<1>5. free' = free \o g
  BY <1>2
<1> HIDE DEF g
<1> DEFINE m == Len(free)
<1>6. /\ free' \in Seq(Id) /\ Len(free') = m + n
      /\ \A i \in 1..m : free'[i] = free[i]
      /\ \A i \in (m + 1)..(m + n) : free'[i] = g[i - m] /\ i - m \in 1..n
  <2>1. free' \in Seq(Id) /\ Len(free') = m + n
    BY <1>0, <1>1, <1>4, <1>5, ConcatProperties
  <2>2. \A i \in 1..(m + n) :
            free'[i] = IF i <= m THEN free[i] ELSE g[i - m]
    BY <1>0, <1>1, <1>4, <1>5, ConcatProperties
  <2>3. /\ \A i \in 1..m : i \in 1..(m + n) /\ i <= m
        /\ \A i \in (m + 1)..(m + n) :
             i \in 1..(m + n) /\ ~(i <= m) /\ i - m \in 1..n
    BY <1>0, <1>1
  <2> QED
    BY <2>1, <2>2, <2>3
<1>7. m \in Nat
  BY <1>0
<1> HIDE DEF m
<1>8. \A i \in 1..(m + n) : i \in 1..m \/ i \in (m + 1)..(m + n)
  BY <1>1, <1>7
<1>9. \A i, j \in 1..(m + n) : free'[i] = free'[j] => i = j
  <2> SUFFICES ASSUME NEW i \in 1..(m + n), NEW j \in 1..(m + n), free'[i] = free'[j]
               PROVE  i = j
    OBVIOUS
  <2>0. /\ \A k, l \in 1..m : free[k] = free[l] => k = l
        /\ \A p \in known, k \in 1..m : localId[p] # free[k]
        /\ \A p, q \in known : localId[p] = localId[q] => p = q
    BY Accounts DEF PositionInv, UniqueLocalIds, m
  <2>1. CASE i \in 1..m /\ j \in 1..m
    BY <2>0, <2>1, <1>6
  <2>2. CASE i \in 1..m /\ j \in (m + 1)..(m + n)
    BY <2>0, <2>2, <1>0, <1>4, <1>6
  <2>3. CASE j \in 1..m /\ i \in (m + 1)..(m + n)
    BY <2>0, <2>3, <1>0, <1>4, <1>6
  <2>4. CASE i \in (m + 1)..(m + n) /\ j \in (m + 1)..(m + n)
    <3>1. /\ i - m \in 1..n /\ j - m \in 1..n
          /\ localId[order[i - m]] = localId[order[j - m]]
          /\ order[i - m] \in known /\ order[j - m] \in known
      BY <2>4, <1>0, <1>4, <1>6
    <3>2. i - m = j - m
      BY <3>1, <2>0, <1>3
    <3> QED
      BY <3>2, <1>1, <1>7
  <2> QED
    BY <2>1, <2>2, <2>3, <2>4, <1>8
<1>10. \A i \in 1..(m + n) :
          free'[i] \in FreeIds \/ \E p \in Expired : free'[i] = localId[p]
  <2> TAKE i \in 1..(m + n)
  <2>1. CASE i \in 1..m
    BY <2>1, <1>6 DEF FreeIds, m
  <2>2. CASE i \in (m + 1)..(m + n)
    BY <2>2, <1>4, <1>6
  <2> QED
    BY <2>1, <2>2, <1>8
<1>11. FreeIds \subseteq FreeIds'
  <2>1. \A i \in 1..m : i \in 1..Len(free') /\ free'[i] = free[i]
    BY <1>1, <1>6, <1>7
  <2> QED
    BY <2>1 DEF FreeIds, m
<1>12. \A p \in Expired : localId[p] \in FreeIds'
  <2> TAKE p \in Expired
  <2>1. PICK i \in 1..n : order[i] = p
    BY <1>3
  <2>2. PICK k \in (m + 1)..(m + n) : k - m = i /\ k \in 1..(m + n)
    <3>1. /\ m + i \in (m + 1)..(m + n) /\ m + i \in 1..(m + n)
          /\ (m + i) - m = i
      BY <1>1, <1>7
    <3> QED
      BY <3>1
  <2>3. free'[k] = localId[p]
    BY <2>1, <2>2, <1>4, <1>6
  <2> QED
    BY <2>2, <2>3, <1>6 DEF FreeIds
<1>13. FreeIds' \subseteq FreeIds \cup {localId[p] : p \in Expired}
  BY <1>6, <1>10 DEF FreeIds
<1> QED
  BY <1>6, <1>9, <1>10, <1>11, <1>12, <1>13

LEMMA LowerTTLsStep ==
    ASSUME PositionInv, LowerTTLs
    PROVE  PositionInv'
<1>0. /\ known \in SUBSET Player /\ localId \in [Player -> Id]
      /\ ttl \in [Player -> 0..TTL] /\ owner \in [Id -> Player \cup {NoPlayer}]
      /\ quiet \in [Id -> 0..TTL] /\ free \in Seq(Id) /\ Len(free) \in Nat
      /\ TTL \in Nat /\ TTL > 0 /\ IdLimit \in Nat /\ IdLimit > 0
      /\ MaxPlayers \in Nat
      /\ IsFiniteSet(known) /\ Cardinality(known) <= MaxPlayers
  BY PositionAssumption DEF PositionInv, TypeOK
<1>1. /\ known' = known \ Expired
      /\ ttl' = [p \in Player |-> IF p \in known \ Expired THEN ttl[p] - 1 ELSE 0]
      /\ localId' = [p \in Player |-> IF p \in Expired THEN 0 ELSE localId[p]]
      /\ quiet' = [i \in Id |-> IF quiet[i] < TTL THEN quiet[i] + 1 ELSE TTL]
      /\ tick' = "wait"
      /\ UNCHANGED <<next, pos, cancelled, owner>>
  BY DEF LowerTTLs
<1>2. /\ free' \in Seq(Id) /\ Len(free') \in Nat
      /\ \A i, j \in 1..Len(free') : free'[i] = free'[j] => i = j
      /\ \A i \in 1..Len(free') :
           free'[i] \in FreeIds \/ \E p \in Expired : free'[i] = localId[p]
      /\ FreeIds' = FreeIds \cup {localId[p] : p \in Expired}
  BY LowerTTLsIds
<1>3. /\ Expired \subseteq known
      /\ \A p \in known \ Expired : p \in Player /\ localId'[p] = localId[p]
      /\ \A p \in known \ Expired : ttl[p] > 1 /\ ttl'[p] = ttl[p] - 1
      /\ \A p \in Expired : ttl[p] = 1
  <2>1. \A p \in known : ttl[p] \in 0..TTL /\ ttl[p] > 0
    BY <1>0 DEF PositionInv, QuietOK
  <2> QED
    BY <2>1, <1>0, <1>1 DEF Expired
<1>4. TypeOK'
  <2>1. IsFiniteSet(known') /\ Cardinality(known') <= MaxPlayers
    <3>1. known' \in SUBSET known
      BY <1>1
    <3>2. IsFiniteSet(known') /\ Cardinality(known') <= Cardinality(known)
      BY <3>1, <1>0, FS_Subset
    <3>3. Cardinality(known') \in Nat /\ Cardinality(known) \in Nat
      BY <3>2, <1>0, FS_CardinalityType
    <3> QED
      BY <3>2, <3>3, <1>0
  <2>2. 0 \in Id
    BY <1>0 DEF Id
  <2>3. localId' \in [Player -> Id]
    BY <2>2, <1>0, <1>1
  <2>4. ttl' \in [Player -> 0..TTL]
    <3>1. \A p \in known \ Expired : ttl[p] \in 0..TTL /\ ttl[p] > 1
      BY <1>0, <1>3
    <3>2. \A p \in known \ Expired : ttl[p] - 1 \in 0..TTL
      BY <3>1, <1>0
    <3>3. 0 \in 0..TTL
      BY <1>0
    <3> QED
      BY <3>2, <3>3, <1>1
  <2>5. quiet' \in [Id -> 0..TTL]
    BY <1>0, <1>1
  <2>6. pos' \in Pos \cup {NoPos} /\ next' \in Id /\ cancelled' \in BOOLEAN
        /\ known' \in SUBSET Player /\ owner' \in [Id -> Player \cup {NoPlayer}]
        /\ tick' \in {"wait", "lower", "done"}
    BY <1>1 DEF PositionInv, TypeOK
  <2> QED
    BY <2>1, <2>3, <2>4, <2>5, <2>6, <1>2 DEF TypeOK
<1>5. UniqueLocalIds'
  BY <1>1, <1>3 DEF PositionInv, UniqueLocalIds
<1>6. IdsAccounted'
  <2>1. \A p \in known', i \in 1..Len(free') : localId'[p] # free'[i]
    <3> TAKE p \in known', i \in 1..Len(free')
    <3>1. p \in known /\ p \notin Expired /\ localId'[p] = localId[p]
      BY <1>1, <1>3
    <3>2. localId[p] \notin FreeIds
      BY <3>1, Accounts DEF FreeIds
    <3>3. \A q \in Expired : localId[q] # localId[p]
      BY <3>1, <1>3 DEF PositionInv, UniqueLocalIds
    <3> QED
      BY <3>1, <3>2, <3>3, <1>2
  <2>2. LocalIds \cup FreeIds = LocalIds' \cup FreeIds'
    <3>1. LocalIds' = {localId[p] : p \in known \ Expired}
      BY <1>1, <1>3 DEF LocalIds
    <3>2. LocalIds = {localId[p] : p \in known \ Expired} \cup {localId[p] : p \in Expired}
      BY <1>3 DEF LocalIds
    <3> QED
      BY <3>1, <3>2, <1>2
  <2>3. Issued' = LocalIds' \cup FreeIds'
    BY <2>2, <1>1, Accounts DEF Issued
  <2> QED
    BY <2>1, <2>3, <1>2 DEF IdsAccounted, LocalIds, FreeIds
<1>7. QuietOK'
  <2>1. ASSUME NEW p \in known'
        PROVE  /\ ttl'[p] > 0
               /\ owner'[localId'[p]] = p
               /\ quiet'[localId'[p]] + ttl'[p] = TTL
    <3>1. /\ p \in known \ Expired /\ localId[p] \in Id /\ p \in Player
          /\ localId'[p] = localId[p] /\ ttl[p] > 1 /\ ttl'[p] = ttl[p] - 1
          /\ ttl[p] \in 0..TTL /\ quiet[localId[p]] \in 0..TTL
      BY <1>0, <1>1, <1>3
    <3>2. /\ quiet[localId[p]] + ttl[p] = TTL
          /\ owner[localId[p]] = p
      BY <3>1 DEF PositionInv, QuietOK
    <3>3. quiet'[localId[p]] = quiet[localId[p]] + 1
      BY <3>1, <3>2, <1>0, <1>1
    <3>4. owner' = owner
      BY <1>1
    <3>5. (quiet[localId[p]] + 1) + (ttl[p] - 1) = TTL /\ ttl[p] - 1 > 0
      BY <3>1, <3>2, <1>0
    <3> QED
      BY <3>1, <3>2, <3>3, <3>4, <3>5
  <2>2. \A i \in 1..Len(free') : quiet'[free'[i]] = TTL
    <3> TAKE i \in 1..Len(free')
    <3>0. free'[i] \in Id
      BY <1>2
    <3>1. CASE free'[i] \in FreeIds
      <4>1. quiet[free'[i]] = TTL
        BY <3>1 DEF PositionInv, QuietOK, FreeIds
      <4> QED
        BY <4>1, <3>0, <1>0, <1>1
    <3>2. CASE \E p \in Expired : free'[i] = localId[p]
      <4>1. PICK p \in Expired : free'[i] = localId[p]
        BY <3>2
      <4>2. quiet[localId[p]] + ttl[p] = TTL /\ ttl[p] = 1
        BY <1>3 DEF PositionInv, QuietOK
      <4>3. quiet[free'[i]] + 1 = TTL /\ quiet[free'[i]] \in 0..TTL
        BY <4>1, <4>2, <3>0, <1>0
      <4> QED
        BY <4>3, <3>0, <1>0, <1>1
    <3> QED
      BY <3>1, <3>2, <1>2
  <2>3. \A i \in Id : owner'[i] # NoPlayer => i \in Issued'
    BY <1>1 DEF PositionInv, QuietOK, Issued
  <2> QED
    BY <2>1, <2>2, <2>3 DEF QuietOK
<1> QED
  BY <1>4, <1>5, <1>6, <1>7 DEF PositionInv

\* Every step keeps the invariant.
LEMMA PositionStep == PositionInv /\ [Next]_positionVars => PositionInv'
<1> SUFFICES ASSUME PositionInv, [Next]_positionVars PROVE PositionInv'
  OBVIOUS
<1>1. CASE LowerTTLs
  BY <1>1, LowerTTLsStep
<1>2. CASE \E p \in Player : OnServerPos(p)
  BY <1>2, NewPlayerStep, KnownPlayerStep DEF OnServerPos
<1>3. ASSUME UNCHANGED <<localVars, owner, quiet>>, pos' \in Pos \cup {NoPos},
             tick' \in {"wait", "lower", "done"}, cancelled' \in BOOLEAN
      PROVE  PositionInv'
  <2>1. TypeOK'
    BY <1>3 DEF PositionInv, TypeOK, localVars
  <2>2. UniqueLocalIds' /\ IdsAccounted' /\ QuietOK'
    BY <1>3 DEF PositionInv, UniqueLocalIds, IdsAccounted, QuietOK, Issued, localVars
  <2> QED
    BY <2>1, <2>2 DEF PositionInv
<1>4. /\ pos \in Pos \cup {NoPos} /\ tick \in {"wait", "lower", "done"}
      /\ cancelled \in BOOLEAN
  BY DEF PositionInv, TypeOK
<1>5. CASE \E q \in Pos \cup {NoPos} : OnGamePos(q)
  BY <1>3, <1>4, <1>5 DEF OnGamePos
<1>6. CASE SendSelfPos \/ Close \/ RunReturns
  BY <1>3, <1>4, <1>6 DEF SendSelfPos, Close, RunReturns
<1>7. CASE UNCHANGED positionVars
  BY <1>3, <1>4, <1>7 DEF positionVars, localVars
<1> QED
  BY <1>1, <1>2, <1>5, <1>6, <1>7 DEF Next

LEMMA PositionInvariance == Spec => []PositionInv
BY PositionInit, PositionStep, PTL DEF Spec

\* The state of the position system keeps its types: identifiers stay within
\* 16 bits, and TTLs do not go below zero.
THEOREM PositionTypes == Spec => []TypeOK
<1>1. PositionInv => TypeOK
  BY DEF PositionInv
<1> QED
  BY <1>1, PositionInvariance, PTL

\* The game never sees two players under one identifier, for every size of
\* the identifiers and every TTL, as long as fewer players are remembered than
\* there are identifiers.
THEOREM LocalIdsUnique == Spec => []UniqueLocalIds
<1>1. PositionInv => UniqueLocalIds
  BY DEF PositionInv
<1> QED
  BY <1>1, PositionInvariance, PTL

\* A player's identifier passes to another player only after TTL whole ticks
\* in which OnServerPos was not called for it.
THEOREM HandoverAfterSilence == Spec => Handover
<1> DEFINE Silent == \A i \in Id : owner[i] # NoPlayer /\ owner'[i] # owner[i]
                                   => quiet[i] = TTL
<1>1. PositionInv /\ [Next]_positionVars => [Silent]_positionVars
  <2> SUFFICES ASSUME PositionInv, Next, NEW i \in Id, owner[i] # NoPlayer,
                      owner'[i] # owner[i]
               PROVE  quiet[i] = TTL
    OBVIOUS
  <2>0. owner \in [Id -> Player \cup {NoPlayer}] /\ localId \in [Player -> Id]
    BY DEF PositionInv, TypeOK
  <2>1. PICK p \in Player : NewPlayer(p) \/ KnownPlayer(p)
    BY DEF Next, OnServerPos, OnGamePos, SendSelfPos, LowerTTLs, Close, RunReturns
  <2>2. CASE NewPlayer(p)
    <3>1. i = NewId
      BY <2>0, <2>2 DEF NewPlayer, NewId, Used
    <3> QED
      BY <3>1, <2>2, NewIdOK DEF NewPlayer
  <2>3. CASE KnownPlayer(p)
    <3>1. owner[localId[p]] = p /\ owner' = [owner EXCEPT ![localId[p]] = p]
      BY <2>3 DEF KnownPlayer, Used, PositionInv, QuietOK
    <3> QED
      BY <3>1, <2>0
  <2> QED
    BY <2>1, <2>2, <2>3
<1> QED
  BY <1>1, PositionInvariance, PTL DEF Spec, Handover
=============================================================================
