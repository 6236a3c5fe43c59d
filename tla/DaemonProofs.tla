---------------------------- MODULE DaemonProofs ----------------------------
(***************************************************************************)
(* The daemon: the proofs.                                                 *)
(*                                                                         *)
(* A channel is closed by the connection of its client or by its own       *)
(* tracker, whichever comes first, and both may be cut short by the end of *)
(* the daemon.  SafeChannels is inductive together with where the trackers *)
(* stand: TrackersOK.                                                      *)
(***************************************************************************)
EXTENDS Daemon, TLAPS

\* A tracker that has a channel has a client, and one whose channel is open is
\* among the subscribers of that client, where client.close finds it.
TrackersOK ==
    \A t \in Tracker :
        /\ chan[t] \in {"open", "closed"} => sub[t] \in Client
        /\ chan[t] = "open" => t \in subs[sub[t]]

-----------------------------------------------------------------------------
(***************************************************************************)
(* The types, and who holds the lock and the port.                         *)
(***************************************************************************)

LEMMA TypeInit == Init => TypeOK
BY DaemonAssumption DEF Init, TypeOK

\* Taking the lock of the path, when nobody holds it, and letting go of it.
LEMMA LockTypes ==
    ASSUME TypeOK, NEW p \in Client \cup Process,
           (Unlocked /\ Lock(p)) \/ Unlock(p) \/ RemoveLock
    PROVE  /\ lock' \in [Client \cup Process -> {"none", "path", "removed"}]
           /\ \A q, r \in Client \cup Process : lock'[q] = "path" /\ lock'[r] = "path" => q = r
           /\ \A q \in Client \cup Process : q # p => (lock'[q] # "none" <=> lock[q] # "none")
           /\ Lock(p) => lock'[p] = "path"
           /\ Unlock(p) => lock'[p] = "none"
           /\ RemoveLock => (lock'[p] # "none" <=> lock[p] # "none")
<1>1. CASE Unlocked /\ Lock(p)
  BY <1>1 DEF TypeOK, Unlocked, Lock, Unlock, RemoveLock
<1>2. CASE Unlock(p)
  BY <1>2 DEF TypeOK, Lock, Unlock, RemoveLock
<1>3. CASE RemoveLock
  BY <1>3 DEF TypeOK, Lock, Unlock, RemoveLock
<1> QED
  BY <1>1, <1>2, <1>3

\* A process is a daemon or a client.
LEMMA Processes ==
    ASSUME NEW d \in Process
    PROVE  d \notin Client /\ d # None /\ d # Stale /\ d \in Client \cup Process
BY DaemonAssumption

\* A client's steps up to its connection.
LEMMA ClientTypes ==
    ASSUME TypeOK, NEW c \in Client, ClientNext(c)
    PROVE  TypeOK'
<1> USE DaemonAssumption DEF TypeOK, ClientAt, lockVars, hubVars
<1>1. CASE FindDaemon(c)
  BY <1>1 DEF FindDaemon
<1>2. CASE TakeLock(c)
  <2>1. Unlocked /\ Lock(c) /\ UNCHANGED <<socket, port, dpc, conn, handler, subs, sub, chan, kills>>
        /\ c \in Client \cup Process
    BY <1>2 DEF TakeLock
  <2>2. /\ lock' \in [Client \cup Process -> {"none", "path", "removed"}]
        /\ \A q, r \in Client \cup Process : lock'[q] = "path" /\ lock'[r] = "path" => q = r
        /\ \A q \in Client \cup Process : q # c => (lock'[q] # "none" <=> lock[q] # "none")
    BY <2>1, LockTypes
  <2>3. pc' \in [Client -> {"off", "locked", "cleaned", "released", "dial", "on"}]
    BY <1>2 DEF TakeLock
  <2>4. \A d \in Process : lock'[d] # "none" <=> lock[d] # "none"
    BY <2>2, Processes
  <2> QED
    BY <2>1, <2>2, <2>3, <2>4
<1>3. CASE RemoveSocket(c)
  BY <1>3 DEF RemoveSocket
<1>4. CASE CloseLock(c)
  <2>1. Unlock(c) /\ UNCHANGED <<socket, port, dpc, conn, handler, subs, sub, chan, kills>>
        /\ c \in Client \cup Process
    BY <1>4 DEF CloseLock
  <2>2. /\ lock' \in [Client \cup Process -> {"none", "path", "removed"}]
        /\ \A q, r \in Client \cup Process : lock'[q] = "path" /\ lock'[r] = "path" => q = r
        /\ \A q \in Client \cup Process : q # c => (lock'[q] # "none" <=> lock[q] # "none")
    BY <2>1, LockTypes
  <2>3. pc' \in [Client -> {"off", "locked", "cleaned", "released", "dial", "on"}]
    BY <1>4 DEF CloseLock
  <2>4. \A d \in Process : lock'[d] # "none" <=> lock[d] # "none"
    BY <2>2, Processes
  <2> QED
    BY <2>1, <2>2, <2>3, <2>4
<1>5. CASE LaunchDaemon(c)
  <2>1. PICK d \in Process : DaemonAt(d, "free", "boot")
    BY <1>5 DEF LaunchDaemon
  <2>2. RemoveLock /\ UNCHANGED <<socket, port, conn, handler, subs, sub, chan, kills>>
        /\ c \in Client \cup Process
    BY <1>5 DEF LaunchDaemon
  <2>3. /\ lock' \in [Client \cup Process -> {"none", "path", "removed"}]
        /\ \A q, r \in Client \cup Process : lock'[q] = "path" /\ lock'[r] = "path" => q = r
        /\ \A q \in Client \cup Process : q # c => (lock'[q] # "none" <=> lock[q] # "none")
    BY <2>2, LockTypes
  <2>4. pc' \in [Client -> {"off", "locked", "cleaned", "released", "dial", "on"}]
    BY <1>5 DEF LaunchDaemon
  <2>5. /\ dpc' \in [Process -> {"free", "boot", "locked", "cleaned", "listening", "run",
                                 "stopping", "closed", "unlocked"}]
        /\ \A e \in Process : e # d => dpc'[e] = dpc[e]
        /\ dpc[d] = "free"
    BY <2>1 DEF DaemonAt
  <2>6. \A e \in Process : lock'[e] # "none" <=> lock[e] # "none"
    BY <2>3, Processes
  <2>7. dpc'[d] = "boot"
    BY <2>1 DEF DaemonAt
  <2> QED
    BY <2>2, <2>3, <2>4, <2>5, <2>6, <2>7
<1>6. CASE Dial(c)
  BY <1>6 DEF Dial
<1>7. CASE DialFails(c) \/ DialTimeout(c) \/ ClientLeaves(c)
  BY <1>7 DEF DialFails, DialTimeout, ClientLeaves
<1> QED
  BY <1>1, <1>2, <1>3, <1>4, <1>5, <1>6, <1>7 DEF ClientNext, StartDaemon

\* The connections of a daemon whose process ends.
LEMMA HubGoneTypes ==
    ASSUME TypeOK, NEW d \in Process, HubGone(d)
    PROVE  /\ conn' \in [Client -> Process \cup {None}]
           /\ handler' \in [Client -> {"none", "backlog", "serving", "closing"}]
           /\ subs' \in [Client -> SUBSET Tracker]
           /\ sub' \in [Tracker -> Client \cup {None}]
           /\ chan' \in [Tracker -> {"none", "open", "closed", "panic"}]
           /\ \A c \in Client : conn'[c] = None <=> handler'[c] = "none"
BY DEF TypeOK, HubGone

\* The steps of Run that change only where the daemon stands, the socket and
\* the port.
LEMMA RunTypes ==
    ASSUME TypeOK, NEW d \in Process,
           \/ AlreadyLocked(d) \/ RemoveStaleSocket(d) \/ Listen(d) \/ ListenFails(d)
           \/ ListenHttp(d) \/ ListenHttpFails(d) \/ CloseListeners(d) \/ Watchdog(d)
    PROVE  TypeOK'
<1> USE DaemonAssumption DEF TypeOK, DaemonAt, lockVars, hubVars
<1>1. CASE AlreadyLocked(d)
  BY <1>1 DEF AlreadyLocked
<1>2. CASE RemoveStaleSocket(d)
  BY <1>2 DEF RemoveStaleSocket
<1>3. CASE Listen(d)
  BY <1>3 DEF Listen
<1>4. CASE ListenFails(d)
  BY <1>4 DEF ListenFails
<1>5. CASE ListenHttp(d)
  BY <1>5 DEF ListenHttp
<1>6. CASE ListenHttpFails(d)
  BY <1>6 DEF ListenHttpFails
<1>7. CASE CloseListeners(d)
  BY <1>7 DEF CloseListeners
<1>8. CASE Watchdog(d)
  BY <1>8 DEF Watchdog
<1> QED
  BY <1>1, <1>2, <1>3, <1>4, <1>5, <1>6, <1>7, <1>8

\* The steps that take the lock, let go of it or remove its file.
LEMMA RunLockTypes ==
    ASSUME TypeOK, NEW d \in Process,
           DaemonTakesLock(d) \/ DaemonCloseLock(d) \/ DaemonExits(d) \/ Killed(d)
    PROVE  TypeOK'
<1> USE DaemonAssumption DEF TypeOK, DaemonAt, lockVars, hubVars
<1>1. d \in Client \cup Process
  OBVIOUS
<1>2. (Unlocked /\ Lock(d)) \/ Unlock(d) \/ RemoveLock
  BY DEF DaemonTakesLock, DaemonCloseLock, DaemonExits, Killed
<1>3. /\ lock' \in [Client \cup Process -> {"none", "path", "removed"}]
      /\ \A q, r \in Client \cup Process : lock'[q] = "path" /\ lock'[r] = "path" => q = r
      /\ \A q \in Client \cup Process : q # d => (lock'[q] # "none" <=> lock[q] # "none")
      /\ Lock(d) => lock'[d] = "path"
      /\ Unlock(d) => lock'[d] = "none"
      /\ RemoveLock => (lock'[d] # "none" <=> lock[d] # "none")
  BY <1>1, <1>2, LockTypes
<1>4. CASE DaemonTakesLock(d)
  BY <1>3, <1>4 DEF DaemonTakesLock
<1>5. CASE DaemonCloseLock(d)
  BY <1>3, <1>5 DEF DaemonCloseLock
<1>6. CASE DaemonExits(d)
  <2>1. lock[d] = "none"
    BY <1>6 DEF DaemonExits
  <2> QED
    BY <1>3, <1>6, <2>1, HubGoneTypes DEF DaemonExits
<1>7. CASE Killed(d)
  <2>1. kills' \in 0..MaxKills
    BY <1>7 DEF Killed
  <2> QED
    BY <1>3, <1>7, <2>1, HubGoneTypes DEF Killed
<1> QED
  BY <1>4, <1>5, <1>6, <1>7

\* The connections and the trackers.
LEMMA HubTypes ==
    ASSUME TypeOK,
           \/ \E c \in Client : HubNext(c)
           \/ \E t \in Tracker : Unsubscribe(t) \/ \E c \in Client : Subscribe(t, c)
    PROVE  TypeOK'
<1> USE DaemonAssumption DEF TypeOK, HandlerAt, lockVars
<1>1. ASSUME NEW c \in Client, AcceptConn(c) \/ HandlerEnds(c)
      PROVE  TypeOK'
  BY <1>1 DEF AcceptConn, HandlerEnds
<1>2. ASSUME NEW c \in Client, CloseClient(c)
      PROVE  TypeOK'
  BY <1>2 DEF CloseClient, CloseSubs, Close
<1>3. ASSUME NEW t \in Tracker, Unsubscribe(t)
      PROVE  TypeOK'
  <2>1. subs' \in [Client -> SUBSET Tracker]
    BY <1>3 DEF Unsubscribe
  <2> QED
    BY <1>3, <2>1 DEF Unsubscribe, TrackerEnds
<1>4. ASSUME NEW t \in Tracker, NEW c \in Client, Subscribe(t, c)
      PROVE  TypeOK'
  BY <1>4 DEF Subscribe
<1> QED
  BY <1>1, <1>2, <1>3, <1>4 DEF HubNext

LEMMA TypeStep == TypeOK /\ [Next]_vars => TypeOK'
<1> SUFFICES ASSUME TypeOK, [Next]_vars PROVE TypeOK'
  OBVIOUS
<1>1. CASE UNCHANGED vars
  BY <1>1 DEF TypeOK, vars
<1> QED
  BY <1>1, ClientTypes, RunTypes, RunLockTypes, HubTypes DEF Next, RunNext

\* At most one process holds the lock of the path, a daemon holds a lock from
\* TryLock to its close, the port is that of a daemon that runs, and the other types, for any number of clients, daemons and
\* trackers.
THEOREM DaemonTypes == Spec => []TypeOK
BY TypeInit, TypeStep, PTL DEF Spec

-----------------------------------------------------------------------------
(***************************************************************************)
(* The channels of the trackers.                                           *)
(***************************************************************************)
ChannelInv == SafeChannels /\ TrackersOK

\* The end of a daemon takes the clients of its own and the trackers of these
\* clients, and no other.
LEMMA HubGoneChannels ==
    ASSUME TypeOK, ChannelInv, NEW d \in Process, HubGone(d)
    PROVE  ChannelInv'
<1> USE DEF TypeOK, ChannelInv, SafeChannels, TrackersOK
<1> DEFINE gone == {c \in Client : conn[c] = d}
<1>1. /\ \A c \in Client : subs'[c] = IF c \in gone THEN {} ELSE subs[c]
      /\ \A t \in Tracker : sub'[t] = IF sub[t] \in gone THEN None ELSE sub[t]
      /\ \A t \in Tracker : chan'[t] = IF sub[t] \in gone THEN "none" ELSE chan[t]
  BY DEF HubGone
<1> HIDE DEF gone
<1>2. SafeChannels'
  BY <1>1
<1>3. TrackersOK'
  BY <1>1
<1> QED
  BY <1>2, <1>3

\* client.close: the subscribers' channels were open, and they leave the list.
LEMMA CloseChannels ==
    ASSUME TypeOK, ChannelInv, NEW c \in Client, CloseClient(c)
    PROVE  ChannelInv'
<1> USE DEF TypeOK, ChannelInv, SafeChannels, TrackersOK
<1>1. /\ \A k \in Client : subs'[k] = IF k = c THEN {} ELSE subs[k]
      /\ \A t \in Tracker : chan'[t] = IF t \in subs[c] THEN "closed" ELSE chan[t]
      /\ sub' = sub
  BY DEF CloseClient, CloseSubs, Close
<1> QED
  BY <1>1

\* A tracker without a channel is in no list: it cannot subscribe twice.
LEMMA SubscribeChannels ==
    ASSUME TypeOK, ChannelInv, NEW t \in Tracker, NEW c \in Client, Subscribe(t, c)
    PROVE  ChannelInv'
<1>1. \A k \in Client : subs'[k] = IF k = c THEN subs[k] \cup {t} ELSE subs[k]
  BY DEF Subscribe, TypeOK
<1>2. \A u \in Tracker : chan'[u] = IF u = t THEN "open" ELSE chan[u]
  BY DEF Subscribe, TypeOK
<1>3. \A u \in Tracker : sub'[u] = IF u = t THEN c ELSE sub[u]
  BY DEF Subscribe, TypeOK
<1>4. \A k \in Client : t \notin subs[k]
  BY DEF Subscribe, ChannelInv, SafeChannels
<1>5. subs \in [Client -> SUBSET Tracker]
  BY DEF TypeOK
<1>6. SafeChannels'
  <2>1. \A u \in Tracker : chan'[u] # "panic"
    BY <1>2 DEF ChannelInv, SafeChannels
  <2>2. ASSUME NEW k \in Client, NEW u \in subs'[k] PROVE chan'[u] = "open" /\ sub'[u] = k
    <3>1. CASE u = t
      BY <1>1, <1>2, <1>3, <1>4, <2>2, <3>1
    <3>2. CASE u # t
      <4>1. u \in subs[k] /\ u \in Tracker
        BY <1>1, <1>5, <2>2, <3>2
      <4> QED
        BY <1>2, <1>3, <3>2, <4>1 DEF ChannelInv, SafeChannels
    <3> QED
      BY <3>1, <3>2
  <2> QED
    BY <2>1, <2>2 DEF SafeChannels
<1>7. TrackersOK'
  <2>1. ASSUME NEW u \in Tracker
        PROVE  /\ chan'[u] \in {"open", "closed"} => sub'[u] \in Client
               /\ chan'[u] = "open" => u \in subs'[sub'[u]]
    BY <1>1, <1>2, <1>3 DEF ChannelInv, TrackersOK
  <2> QED
    BY <2>1 DEF TrackersOK
<1> QED
  BY <1>6, <1>7 DEF ChannelInv

\* The deferred unsubscribe: the channel is still in the list, and open, or
\* client.close was first, and it is in no list.
LEMMA UnsubscribeChannels ==
    ASSUME TypeOK, ChannelInv, NEW t \in Tracker, Unsubscribe(t)
    PROVE  ChannelInv'
<1>1. PICK c \in Client : c = sub[t]
  BY DEF Unsubscribe, ChannelInv, TrackersOK
<1>2. t \in subs[c] => Close(t) # "panic"
  BY <1>1 DEF Close, ChannelInv, SafeChannels
<1>3. \A k \in Client : subs'[k] = IF k = c THEN subs[k] \ {t} ELSE subs[k]
  BY <1>1 DEF Unsubscribe, TypeOK
<1>4. \A u \in Tracker : chan'[u] = IF u = t THEN "none" ELSE chan[u]
  BY <1>1, <1>2 DEF Unsubscribe, TypeOK
<1>5. \A u \in Tracker : sub'[u] = IF u = t THEN None ELSE sub[u]
  BY DEF Unsubscribe, TrackerEnds, TypeOK
<1>6. \A k \in Client : t \notin subs'[k]
  BY <1>1, <1>3 DEF ChannelInv, SafeChannels
<1>7. subs \in [Client -> SUBSET Tracker]
  BY DEF TypeOK
<1>8. SafeChannels'
  <2>1. \A u \in Tracker : chan'[u] # "panic"
    BY <1>4 DEF ChannelInv, SafeChannels
  <2>2. ASSUME NEW k \in Client, NEW u \in subs'[k] PROVE chan'[u] = "open" /\ sub'[u] = k
    <3>1. u # t /\ u \in subs[k] /\ u \in Tracker
      BY <1>3, <1>6, <1>7, <2>2
    <3> QED
      BY <1>4, <1>5, <3>1 DEF ChannelInv, SafeChannels
  <2> QED
    BY <2>1, <2>2 DEF SafeChannels
<1>9. TrackersOK'
  <2>1. ASSUME NEW u \in Tracker
        PROVE  /\ chan'[u] \in {"open", "closed"} => sub'[u] \in Client
               /\ chan'[u] = "open" => u \in subs'[sub'[u]]
    BY <1>3, <1>4, <1>5 DEF ChannelInv, TrackersOK
  <2> QED
    BY <2>1 DEF TrackersOK
<1> QED
  BY <1>8, <1>9 DEF ChannelInv

LEMMA ChannelStep == TypeOK /\ ChannelInv /\ [Next]_vars => ChannelInv'
<1> SUFFICES ASSUME TypeOK, ChannelInv, [Next]_vars PROVE ChannelInv'
  OBVIOUS
<1>0. ASSUME UNCHANGED <<subs, sub, chan>> PROVE ChannelInv'
  BY <1>0 DEF ChannelInv, SafeChannels, TrackersOK
<1>1. CASE UNCHANGED vars
  BY <1>0, <1>1 DEF vars
<1>2. ASSUME NEW c \in Client, ClientNext(c) PROVE ChannelInv'
  BY <1>0, <1>2 DEF ClientNext, StartDaemon, FindDaemon, TakeLock, RemoveSocket, CloseLock,
     LaunchDaemon, Dial, DialFails, DialTimeout, ClientLeaves, hubVars
<1>3. ASSUME NEW c \in Client, HubNext(c) PROVE ChannelInv'
  <2>1. CASE AcceptConn(c) \/ HandlerEnds(c)
    BY <1>0, <2>1 DEF AcceptConn, HandlerEnds
  <2> QED
    BY <1>3, <2>1, CloseChannels DEF HubNext
<1>4. ASSUME NEW d \in Process, RunNext(d) \/ Watchdog(d) \/ Killed(d) PROVE ChannelInv'
  <2>1. CASE DaemonExits(d) \/ Killed(d)
    BY <2>1, HubGoneChannels DEF DaemonExits, Killed
  <2>2. CASE ~(DaemonExits(d) \/ Killed(d))
    BY <1>0, <1>4, <2>2 DEF RunNext, DaemonTakesLock, AlreadyLocked, RemoveStaleSocket, Listen,
       ListenFails, ListenHttp, ListenHttpFails, CloseListeners, DaemonCloseLock, Watchdog, hubVars
  <2> QED
    BY <2>1, <2>2
<1>5. ASSUME NEW t \in Tracker, Unsubscribe(t) \/ \E c \in Client : Subscribe(t, c)
      PROVE  ChannelInv'
  BY <1>5, UnsubscribeChannels, SubscribeChannels
<1> QED
  BY <1>1, <1>2, <1>3, <1>4, <1>5 DEF Next

\* The daemon never panics on a channel: none is closed twice, and broadcast
\* finds open ones only, for any number of clients, daemons and trackers and
\* whichever of the connection, the tracker and the daemon ends first.
THEOREM ChannelsCorrect == Spec => []SafeChannels
<1>1. Init => ChannelInv
  BY DEF Init, ChannelInv, SafeChannels, TrackersOK
<1>2. ChannelInv => SafeChannels
  BY DEF ChannelInv
<1> QED
  BY <1>1, <1>2, TypeInit, TypeStep, ChannelStep, PTL DEF Spec
=============================================================================
