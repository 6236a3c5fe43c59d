------------------------------- MODULE Daemon -------------------------------
(***************************************************************************)
(* The daemon that clients share on a machine, and how they start it:      *)
(* ensureDaemonStarted and Connect in a client, Run, the watchdog and      *)
(* handleConnection in the daemon, and the subscribers of its events.      *)
(*                                                                         *)
(* Processes meet in the file system: a lock file, a socket, and a TCP     *)
(* port.  Whoever removes the lock file leaves its holder with a lock      *)
(* nobody else can see, so that more than one daemon process can run; the  *)
(* port then tells them apart.  Of the lock file, what matters is whether  *)
(* a process holds the lock of the file at the path, or of one that was    *)
(* removed.                                                                *)
(***************************************************************************)
EXTENDS Naturals, FiniteSets

CONSTANTS
    Client,      \* client processes (used again when nothing refers to them)
    Process,     \* daemon processes (likewise)
    Tracker,     \* subscribers to the events of a client
    None,        \* no process, no client
    Stale,       \* a socket whose process is gone
    MaxKills     \* bound on the daemons that are killed in a behaviour

ASSUME DaemonAssumption ==
    /\ Client \cap Process = {}
    /\ {None, Stale} \cap (Client \cup Process) = {}
    /\ None # Stale
    /\ MaxKills \in Nat

VARIABLES
    lock,        \* what each process holds: no lock, that of the path, another
    socket,      \* whose socket is at daemonSocketPath
    port,        \* who listens on the TCP port
    pc,          \* where Connect of a client stands
    dpc,         \* where Run of a daemon stands
    conn,        \* the daemon a client is connected to
    handler,     \* where the daemon stands with the connection
    subs,        \* client.subs
    sub,         \* the client a tracker is subscribed to ...
    chan,        \* ... and its channel
    kills        \* daemons killed so far

lockVars == <<lock, socket, port>>
hubVars == <<conn, handler, subs, sub, chan>>
vars == <<lock, socket, port, pc, dpc, conn, handler, subs, sub, chan, kills>>

TypeOK ==
    /\ lock \in [Client \cup Process -> {"none", "path", "removed"}]
    /\ socket \in Process \cup {None, Stale}
    /\ port \in Process \cup {None}
    /\ pc \in [Client -> {"off", "locked", "cleaned", "released", "dial", "on"}]
    /\ dpc \in [Process -> {"free", "boot", "locked", "cleaned", "listening", "run",
                            "stopping", "closed", "unlocked"}]
    /\ conn \in [Client -> Process \cup {None}]
    /\ handler \in [Client -> {"none", "backlog", "serving", "closing"}]
    /\ subs \in [Client -> SUBSET Tracker]
    /\ sub \in [Tracker -> Client \cup {None}]
    /\ chan \in [Tracker -> {"none", "open", "closed", "panic"}]
    /\ kills \in 0..MaxKills
    /\ \A c \in Client : conn[c] = None <=> handler[c] = "none"
    /\ \A d \in Process : lock[d] # "none" <=>
         dpc[d] \in {"locked", "cleaned", "listening", "run", "stopping", "closed"}
    /\ \A p, q \in Client \cup Process : lock[p] = "path" /\ lock[q] = "path" => p = q
    /\ port # None => dpc[port] \in {"run", "stopping"}

Init ==
    /\ lock = [p \in Client \cup Process |-> "none"]
    /\ socket = None
    /\ port = None
    /\ pc = [c \in Client |-> "off"]
    /\ dpc = [d \in Process |-> "free"]
    /\ conn = [c \in Client |-> None]
    /\ handler = [c \in Client |-> "none"]
    /\ subs = [c \in Client |-> {}]
    /\ sub = [t \in Tracker |-> None]
    /\ chan = [t \in Tracker |-> "none"]
    /\ kills = 0

-----------------------------------------------------------------------------
(***************************************************************************)
(* The lock file, and the places of the processes.                         *)
(***************************************************************************)
ClientAt(c, from, to) == pc[c] = from /\ pc' = [pc EXCEPT ![c] = to]
DaemonAt(d, from, to) == dpc[d] = from /\ dpc' = [dpc EXCEPT ![d] = to]

\* flock.TryLock: the file at the path is made if need be, and nobody holds
\* the lock on it.
Unlocked == \A p \in Client \cup Process : lock[p] # "path"
Lock(p) == lock' = [lock EXCEPT ![p] = "path"]
Unlock(p) == lock' = [lock EXCEPT ![p] = "none"]

\* os.Remove of the path: whoever holds the lock keeps it, unseen.
RemoveLock ==
    lock' = [p \in Client \cup Process |-> IF lock[p] = "path" THEN "removed" ELSE lock[p]]

-----------------------------------------------------------------------------
(***************************************************************************)
(* A client: ensureDaemonStarted, then Connect.                            *)
(***************************************************************************)

\* ensureDaemonStarted: somebody holds the lock ...
FindDaemon(c) ==
    /\ handler[c] = "none"
    /\ ~Unlocked
    /\ ClientAt(c, "off", "dial")
    /\ UNCHANGED <<lockVars, dpc, hubVars, kills>>

\* ... or nobody does: remove the socket, let go of the lock, remove the file,
\* and start a daemon.
TakeLock(c) ==
    /\ handler[c] = "none"
    /\ Unlocked
    /\ ClientAt(c, "off", "locked")
    /\ Lock(c)
    /\ UNCHANGED <<socket, port, dpc, hubVars, kills>>

RemoveSocket(c) ==
    /\ ClientAt(c, "locked", "cleaned")
    /\ socket' = None
    /\ UNCHANGED <<lock, port, dpc, hubVars, kills>>

CloseLock(c) ==
    /\ ClientAt(c, "cleaned", "released")
    /\ Unlock(c)
    /\ UNCHANGED <<socket, port, dpc, hubVars, kills>>

LaunchDaemon(c) ==
    /\ ClientAt(c, "released", "dial")
    /\ RemoveLock
    /\ \E d \in Process : DaemonAt(d, "free", "boot")
    /\ UNCHANGED <<socket, port, hubVars, kills>>

\* Connect: the socket is there, and somebody listens to it; the connection
\* waits to be accepted ...
Dial(c) ==
    /\ socket \in Process
    /\ ClientAt(c, "dial", "on")
    /\ conn' = [conn EXCEPT ![c] = socket]
    /\ handler' = [handler EXCEPT ![c] = "backlog"]
    /\ UNCHANGED <<lockVars, dpc, subs, sub, chan, kills>>

\* ... or nobody does, and Connect returns the error ...
DialFails(c) ==
    /\ socket = Stale
    /\ ClientAt(c, "dial", "off")
    /\ UNCHANGED <<lockVars, dpc, hubVars, kills>>

\* ... or it does not show up in five seconds.
DialTimeout(c) ==
    /\ socket = None
    /\ ClientAt(c, "dial", "off")
    /\ UNCHANGED <<lockVars, dpc, hubVars, kills>>

\* The client ends, and its connection is closed.  A client whose daemon has
\* gone does not notice.
ClientLeaves(c) ==
    /\ ClientAt(c, "on", "off")
    /\ UNCHANGED <<lockVars, dpc, hubVars, kills>>

-----------------------------------------------------------------------------
(***************************************************************************)
(* A daemon: Run, and the watchdog.                                        *)
(***************************************************************************)
\* Run takes the lock, or ends.
DaemonTakesLock(d) ==
    /\ Unlocked
    /\ DaemonAt(d, "boot", "locked")
    /\ Lock(d)
    /\ UNCHANGED <<socket, port, pc, hubVars, kills>>

\* Variant: the result of TryLock is not looked at, and the daemon goes on
\* without the lock.
AlreadyLockedGoesOn(d) ==
    /\ ~Unlocked
    /\ DaemonAt(d, "boot", "locked")
    /\ UNCHANGED <<lockVars, pc, hubVars, kills>>

AlreadyLocked(d) ==
    /\ ~Unlocked
    /\ DaemonAt(d, "boot", "free")
    /\ UNCHANGED <<lockVars, pc, hubVars, kills>>

RemoveStaleSocket(d) ==
    /\ DaemonAt(d, "locked", "cleaned")
    /\ socket' = None
    /\ UNCHANGED <<lock, port, pc, hubVars, kills>>

\* ListenUnix, or its error when there is a socket again: a panic, and the
\* deferred calls.
Listen(d) ==
    /\ socket = None
    /\ DaemonAt(d, "cleaned", "listening")
    /\ socket' = d
    /\ UNCHANGED <<lock, port, pc, hubVars, kills>>

ListenFails(d) ==
    /\ socket # None
    /\ DaemonAt(d, "cleaned", "closed")
    /\ UNCHANGED <<lockVars, pc, hubVars, kills>>

\* Listen on the TCP port, or a panic when it is taken.
ListenHttp(d) ==
    /\ port = None
    /\ DaemonAt(d, "listening", "run")
    /\ port' = d
    /\ UNCHANGED <<lock, socket, pc, hubVars, kills>>

ListenHttpFails(d) ==
    /\ port # None
    /\ DaemonAt(d, "listening", "stopping")
    /\ UNCHANGED <<lockVars, pc, hubVars, kills>>

\* The clients in daemon.clients.
Clients(d) == {c \in Client : conn[c] = d /\ handler[c] = "serving"}

\* Variant: the watchdog is not started.
NoWatchdog(d) ==
    /\ FALSE
    /\ UNCHANGED vars

\* watchdog: there is no client, and the context of the daemon is cancelled.
Watchdog(d) ==
    /\ Clients(d) = {}
    /\ DaemonAt(d, "run", "stopping")
    /\ UNCHANGED <<lockVars, pc, hubVars, kills>>

\* listener.Close, which removes the socket at the path, whosever it is, and
\* httpListener.Close.
CloseListeners(d) ==
    /\ DaemonAt(d, "stopping", "closed")
    /\ socket' = None
    /\ port' = IF port = d THEN None ELSE port
    /\ UNCHANGED <<lock, pc, hubVars, kills>>

\* The deferred lock.Close ...
DaemonCloseLock(d) ==
    /\ DaemonAt(d, "closed", "unlocked")
    /\ Unlock(d)
    /\ UNCHANGED <<socket, port, pc, hubVars, kills>>

\* What is left of a daemon's connections, and of their trackers, when its
\* process ends.
HubGone(d) ==
    LET gone == {c \in Client : conn[c] = d} IN
    /\ conn' = [c \in Client |-> IF c \in gone THEN None ELSE conn[c]]
    /\ handler' = [c \in Client |-> IF c \in gone THEN "none" ELSE handler[c]]
    /\ subs' = [c \in Client |-> IF c \in gone THEN {} ELSE subs[c]]
    /\ sub' = [t \in Tracker |-> IF sub[t] \in gone THEN None ELSE sub[t]]
    /\ chan' = [t \in Tracker |-> IF sub[t] \in gone THEN "none" ELSE chan[t]]

\* ... and os.Remove, after which the process ends.
DaemonExits(d) ==
    /\ DaemonAt(d, "unlocked", "free")
    /\ RemoveLock
    /\ HubGone(d)
    /\ UNCHANGED <<socket, port, pc, kills>>

\* The process is killed: its lock goes, its socket stays.
Killed(d) ==
    /\ kills < MaxKills
    /\ kills' = kills + 1
    /\ DaemonAt(d, "run", "free")
    /\ Unlock(d)
    /\ socket' = IF socket = d THEN Stale ELSE socket
    /\ port' = None
    /\ HubGone(d)
    /\ UNCHANGED pc

-----------------------------------------------------------------------------
(***************************************************************************)
(* A daemon: handleConnection, and the trackers.                           *)
(***************************************************************************)
HandlerAt(c, from, to) == handler[c] = from /\ handler' = [handler EXCEPT ![c] = to]

\* AcceptUnix, and the registration in daemon.clients; a daemon that did not get
\* the port does not come to it.
AcceptConn(c) ==
    /\ HandlerAt(c, "backlog", "serving")
    /\ port = conn[c]
    /\ UNCHANGED <<lockVars, pc, dpc, conn, subs, sub, chan, kills>>

\* The close of a channel: that of one which is closed panics.
Close(t) == IF chan[t] = "open" THEN "closed" ELSE "panic"

\* client.close: the channels of all subscribers are closed.
CloseSubs(c) ==
    /\ subs' = [subs EXCEPT ![c] = {}]
    /\ chan' = [t \in Tracker |-> IF t \in subs[c] THEN Close(t) ELSE chan[t]]

\* The deferred function of handleConnection, when the client has gone or the
\* context is done: the client is deleted, so that nobody can subscribe ...
HandlerEnds(c) ==
    /\ HandlerAt(c, "serving", "closing")
    /\ pc[c] # "on" \/ dpc[conn[c]] # "run"
    /\ UNCHANGED <<lockVars, pc, dpc, conn, subs, sub, chan, kills>>

\* Variant: close leaves the channels of the subscribers open.
CloseClientOnly(c) ==
    /\ HandlerAt(c, "closing", "none")
    /\ conn' = [conn EXCEPT ![c] = None]
    /\ subs' = [subs EXCEPT ![c] = {}]
    /\ UNCHANGED <<lockVars, pc, dpc, sub, chan, kills>>

\* ... then client.close lets the subscribers go.
CloseClient(c) ==
    /\ HandlerAt(c, "closing", "none")
    /\ conn' = [conn EXCEPT ![c] = None]
    /\ CloseSubs(c)
    /\ UNCHANGED <<lockVars, pc, dpc, sub, kills>>

\* httpRouteClientEvents: a tracker subscribes to a client that is registered.
Subscribe(t, c) ==
    /\ chan[t] = "none"
    /\ handler[c] = "serving"
    /\ sub' = [sub EXCEPT ![t] = c]
    /\ subs' = [subs EXCEPT ![c] = @ \cup {t}]
    /\ chan' = [chan EXCEPT ![t] = "open"]
    /\ UNCHANGED <<lockVars, pc, dpc, conn, handler, kills>>

TrackerEnds(t) ==
    /\ sub' = [sub EXCEPT ![t] = None]
    /\ UNCHANGED <<lockVars, pc, dpc, conn, handler, kills>>

\* Variant: unsubscribe does not look for the channel first.
UnsubscribeAlways(t) ==
    /\ chan[t] \in {"open", "closed"}
    /\ subs' = [subs EXCEPT ![sub[t]] = @ \ {t}]
    /\ chan' = [chan EXCEPT ![t] = IF Close(t) = "panic" THEN "panic" ELSE "none"]
    /\ TrackerEnds(t)

\* The websocket is closed (or cannot be set up), or the channel is: the
\* deferred unsubscribe closes the channel if it is still a subscriber's.
Unsubscribe(t) ==
    /\ chan[t] \in {"open", "closed"}
    /\ subs' = [subs EXCEPT ![sub[t]] = @ \ {t}]
    /\ chan' = [chan EXCEPT ![t] =
                  IF t \in subs[sub[t]] /\ Close(t) = "panic" THEN "panic" ELSE "none"]
    /\ TrackerEnds(t)

-----------------------------------------------------------------------------
StartDaemon(c) == RemoveSocket(c) \/ CloseLock(c) \/ LaunchDaemon(c)

ClientNext(c) ==
    \/ FindDaemon(c)
    \/ TakeLock(c)
    \/ StartDaemon(c)
    \/ Dial(c)
    \/ DialFails(c)
    \/ DialTimeout(c)
    \/ ClientLeaves(c)

RunNext(d) ==
    \/ DaemonTakesLock(d) \/ AlreadyLocked(d)
    \/ RemoveStaleSocket(d)
    \/ Listen(d) \/ ListenFails(d)
    \/ ListenHttp(d) \/ ListenHttpFails(d)
    \/ CloseListeners(d)
    \/ DaemonCloseLock(d)
    \/ DaemonExits(d)

HubNext(c) == AcceptConn(c) \/ HandlerEnds(c) \/ CloseClient(c)

Next ==
    \/ \E c \in Client : ClientNext(c) \/ HubNext(c)
    \/ \E d \in Process : RunNext(d) \/ Watchdog(d) \/ Killed(d)
    \/ \E t \in Tracker : Unsubscribe(t) \/ \E c \in Client : Subscribe(t, c)

Spec == Init /\ [][Next]_vars

(***************************************************************************)
(* Fairness: a process that was started goes on, the watchdog included.    *)
(* No client has to be started, to be connected, or to leave.              *)
(***************************************************************************)
Fairness ==
    /\ \A c \in Client :
         /\ WF_vars(StartDaemon(c))
         /\ WF_vars(AcceptConn(c))
         /\ WF_vars(pc[c] # "on" /\ HandlerEnds(c))
         /\ WF_vars(CloseClient(c))
    /\ \A d \in Process : WF_vars(RunNext(d)) /\ WF_vars(Watchdog(d))
    /\ \A t \in Tracker : WF_vars(chan[t] = "closed" /\ Unsubscribe(t))

FairSpec == Spec /\ Fairness

-----------------------------------------------------------------------------
(***************************************************************************)
(* Properties.                                                             *)
(***************************************************************************)

\* No channel is closed twice, and none that is closed is among those broadcast
\* sends to, although the connection of a client, its trackers and the daemon
\* end in any order: either would be a panic of the daemon.
SafeChannels ==
    /\ \A t \in Tracker : chan[t] # "panic"
    /\ \A c \in Client : \A t \in subs[c] : chan[t] = "open" /\ sub[t] = c

\* A tracker is let go when its client has left, also when it subscribed in the
\* last moment.
TrackersReleased ==
    \A t \in Tracker, c \in Client :
        (sub[t] = c /\ pc[c] # "on") ~> sub[t] # c

\* A daemon ends, or has clients again and again: also one that nobody can
\* reach, because a client or another daemon has removed its files, and that is
\* in the way of others with its port.
DaemonsEnd ==
    \A d \in Process : []<>(dpc[d] = "free" \/ Clients(d) # {})
=============================================================================
