# Verification of the OoTMM multiplayer client and server

The repository lets several copies of a randomised game share what their
players find. A *session* is a log of entries (items found, events) that every
game of the session sees in the same order. This directory holds TLA+ modules
for the parts that make this work, TLC configurations that check them on small
instances, and TLAPS proofs of the main properties for instances of any size.

## 1. Inventory

| part | code | state | operations | interacts with |
|---|---|---|---|---|
| WAL | `shared/wal/wal.go`, `key.go`, `types.go`, `serialize.go` | the file `wal.bin`, `entries`, `set`, `notify`, a context | `OpenWAL`, `Append`, `Get`, `Subscribe`, `Next`, `Close` | one per session on the server, one per session on every client |
| packets | `shared/protocol/*.go` | none | `SendRaw`, `RecvRaw`, parsers and serializers | TCP between client and server |
| server app | `server/internal/app/app.go` | `sessions`: identifier to session and count | `run`, `handleClient`, `acquireSession`, `releaseSession` | opens and closes sessions |
| server session | `server/internal/session/session.go` | `players`, the WAL; per player `in`, `out`, `WalIndex`, a context | `Join` and four goroutines (`handleMsgIn`, `handleMsgOut`, `handlePackets`, `handleWalStream`), `BroadcastExcept`, `Send` | WAL, sink |
| event sinks | `server/internal/events/*.go` | a bounded channel | `Send`, `Close` | NATS |
| client game session | `client/internal/game/session.go` | the client's WAL, the send queue, `uplinkIn`, `uplinkOut`, `msgIn`, `msgOut`, IPC sequence numbers | `Run`, `handleMsgLoop`, `handleWalIn`, `newWalEntry`, `handleSendQueue`, `handleUplinkPacket`, `sendGameWal` | IPC, uplink, WAL, send queue, positions, daemon |
| client uplink | `client/internal/game/uplink.go` | a connection, a context | `handleUplink`, `handleUplinkConn`, `handshake`, `pumpIn`, `pumpOut`, `handlePackets`, `TrySendUplink` | server |
| client send queue | `client/internal/game/send_queue.go` | the file `send_queue.dat`, `entries` | `OpenSendQueue`, `Add`, `Ack`, `Pending`, `Close` | game session |
| client positions | `client/internal/game/position_system.go` | own position, local identifiers and their TTLs | `OnGamePos`, `OnServerPos`, `sendSelfPos`, `lowerTTLs`, `Close` | IPC, uplink |
| client IPC | `client/internal/ipc/*.go` | a socket or the emulator's memory | framing | the game |
| patch file | `client/internal/game/info.go`, `data.go` | none | `ExtractGameInfo` | client app |
| client app | `client/internal/app/*.go` | a context | `loop`, `poll`, `hello`, one `game.Run` after the other | game session, daemon |
| daemon | `client/internal/daemon/*.go` | lock file, socket, port, clients and their subscribers | `ensureDaemonStarted`, `Connect`, `Run`, `watchdog`, `handleConnection`, `subscribe`, `unsubscribe` | client app and session, trackers (web) |
| config, util | `*/config`, `*/util` | none | paths, environment | all |

How an entry travels: the game hands it to its client (`handleWalIn`); the
client writes it to the send queue and its file, offers it to the uplink, and
acknowledges it to the game, which forgets it. `handleSendQueue` sends the
queue every ten seconds. The server appends the entry to its WAL unless its
deduplication key is there, and acknowledges it. `handleWalStream` sends the
WAL to every player from the index of its hello. A client appends what it is
streamed to its own WAL, and takes an entry out of its send queue when it is
acknowledged or streamed. The client never looks at the index of a streamed
entry.

What is hard here: every connection can break at any time and the two sides do
not notice together; either side can crash between any two calls on its files;
writes and syncs can fail half-way; five or more goroutines of a player or a
client share bounded channels, some of which drop and some of which block; a
session is closed by the last connection that leaves while the next one comes;
local identifiers are used again; the processes that share a daemon meet only
in the file system, and remove each other's files there.
What makes it correct: all logs agree; no acknowledged entry is lost; nothing
is committed twice; everything acknowledged is delivered in the end; one open
WAL per session; no two players under one identifier; client and game agree on
their sequence numbers; no channel closed twice; nobody waits for ever. `PROJECT.json` lists the hazards line
by line, with the properties that cover them.

## 2. Modules

* `SharedLog` is what a session promises, without files, connections or
  messages: an append-only log of entries that games submitted, with unique
  keys, and learners that each know a prefix of it.
* `Replication` is the protocol between the clients and the server, with
  crashes, reconnects and retries. `MCReplication` instantiates it. It
  implements `SharedLog` (`log <- swal`, `learned <- cwal`): TLC checks it on an
  instance, `ReplicationProofs` proves it.
* `RecordFile` is a file of records that can end anywhere. `WAL` and
  `SendQueue` use it; they take `Append`, `Add` and `Ack` apart into their
  calls on the file. They justify what `Replication` takes as one step: that a
  WAL append, and an add to the send queue, either happen and survive, or do
  not happen.
* `WALStream` is `Next` and `handleWalStream`, with the two locks, the notify
  channel and the blocking send. It justifies `StreamNext` of `Replication`.
* `ServerSession` is the app's reference-counted sessions and the life of a
  player. It justifies that `Replication` has one `swal`.
* `GameSession` is the client between its game and its daemon: the loop of the
  app, `Run`, and the goroutines of a session. What `Replication` does with an
  entry of the game, or with the uplink, is one step here.
* `PositionSystem` is the table of the other players' positions. It hands its
  messages to the `TrySend` of `GameSession` and to the uplink.
* `Daemon` is the start of the daemon by its clients, and its connections and
  subscribers.
* `ReplicationProofs`, `WALProofs`, `WALStreamProofs`, `SendQueueProofs`,
  `ServerSessionProofs`, `GameSessionProofs`, `PositionProofs` and `DaemonProofs`
  hold the theorems about the module each is named for, with their proofs.

The modules meet at these steps: `NewWalEntry` and `AckGame` of `Replication`
are `HandleWalIn` of `GameSession`; `HandleServerWal` is `UplinkEntry`; `Restart`
covers every end of a session; `OnGamePos` of `PositionSystem` is
`HandlePosition`, and what `OnServerPos` sends to the game is `UplinkPosition`;
`DaemonSend` puts a message on a connection of `Daemon`.

Definitions whose comment begins with "Variant:" are deliberate errors. No
specification uses them; each replaces the definition behind it to show that
the properties notice.

### Replication

| variable | code |
|---|---|
| `swal`, `cwal[c]` | `WAL.entries` of the server's and of the client's log (durable) |
| `sendQ[c]`, `sqFile[c]` | `SendQueue.entries`, and the records of its file |
| `uplinkOut[c]`, `uplinkIn[c]` | the two channels of the client's session |
| `pending[c]` | what is left of the snapshot in `handleSendQueue` |
| `unacked[c]` | `handleWalIn` between `newWalEntry` and its `OpWalAck` |
| `phase[c]`, `cur[c]` | `handleUplinkConn`: idle, waiting for the hello, up; its connection |
| `srv[x]`, `walIndex[x]`, `ackDue[x]` | a player on the server: accepted or joined, `WalIndex`, `handlePacket` between `Append` and its ack |
| `c2s[x]`, `s2c[x]` | the TCP stream with `Player.in`, `Player.out` |

Every operation is an action of its own: `NewWalEntry`, `AckGame`,
`TakePending`, `SendPending`, `Dial` (connect, drain both channels, send the
hello), `HelloReply`, `PumpOut`, `PumpIn`, `HandleServerWal`,
`HandleServerAck` on the client; `Join`, `StreamNext`, `HandleWal`, `SendAck`
on the server. Faults: `LinkLost` and `PlayerLost` (either side loses a
connection, alone), `HandleServerWalFails` (a failed append), `Restart` (the
client crashes or its game goes away), `CrashBeforeAck` (a crash between the
append and the ack of `handleUplinkPacket`), `ServerRestart`. `LinkClosed` and
`PlayerGone` are one side noticing that the other has left. Since the two are
separate, a player can outlive its client's connection, and the client can
have a second player by then.

Abstractions: an entry is its key and its player; NOPs and positions are
present only in that `TrySendUplink` may find the channel full at any time.
What is in `Player.out` and in the socket's buffer is one queue, `s2c`, bounded
by `NetCap`; likewise `c2s`. After a cancellation, the goroutines of a
connection may still take a few steps before `wg.Wait` returns; these are steps
they could have taken before it, so `Disconnect` is placed after them. A
connection's identity is used again once neither side uses it.

### WAL, SendQueue

A record is two cells per call of `Write` (two calls in `Append`, three in
`Add`), so a file can end in the middle of a field. `synced` is how much of the
file a power failure leaves at least; it leaves any prefix from there on. A
crash of the process leaves the file as it is.

Assumed: the truncate and the seek of a rollback work (their results are
ignored in the code), and a truncation is durable at once; all records have the
same length; a file whose records are out of step does not parse by accident.

`ReportedDurable` has one exception, kept in `adopted`: a process that died
between write and sync leaves a record that the next `OpenWAL` takes over
without a sync, and `Append` then reports a duplicate of it as stored. The next
sync covers it. `SeenStays` counts, accordingly, what was seen and on the disk:
it does not say that no client ever holds an entry the server has lost.

Limits of `WAL`: for the entries in `adopted` the code has that fault. The process
dies between the write and the sync of an entry; `OpenWAL` loads the record; the
client sends the entry again, and `Append` reports it as stored without a sync
(`wal.go:117`); before the next append, a power failure takes it. The client was
acknowledged, and others may have been streamed the entry. The model has these
steps (`AppendDuplicate`, `Crash`); the properties except them.

`SendQueue` has the same exception, and an `adopted` of its own: `Add` returns
nil at once for an id that is queued (`AddDuplicate`), also when it was loaded
from a record that was never synced. `OwedDurable` and `OwedKept` except these ids
until the next sync.

Limits of `SendQueue`: `Add` does not take back what it wrote. After a write
that failed half-way, the next `Add` writes behind the part of a record, and
what lies there cannot be read until `Ack` truncates the file; `OwedDurable`
excepts it (`InStep`). A crash in the middle of `Add` makes `OpenSendQueue`
fail from then on (mode `"broken"`); the records before it are still on the
disk but no code reads them, and what is owed is not sent. `OwedKept` is about
the sessions that open; `OnlyCutsRefused` tells when one does not: only if a record
was cut short, by a failed write, by a crash in `Add`, or by a power failure that
met cells whose sync had failed, and `Ack` has not truncated the file since (`cut`
remembers it). The fault itself is that of `wal_torn_tail`. `Replication` has
neither: there, `Add` happens or it does not.

### WALStream

Channels are numbered; the channel `n` is closed once `notify > n`. `pc` steps
through `Next`: read the channel (first lock), get the entry (second lock),
select; then `send`. Any goroutine of a player may end it (`CancelPlayer`).

### ServerSession

`object` is a `Session` with its reference count and whether its WAL is open;
`sessions` is the app's map; `pc[x]` is where `handleClient` stands for a
connection: accepted, `join` (session acquired), `reply` (registered), `run`,
`wait` (connection closed, waiting for the goroutines), `release`. `running[x]`
are the player's goroutines that have not returned. The contents of packets,
and what the position events hand to the sink, are left out: of `in` and `out`
the model keeps how many packets are in them, and in `first` what the first
packet to the client was. A `handlePackets` blocked in the send of an ack is
kept as a packet that is still in `in`. NOPs, and packets the server does not
know, are taken from `in` and send nothing.

The secret of a session is that of whoever opened it; it is compared with those
of later connections (`AcquireRefused`) and is forgotten when the last one
leaves. Any secret opens a session that nobody has open. The code promises no
more than the comparison, so there is no property about secrets.

### PositionSystem

| variable | code |
|---|---|
| `known`, `localId`, `ttl` | the map `local`: its keys, `LocalID`, `TTL` |
| `free`, `next` | `localIdFree`, `localIdNext` (modulo `IdLimit`) |
| `pos` | the own position, `NoPos` when its key is 0xffff |
| `tick`, `cancelled` | where `run` stands; its context |
| `owner`, `quiet` | history: whom an identifier was last used for, and how many ticks ago |

A tick is two steps, `SendSelfPos` and `LowerTTLs`, because each takes the mutex
for itself. Players whose TTL is used up are met in the order of a Go map, hence
the choice of a bijection. The code does not limit the players that are
remembered; the model does (`MaxPlayers < IdLimit`), since 65536 players in one
session within 30 ticks are out of reach.

### GameSession

| variable | code |
|---|---|
| `pc`, `stopped` | where the loop of the app, or the `Run` it has called, stands; the app's context |
| `cancelled`, `running` | the session's context; its goroutines that have not returned |
| `msgIn`, `msgOut` | the two channels, each with the socket behind it |
| `work` | the rest of the batch in `sendGameWal` |
| `seqGame`, `seqNet` | `SeqGame`, `SeqNet` (modulo `SeqLimit`) |
| `walLen` | number of entries of the client's WAL |
| `lastEvent` | history: what was put last into `DaemonConn.chSend` |
| `game` | external: the game's own numbers and how many entries it has |

`"uplink"` in `running` stands for `handleUplink` and `handleSendQueue`, which a
session for one player does not start. `DaemonConn.Send` waits for room whatever
happens to the session; that is a step which is not taken yet. The hello of a
game has no time limit in the code, and no fairness in the model. A game may
come back with an older save, that is, with fewer entries.

### Daemon

| variable | code |
|---|---|
| `lock[p]` | the lock a process holds: none, that of the file at the path, or that of a file somebody has removed |
| `socket`, `port` | whose socket is at the path (or one left behind, `Stale`); who listens on the TCP port |
| `pc[c]`, `dpc[d]` | where `Connect` of a client and `Run` of a daemon stand |
| `conn[c]`, `handler[c]` | the connection of a client, and where `handleConnection` stands with it |
| `subs[c]`, `sub[t]`, `chan[t]` | `client.subs`; a tracker's client and channel |

Every call on the lock file, the socket and the port is a step. `TryLock` is
one step (the open and the `flock` together). A daemon is killed only while it
runs (`Killed`), and a client does not die inside `ensureDaemonStarted`. Two
daemons can be up at a time, since the lock file is removed by those who do not
hold its lock; the second fails at the port and panics, with its deferred calls.
The contents of messages, and the list of clients over HTTP, are left out.

## 3. Runs

| run | instance | shows |
|---|---|---|
| `repl_two_clients` | 2 clients, 1 key both can produce, 2 connections, 2 submissions, 1 fault | nothing acknowledged is lost when two players produce the same key; the refinement of `SharedLog` |
| `repl_order` | 1 client, 2 keys, 2 connections, `InCap` 2, 1 fault | the order of entries across a reconnect; packets, on old connections too, tell of committed entries; a failed append leaves a packet in `uplinkIn`, which needs two entries and `InCap` 2 |
| `repl_live` | 2 clients (one produces), 1 key, 2 connections, 1 fault | types; delivery and the draining of the queue, under fairness |
| `repl_add_fails` | 1 client, 1 key, 1 connection, `AddMayFail` | **violation** of `AckedNotForgotten`: see section 6 |
| `wal_file` | 3 entries, 3 faults, both kinds of crash | durability, stability of what was seen, rollback |
| `wal_torn_tail` | the same, power failures only | **violation** of `ReadableAfterOpen`: see section 6 |
| `wal_stream` | 2 streams, a log of up to 2 entries | order, no lost wake-up, no goroutine left behind |
| `send_queue` | 3 ids, 3 records, 3 faults (write, sync, truncate, crash of the process or the machine) | what is owed is durable, and is in the queue of every session that opens; one that is refused had a record cut short |
| `server_session` | 2 connections, 1 session, 2 secrets, 2 objects, channels of 1 | one open WAL, never closed in use; hello first; exact counts; under fairness a player leaves, and the server stops |
| `positions` | 4 players of which 3 have room, 4 identifiers, TTL 3 | identifiers are unique and change hands only after TTL silent ticks; silent players are forgotten |
| `game_session` | 2 sessions, single and multi, channels of 1, batches of 1, 2 entries, 2 sequence numbers | both ends agree on the numbers; events reach the daemon in order; a session ends; a game gets every entry |
| `daemon` | 2 clients, 2 daemon processes, 1 tracker, 1 kill | no channel is closed twice; trackers are let go; no daemon without clients stays |

Bounds. Channels of capacity 1 or 2 are enough to be empty, full, and to hold
an overtaken packet. Two connections are one old and one new. Connection
identities are reused, so reconnects are limited by `MaxFaults`, not by the
number of identities. The logs have at most as many entries as there are keys.
In `positions` the counter wraps (identifiers 1, 2, 3, then 0) and a fourth
player gets the identifier of one that fell silent; TTL 3 tells a first, a middle
and a last tick apart. In `game_session` two entries and batches of one need a
second query, two sequence numbers wrap at once, and two sessions show what one
leaves to the next. In `daemon` two clients and two daemons are enough to remove
each other's files; the invariants were also checked once with three daemon
processes. Identities of clients, processes and trackers are used again, so that
any number of them can come and go.

In `MCReplication` a self-loop (`AtRest`) marks the states where everything is
handed over and delivered, `Stopped` in `MCServerSession` the stopped server,
and `Over` in `MCGameSession` the stopped client; any other state without a
successor is reported as a deadlock. `wal_stream` turns the deadlock check off:
a stream waits for appends that need not come.

Symmetry is used over clients, keys, connections, entries and ids where
nothing tells them apart, and in runs without liveness properties only.

Fairness. `Replication!Fairness` has one weak-fairness conjunct per goroutine:
a goroutine that can go on does go on (the Go scheduler), retries come again
(`handleUplink` reconnects in a loop, `handleSendQueue` has a ticker). No fault
and no submission has to happen. `WALStream` is fair to the stream and to
`handleMsgOut`. `ServerSession` is fair to `handleClient` and to goroutines
whose context is done; reads and writes have time limits in the code and fail
at once on a closed connection. `PositionSystem` is fair to its ticker.
`GameSession` is fair to `Run`, except that a game need not say hello, and to
every goroutine; it is strongly fair to those that wait for room in a channel
(Go serves them in order), to a select with a done context, and to a game that
goes on asking for entries. It takes the daemon to read what it is sent.
`Daemon` is fair to processes that were started, and to the watchdog; no client
has to start, to connect or to leave. Its fairness to `Unsubscribe` takes the
browser to read, or its connection to fail: `WriteMessage` of a tracker
(`http.go:99`) has no time limit. A client whose connection was left in the
backlog of a daemon that ended is in the model, and is not obliged to notice.

## 4. Proofs

Every invariant and every action property that a passing run checks, and the
refinement, is also a theorem. All hold for every value of the constants that
satisfies the assumption of the module, which names what the code fixes or
takes for granted and no more:

| module | assumption | theorems |
|---|---|---|
| `Replication` | `ConstantsAssumption`: any sets of clients, keys and connections, capacities of at least one, any number of faults | `TypeCorrect`, `PrefixCorrect`, `CommittedCorrect`, `GapFreeCorrect`, `NoLostEntryCorrect` (if `~AddMayFail`), `SharedLogImplemented` |
| `WAL` | `WALAssumption`: any set of entries, any kinds and number of faults | `WALTypes`, `FileIsMemoryCorrect`, `ReportedDurableCorrect`, `SeenStaysCorrect`, `DiskNeverShrinks` |
| `WALStream` | `StreamAssumption`: any set of streams, any capacity of `Player.out` of at least one, any bound on the log | `StreamTypesCorrect`, `SentInOrderCorrect` |
| `SendQueue` | `SendQueueAssumption`: any set of keys, any kinds and number of faults | `QueueTypes`, `OwedDurableCorrect`, `OwedKeptCorrect`, `OnlyCutsRefusedCorrect` |
| `ServerSession` | `ServerSessionAssumption`: any sets of connections, identifiers, secrets and handles, a value that is no handle, channel capacities of at least 1 | `SessionTypes`, `OneLogCorrect`, `LogOpenCorrect`, `HelloFirstCorrect`, `ExactCorrect` |
| `GameSession` | `GameSessionAssumption`: any sequence limit, batch size and channel capacities of at least 1, any bounds on the log and the sessions | `GameTypes`, `InStepCorrect`, `EventsCorrect` |
| `PositionSystem` | `PositionAssumption`: any set of players, any TTL, more identifiers than players remembered at a time | `PositionTypes`, `LocalIdsUnique`, `HandoverAfterSilence` |
| `Daemon` | `DaemonAssumption`: any sets of clients, processes and trackers, any number of kills | `DaemonTypes`, `ChannelsCorrect` |

Each theorem is `Spec => []P` (or `Spec => P`, for `SharedLogImplemented`,
`HandoverAfterSilence`, `EventsCorrect` and `DiskNeverShrinks`) for the property
`P` that `PROJECT.json` lists with it.

**Replication.** `ReplicaPrefix` is not inductive: a step of a client appends
whatever packet is at the head of `uplinkIn`, so one has to know what can be
there. The inductive invariant `IndInv` is the conjunction of the types,
`LinkOK` (a connection has one client; nothing waits in one that nobody reads),
`UniqueKeys`, `PacketsTellCommitted` (a packet in transit carries the server's
entry at the index it carries), `ReplicaPrefix`, and `GapFree`: for the client's
current connection, the entry before each one in transit is in the client's log
or ahead of it in the pipe `uplinkIn`, `s2c`, and so is the one before the next
to be streamed. With it, the packet at the head is for an index the client has
(and the deduplication drops it, by `UniqueKeys` and the prefix) or for exactly
the next one. `Dial` establishes `GapFree` by draining and by its `WalIndex`; a
failed append breaks the connection, and so needs nothing.

`NoLostEntry` follows from `QueueCovers`: the queue in memory is a part of
its file; what is in the file only has been committed; a key the client took
from its game is queued or committed. Its proof needs `PacketsTellCommitted`:
what removes an entry from the queue is a packet, and the packet is true.

`SharedLogImplemented` rests on `IndInv` and on one more invariant, `Sourced`:
every entry in a queue, in a file or on its way to the server was handed over by
its game. With it, every step of `Replication` is a step of `SharedLog` or a
stutter: `NewWalEntry` is `Submit`, `AckGame` is `Acknowledge`, `HandleWal` is
`Commit` (or a stutter, for a key that is there), `HandleServerWal` and
`CrashBeforeAck` are `Learn` of exactly the next entry (by `GapFree` and
`ReplicaPrefix`) or a stutter, and all others are stutters, the restarts included.

**PositionSystem.** `UniqueLocalIds` alone is not inductive: a
new player could be given an identifier that is in use, from the list or from
the counter. `IdsAccounted` says where the identifiers are: those handed out so
far (`Issued`, from 1 up to the counter) are exactly those of the known players
and those in the free list, each once. When the list is empty, all that were
issued are held by players; had the counter come around to 0 by then, there would
be `IdLimit - 1` of them and no room for another (`CounterNotUsedUp`, by a
surjection and the cardinality theorems). `QuietOK` ties
the TTLs to the history: a player's ticks of silence and its TTL add up to
`TTL`, and an identifier in the list has been silent for `TTL` ticks; `Handover`
follows for both sources of an identifier.

**WAL.** The inductive invariant `FileInv` is the types and `Layout`, which says
where the file stands in the middle of `Append` too: its records are in step;
while the log is open, the offset is at the end of the file, and the file is the
memory followed by the cells `Append` has written so far, all of one record; the
disk does not reach beyond the memory before the sync. So the position a
rollback goes back to is the end of the memory, at or above what is on the disk:
no step takes a cell from the disk (`DiskKept`), and `FileIsMemory` is `Layout`
between two appends. `ReportedDurable` is not inductive, because `Append` reports
duplicates of what is in memory; `Durable` adds that an entry in memory is on the
disk or adopted. `SeenStays` speaks of the open log only; `SeenOK` adds that what
was seen is at the beginning of the disk, which is what outlives the crashes.
The arithmetic of cells and records is in the lemmas on `InStep` and `Records`
(`CutInStep`, `HeaderInStep`, `DataInStep`, `RecordsOf`, `DiskEntries`).

**WALStream.** `SentInOrder` looks back; `Standing` says where a stream is: between
two packets its index is the one after the last entry sent, a packet that waits
for room is the entry before the index, and `WalIndex` is the index, so that the
check of `handleWalStream` never drops an entry.

**SendQueue.** `OwedDurable` is not inductive: it excepts a file that a failed
write has put out of step, and a crash may cut that part off again. `Stored` asks
the same of the synced part of the file only. A record that `Add` has written is
the last of the file (`Ends`), so it can be read if the file can (`LastRecord`);
a crash keeps the synced part; and when `Ack` truncates the file the queue is
empty, and with it, by `OwedKept`, what is owed. `OwedKept` in turn needs `Stored`
when the queue is opened. Both leave out what is in `adopted`: what is loaded is
on the disk or adopted, and a sync covers all that is in the queue.
`OnlyCutsRefused` needs `Whole`: while nothing was cut short, the file is whole
records, followed by the cells `Add` has written of one more (`WriteWhole`).

**ServerSession.** Release finds the session again by its identifier, so
`OneLogPerSession` needs to know that the map still has the object the connection
acquired. `SessionInv` says it: the map has open objects under their own
identifier; who holds a session holds the one in the map; the count is the number of holders (a finite set, although the set of
connections need not be); players and goroutines are those of holders. From it
the four invariants follow together, since none is inductive without the others.

**GameSession.** `InStep` counts the messages in `msgIn` modulo `SeqLimit`; the
lemmas on remainders (`RemainderUnique`, `RemainderOfSum`) show that taking one
and adding one keep it across the wrap. `EventsInOrder` follows from `EventOK`:
how far `Run` and the app are tells what the last event can be.

**Daemon.** A channel is closed by its client's connection or by its tracker,
whichever comes first. `SafeChannels` is inductive with `TrackersOK`: a tracker
that has a channel has a client, and if the channel is open the tracker is in the
list of that client. The types include that at most one process holds the lock
of the path, and that a daemon holds a lock from `TryLock` until it lets go.

Each invariant was checked by TLC on the instance of its run before it was
proved. The lemmas are in the order in which they are used: the operators on data
first, then one step lemma per action or per conjunct.

Only model-checked: liveness (`Delivered`, `QueueDrains`, `EveryEntrySent`,
`StreamEnds`, `PlayerLeaves`, `ServerStops`, `Forgotten`, `SessionEnds`,
`GameCatchesUp`, `TrackersReleased`, `DaemonsEnd`). Fairness and `ENABLED` are out
of the prover's reach, as are induction over data and recursive operators (no
module has one).

## 5. Not modelled

* Event sinks: best effort by design; they drop when full, and nothing in the
  server depends on them. The position events of `handlePositionUpdate` go there.
* IPC transports: bytes over a socket or through the memory of an emulator, no
  state of their own; `GameSession` has the messages, and a message that does
  not parse, as an error of its parser. (`ParseMessageBodyInfoItem` accepts six
  bytes and reads the seventh, `ipc/msg.go:178`, which is a panic; the model does
  not have it.)
* The patch file (`ExtractGameInfo`), the file association, configuration and
  paths: read once at the start.
* The byte layout of packets, entries and keys, and the JSON of the daemon.
* The width of log indices (`uint32`: a log of 2^32 entries is out of reach). The
  sequence numbers and the local identifiers do wrap in the models.
* The random nonces of renewable items (the model's game picks its keys).
* Machine limits: memory, file descriptors (one stays open when `Run` refuses a
  game, `session.go:109`), a disk on which the rollback of a failed write fails too.

## 6. Findings

* `repl_add_fails`: `newWalEntry` ignores the error of `SendQueue.Add`, and the
  game is acknowledged all the same. In the run `Add` fails while `uplinkOut` is
  full, so `TrySendUplink` drops the packet: after the ack the entry is in no
  queue, file, channel or log. (A reconnect, which drains `uplinkOut`, would lose
  it as well.)
* `wal_torn_tail`: a crash in the middle of an append leaves a partial record.
  `load` returns an error for it, so `OpenWAL` fails for good, and the entries
  that `Append` had synced cannot be read. `loadSendQueue` does the same with a
  send queue.

## 7. Plan

Done: all modules of section 2, and the proofs of section 4. What remains:

1. `WAL` and `SendQueue` justify atomic steps of `Replication` by argument only.
   An abstract durable log (entries that are on the disk, and those a process has
   in memory) that `WAL` implements would make the first of them a refinement.
2. Further action properties that follow from the invariants at hand, such as
   what a release of a session may close.
