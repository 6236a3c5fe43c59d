---------------------------- MODULE Replication ----------------------------
(***************************************************************************)
(* The replication of a session's write-ahead log between the server and  *)
(* its clients.                                                            *)
(*                                                                         *)
(* The game hands an entry to its client, which stores it in the send     *)
(* queue, acknowledges it to the game, and sends it to the server until   *)
(* the server acknowledges it.  The server appends every entry whose      *)
(* deduplication key is new to its WAL, and streams the WAL to every      *)
(* client from the index the client asked for in its hello.  The client   *)
(* appends what it receives to its own WAL.                                *)
(*                                                                         *)
(* Both WALs and the send queue's file survive a crash; everything else   *)
(* is memory.  Connections break at any time on either side, and the two  *)
(* sides do not notice at the same time: the server may still hold, and   *)
(* act on, an old connection of a client that has already reconnected.    *)
(*                                                                         *)
(* A queue of this model stands for a channel and the TCP stream behind   *)
(* it: c2s for uplink bytes and Player.in, s2c for Player.out and         *)
(* downlink bytes.  NOP and position packets share these channels but     *)
(* carry no state of the WAL; their one effect, that a non-blocking send  *)
(* may find the channel full at any time, is kept.                        *)
(***************************************************************************)
EXTENDS Naturals, Sequences

CONSTANTS
    Client,      \* client sessions: one game, one data directory each
    Key,         \* deduplication keys
    GameKeys,    \* the keys each game can produce: those of its world
    Conn,        \* identities of the TCP connections that exist at one time
    NoConn,      \* not a connection
    NoKey,       \* not a key
    OutCap,      \* capacity of Session.uplinkOut
    InCap,       \* capacity of Session.uplinkIn
    NetCap,      \* capacity of one direction of a connection
    MaxSubmits,  \* bound on the entries the games hand over in a behaviour
    MaxFaults,   \* bound on the faults of a behaviour
    AddMayFail   \* may SendQueue.Add fail (disk full, I/O error)?

ASSUME ConstantsAssumption ==
    /\ NoConn \notin Conn
    /\ NoKey \notin Key
    /\ GameKeys \in [Client -> SUBSET Key]
    /\ OutCap \in Nat \ {0}
    /\ InCap \in Nat \ {0}
    /\ NetCap \in Nat \ {0}
    /\ MaxSubmits \in Nat
    /\ MaxFaults \in Nat
    /\ AddMayFail \in BOOLEAN

(***************************************************************************)
(* An entry carries the player that produced it; its deduplication key    *)
(* does not depend on the player, so two players of one world can produce *)
(* two entries with one key.                                               *)
(***************************************************************************)
Entry == [key : Key, player : Client]
DedupKey(e) == e.key

HelloPacket == [op |-> "hello"]
WalPacket(i, e) == [op |-> "wal", index |-> i, entry |-> e]
AckPacket(k) == [op |-> "ack", key |-> k]

Packet ==
    {HelloPacket}
        \cup [op : {"wal"}, index : Nat, entry : Entry]
        \cup [op : {"ack"}, key : Key]

VARIABLES
    swal,        \* the server's WAL
    cwal,        \* the WAL of each client
    sendQ,       \* SendQueue.entries: what the client has to send
    sqFile,      \* the entries in the send queue's file
    uplinkOut,   \* Session.uplinkOut
    uplinkIn,    \* Session.uplinkIn
    pending,     \* what handleSendQueue has left of its snapshot
    unacked,     \* the key handleWalIn has stored and not yet acknowledged
    phase,       \* where handleUplinkConn stands
    cur,         \* the connection of the client, or NoConn
    srv,         \* the server's end of a connection
    c2s,         \* entries on the way to the server's handlePacket
    s2c,         \* packets on the way to the client's pumpIn
    walIndex,    \* Player.WalIndex (in state "accepted": the hello's)
    ackDue,      \* the key handlePacket has appended and not yet acknowledged
    submitted,   \* history: entries the games handed over
    acked,       \* history: keys acknowledged to each game
    submits,     \* entries handed over so far, repeated ones included
    faults       \* faults so far

clientVars == <<cwal, sendQ, sqFile, uplinkOut, uplinkIn, pending, unacked>>
linkVars == <<phase, cur>>
serverVars == <<swal, srv, walIndex, ackDue>>
history == <<submitted, acked, submits>>
vars == <<swal, cwal, sendQ, sqFile, uplinkOut, uplinkIn, pending, unacked,
          phase, cur, srv, c2s, s2c, walIndex, ackDue,
          submitted, acked, submits, faults>>

Keys(log) == {DedupKey(log[i]) : i \in 1..Len(log)}

Phase == {"idle", "hello", "up"}
ServerState == {"closed", "accepted", "joined"}

TypeOK ==
    /\ swal \in Seq(Entry)
    /\ cwal \in [Client -> Seq(Entry)]
    /\ sendQ \in [Client -> SUBSET Entry]
    /\ sqFile \in [Client -> SUBSET Entry]
    /\ uplinkOut \in [Client -> Seq(Entry)]
    /\ uplinkIn \in [Client -> Seq(Packet)]
    /\ pending \in [Client -> SUBSET Entry]
    /\ unacked \in [Client -> Key \cup {NoKey}]
    /\ phase \in [Client -> Phase]
    /\ cur \in [Client -> Conn \cup {NoConn}]
    /\ srv \in [Conn -> ServerState]
    /\ c2s \in [Conn -> Seq(Entry)]
    /\ s2c \in [Conn -> Seq(Packet)]
    /\ walIndex \in [Conn -> Nat]
    /\ ackDue \in [Conn -> Key \cup {NoKey}]
    /\ submitted \in SUBSET Entry
    /\ acked \in [Client -> SUBSET Key]
    /\ submits \in 0..MaxSubmits
    /\ faults \in 0..MaxFaults

(***************************************************************************)
(* A session that has just been created: both files are empty, and no     *)
(* connection has been made.                                              *)
(***************************************************************************)
Init ==
    /\ swal = <<>>
    /\ cwal = [c \in Client |-> <<>>]
    /\ sendQ = [c \in Client |-> {}]
    /\ sqFile = [c \in Client |-> {}]
    /\ uplinkOut = [c \in Client |-> <<>>]
    /\ uplinkIn = [c \in Client |-> <<>>]
    /\ pending = [c \in Client |-> {}]
    /\ unacked = [c \in Client |-> NoKey]
    /\ phase = [c \in Client |-> "idle"]
    /\ cur = [c \in Client |-> NoConn]
    /\ srv = [x \in Conn |-> "closed"]
    /\ c2s = [x \in Conn |-> <<>>]
    /\ s2c = [x \in Conn |-> <<>>]
    /\ walIndex = [x \in Conn |-> 0]
    /\ ackDue = [x \in Conn |-> NoKey]
    /\ submitted = {}
    /\ acked = [c \in Client |-> {}]
    /\ submits = 0
    /\ faults = 0

(***************************************************************************)
(* A fault spends one unit of the budget.                                  *)
(***************************************************************************)
Fault == faults < MaxFaults /\ faults' = faults + 1

(***************************************************************************)
(* WAL.Append, as both sides use it: an entry whose key is in the log is   *)
(* accepted and changes nothing.                                           *)
(***************************************************************************)
\* Variant: no deduplication.
WalAppendAlways(log, e) == Append(log, e)

WalAppend(log, e) == IF DedupKey(e) \in Keys(log) THEN log ELSE Append(log, e)

(***************************************************************************)
(* SendQueue.Ack: forget the entry; empty the file when the last entry     *)
(* goes (and not when there was none to begin with).                       *)
(***************************************************************************)
AckedQueue(q, k) == {e \in q : DedupKey(e) # k}

SendQueueAck(c, k) ==
    /\ sendQ' = [sendQ EXCEPT ![c] = AckedQueue(sendQ[c], k)]
    /\ sqFile' =
         IF sendQ[c] # {} /\ AckedQueue(sendQ[c], k) = {}
         THEN [sqFile EXCEPT ![c] = {}]
         ELSE sqFile

(***************************************************************************)
(* SendQueue.Add: a duplicate key is dropped; otherwise the entry is       *)
(* written to the file and synced, then stored in memory.  When it fails,  *)
(* memory is unchanged, and the file has the entry or not, depending on    *)
(* whether it was the sync or an earlier step that failed.                 *)
(***************************************************************************)
\* Variant: the entry is kept in memory only.
SendQueueAddMemory(c, e) ==
    /\ sendQ' = [sendQ EXCEPT ![c] = @ \cup {e}]
    /\ UNCHANGED sqFile

SendQueueAdd(c, e) ==
    IF \E d \in sendQ[c] : DedupKey(d) = DedupKey(e)
    THEN UNCHANGED <<sendQ, sqFile>>
    ELSE /\ sendQ' = [sendQ EXCEPT ![c] = @ \cup {e}]
         /\ sqFile' = [sqFile EXCEPT ![c] = @ \cup {e}]

SendQueueAddFails(c, e) ==
    /\ AddMayFail
    /\ \A d \in sendQ[c] : DedupKey(d) # DedupKey(e)
    /\ UNCHANGED sendQ
    /\ \/ UNCHANGED sqFile
       \/ sqFile' = [sqFile EXCEPT ![c] = @ \cup {e}]

(***************************************************************************)
(* TrySendUplink: the packet is dropped when the channel is full.  NOPs    *)
(* and positions can fill the channel at any time.                         *)
(***************************************************************************)
TrySendUplink(c, e) ==
    \/ /\ Len(uplinkOut[c]) < OutCap
       /\ uplinkOut' = [uplinkOut EXCEPT ![c] = Append(@, e)]
    \/ UNCHANGED uplinkOut

-----------------------------------------------------------------------------
(***************************************************************************)
(* Client: the goroutine of handleMsgLoop.                                 *)
(***************************************************************************)

\* handleWalIn up to its call of newWalEntry, that call included.  The
\* result of SendQueue.Add is not looked at.
NewWalEntry(c, k) ==
    LET e == [key |-> k, player |-> c] IN
    /\ unacked[c] = NoKey
    /\ submits < MaxSubmits
    /\ \/ SendQueueAdd(c, e) /\ UNCHANGED faults
       \/ SendQueueAddFails(c, e) /\ Fault
    /\ TrySendUplink(c, e)
    /\ unacked' = [unacked EXCEPT ![c] = k]
    /\ submitted' = submitted \cup {e}
    /\ submits' = submits + 1
    /\ UNCHANGED <<swal, cwal, uplinkIn, pending, linkVars, srv, c2s, s2c,
                   walIndex, ackDue, acked>>

\* Variant: an ack is sent when there is nothing to acknowledge.
AckGameAlways(c) ==
    /\ acked' = [acked EXCEPT ![c] = @ \cup {unacked[c]}]
    /\ unacked' = [unacked EXCEPT ![c] = NoKey]
    /\ UNCHANGED <<swal, cwal, sendQ, sqFile, uplinkOut, uplinkIn, pending,
                   linkVars, srv, c2s, s2c, walIndex, ackDue, submitted,
                   submits, faults>>

\* The rest of handleWalIn: the OpWalAck to the game.
AckGame(c) ==
    /\ unacked[c] # NoKey
    /\ acked' = [acked EXCEPT ![c] = @ \cup {unacked[c]}]
    /\ unacked' = [unacked EXCEPT ![c] = NoKey]
    /\ UNCHANGED <<swal, cwal, sendQ, sqFile, uplinkOut, uplinkIn, pending,
                   linkVars, srv, c2s, s2c, walIndex, ackDue, submitted,
                   submits, faults>>

(***************************************************************************)
(* Client: the goroutine of handleSendQueue.  It takes a snapshot of the   *)
(* queue, sends all of it (the order is that of a Go map, hence any), and  *)
(* starts again ten seconds later.                                         *)
(***************************************************************************)
TakePending(c) ==
    /\ pending[c] = {}
    /\ sendQ[c] # {}
    /\ pending' = [pending EXCEPT ![c] = sendQ[c]]
    /\ UNCHANGED <<cwal, sendQ, sqFile, uplinkOut, uplinkIn, unacked, linkVars,
                   serverVars, c2s, s2c, history, faults>>

SendPending(c) ==
    /\ Len(uplinkOut[c]) < OutCap
    /\ \E e \in pending[c] :
         /\ pending' = [pending EXCEPT ![c] = @ \ {e}]
         /\ uplinkOut' = [uplinkOut EXCEPT ![c] = Append(@, e)]
    /\ UNCHANGED <<cwal, sendQ, sqFile, uplinkIn, unacked, linkVars,
                   serverVars, c2s, s2c, history, faults>>

(***************************************************************************)
(* Client: handleUplinkConn and the goroutines it starts.                  *)
(***************************************************************************)

\* Variant: the channels are not drained.
DialNoDrain(c, x) ==
    /\ phase[c] = "idle"
    /\ srv[x] = "closed"
    /\ \A d \in Client : cur[d] # x
    /\ phase' = [phase EXCEPT ![c] = "hello"]
    /\ cur' = [cur EXCEPT ![c] = x]
    /\ srv' = [srv EXCEPT ![x] = "accepted"]
    /\ walIndex' = [walIndex EXCEPT ![x] = Len(cwal[c])]
    /\ UNCHANGED <<swal, clientVars, c2s, s2c, ackDue, history, faults>>

\* Connect, drain both channels, and send the hello.  The connection is a
\* new one: neither end of it is in use.
Dial(c, x) ==
    /\ phase[c] = "idle"
    /\ srv[x] = "closed"
    /\ \A d \in Client : cur[d] # x
    /\ phase' = [phase EXCEPT ![c] = "hello"]
    /\ cur' = [cur EXCEPT ![c] = x]
    /\ uplinkIn' = [uplinkIn EXCEPT ![c] = <<>>]
    /\ uplinkOut' = [uplinkOut EXCEPT ![c] = <<>>]
    /\ srv' = [srv EXCEPT ![x] = "accepted"]
    /\ walIndex' = [walIndex EXCEPT ![x] = Len(cwal[c])]
    /\ UNCHANGED <<swal, cwal, sendQ, sqFile, pending, unacked, c2s, s2c,
                   ackDue, history, faults>>

\* handshake: the server's reply has come.
HelloReply(c) ==
    /\ phase[c] = "hello"
    /\ s2c[cur[c]] # <<>>
    /\ Head(s2c[cur[c]]).op = "hello"
    /\ s2c' = [s2c EXCEPT ![cur[c]] = Tail(@)]
    /\ phase' = [phase EXCEPT ![c] = "up"]
    /\ UNCHANGED <<clientVars, cur, serverVars, c2s, history, faults>>

\* pumpOut.  What is written to a connection the server has left is lost.
PumpOut(c) ==
    /\ phase[c] = "up"
    /\ uplinkOut[c] # <<>>
    /\ uplinkOut' = [uplinkOut EXCEPT ![c] = Tail(@)]
    /\ \/ /\ srv[cur[c]] # "closed"
          /\ Len(c2s[cur[c]]) < NetCap
          /\ c2s' = [c2s EXCEPT ![cur[c]] = Append(@, Head(uplinkOut[c]))]
       \/ srv[cur[c]] = "closed" /\ UNCHANGED c2s
    /\ UNCHANGED <<cwal, sendQ, sqFile, uplinkIn, pending, unacked, linkVars,
                   serverVars, s2c, history, faults>>

\* pumpIn: blocks while uplinkIn is full.
PumpIn(c) ==
    /\ phase[c] = "up"
    /\ s2c[cur[c]] # <<>>
    /\ Len(uplinkIn[c]) < InCap
    /\ uplinkIn' = [uplinkIn EXCEPT ![c] = Append(@, Head(s2c[cur[c]]))]
    /\ s2c' = [s2c EXCEPT ![cur[c]] = Tail(@)]
    /\ UNCHANGED <<cwal, sendQ, sqFile, uplinkOut, pending, unacked, linkVars,
                   serverVars, c2s, history, faults>>

\* handlePackets and handleUplinkPacket, for an OpWal ...
HandleServerWal(c) ==
    /\ phase[c] = "up"
    /\ uplinkIn[c] # <<>>
    /\ Head(uplinkIn[c]).op = "wal"
    /\ LET e == Head(uplinkIn[c]).entry IN
         /\ cwal' = [cwal EXCEPT ![c] = WalAppend(@, e)]
         /\ SendQueueAck(c, DedupKey(e))
    /\ uplinkIn' = [uplinkIn EXCEPT ![c] = Tail(@)]
    /\ UNCHANGED <<uplinkOut, pending, unacked, linkVars, serverVars, c2s, s2c,
                   history, faults>>

\* Variant: the ack alone makes the client append its own entry.
HandleServerAckAppends(c) ==
    /\ phase[c] = "up"
    /\ uplinkIn[c] # <<>>
    /\ Head(uplinkIn[c]).op = "ack"
    /\ cwal' = [cwal EXCEPT ![c] =
                   WalAppend(@, [key |-> Head(uplinkIn[c]).key, player |-> c])]
    /\ SendQueueAck(c, Head(uplinkIn[c]).key)
    /\ uplinkIn' = [uplinkIn EXCEPT ![c] = Tail(@)]
    /\ UNCHANGED <<uplinkOut, pending, unacked, linkVars, serverVars,
                   c2s, s2c, history, faults>>

\* ... and for an OpWalAck.
HandleServerAck(c) ==
    /\ phase[c] = "up"
    /\ uplinkIn[c] # <<>>
    /\ Head(uplinkIn[c]).op = "ack"
    /\ SendQueueAck(c, Head(uplinkIn[c]).key)
    /\ uplinkIn' = [uplinkIn EXCEPT ![c] = Tail(@)]
    /\ UNCHANGED <<cwal, uplinkOut, pending, unacked, linkVars, serverVars,
                   c2s, s2c, history, faults>>

\* The end of handleUplinkConn, after wg.Wait: what the goroutines do after
\* the cancellation they could as well have done before it.  What it has
\* not read of the connection is lost.
Disconnect(c) ==
    /\ phase' = [phase EXCEPT ![c] = "idle"]
    /\ cur' = [cur EXCEPT ![c] = NoConn]
    /\ s2c' = [x \in Conn |-> IF x = cur[c] THEN <<>> ELSE s2c[x]]

\* WAL.Append fails: the packet is consumed, handlePackets returns and
\* cancels the connection.  uplinkIn keeps the packets behind it.
HandleServerWalFails(c) ==
    /\ phase[c] = "up"
    /\ uplinkIn[c] # <<>>
    /\ Head(uplinkIn[c]).op = "wal"
    /\ DedupKey(Head(uplinkIn[c]).entry) \notin Keys(cwal[c])
    /\ uplinkIn' = [uplinkIn EXCEPT ![c] = Tail(@)]
    /\ Disconnect(c)
    /\ Fault
    /\ UNCHANGED <<cwal, sendQ, sqFile, uplinkOut, pending, unacked,
                   serverVars, c2s, history>>

\* A read or a write fails, or times out, on a connection the server has
\* not left.
LinkLost(c) ==
    /\ phase[c] # "idle"
    /\ srv[cur[c]] # "closed"
    /\ Disconnect(c)
    /\ Fault
    /\ UNCHANGED <<clientVars, serverVars, c2s, history>>

\* A read or a write fails because the server has left the connection.
LinkClosed(c) ==
    /\ phase[c] # "idle"
    /\ srv[cur[c]] = "closed"
    /\ Disconnect(c)
    /\ UNCHANGED <<clientVars, serverVars, c2s, history, faults>>

\* Everything but the files is gone; the session is run again later and
\* loads its send queue from the file.
LoseMemory(c) ==
    /\ sendQ' = [sendQ EXCEPT ![c] = sqFile[c]]
    /\ pending' = [pending EXCEPT ![c] = {}]
    /\ unacked' = [unacked EXCEPT ![c] = NoKey]
    /\ uplinkOut' = [uplinkOut EXCEPT ![c] = <<>>]
    /\ uplinkIn' = [uplinkIn EXCEPT ![c] = <<>>]
    /\ Disconnect(c)
    /\ Fault
    /\ UNCHANGED <<sqFile, serverVars, c2s, history>>

\* The client crashes, or the game goes away and the session ends.
Restart(c) == LoseMemory(c) /\ UNCHANGED cwal

\* The client crashes in handleUplinkPacket, after the append to its WAL and
\* before the ack to its send queue.
CrashBeforeAck(c) ==
    /\ phase[c] = "up"
    /\ uplinkIn[c] # <<>>
    /\ Head(uplinkIn[c]).op = "wal"
    /\ cwal' = [cwal EXCEPT ![c] = WalAppend(@, Head(uplinkIn[c]).entry)]
    /\ LoseMemory(c)

-----------------------------------------------------------------------------
(***************************************************************************)
(* Server: handleClient, Join and the goroutines of a Player.              *)
(***************************************************************************)

\* Write a packet to the connection; blocks while it is full.  What is
\* written to a connection the client has left is lost.
Write(x, pkt) ==
    /\ Len(s2c[x]) < NetCap
    /\ s2c' = IF \E c \in Client : cur[c] = x
               THEN [s2c EXCEPT ![x] = Append(@, pkt)]
               ELSE s2c

\* Variant: a player is streamed what is appended after it joined.
JoinAtEnd(x) ==
    /\ srv[x] = "accepted"
    /\ srv' = [srv EXCEPT ![x] = "joined"]
    /\ walIndex' = [walIndex EXCEPT ![x] = Len(swal)]
    /\ Write(x, HelloPacket)
    /\ UNCHANGED <<clientVars, linkVars, swal, ackDue, c2s, history, faults>>

\* The hello is read, the session acquired, and the reply written before
\* any goroutine of the player runs.
Join(x) ==
    /\ srv[x] = "accepted"
    /\ srv' = [srv EXCEPT ![x] = "joined"]
    /\ Write(x, HelloPacket)
    /\ UNCHANGED <<clientVars, linkVars, swal, walIndex, ackDue, c2s, history,
                   faults>>

\* handleWalStream: the next entry of the WAL, blocking while the
\* connection is full.
StreamNext(x) ==
    /\ srv[x] = "joined"
    /\ walIndex[x] < Len(swal)
    /\ Write(x, WalPacket(walIndex[x], swal[walIndex[x] + 1]))
    /\ walIndex' = [walIndex EXCEPT ![x] = @ + 1]
    /\ UNCHANGED <<clientVars, linkVars, swal, srv, ackDue, c2s, history, faults>>

\* Variant: the error of Append is ignored.
HandleWalIgnoresError(x) ==
    /\ srv[x] = "joined"
    /\ ackDue[x] = NoKey
    /\ c2s[x] # <<>>
    /\ swal' \in {swal, WalAppend(swal, Head(c2s[x]))}
    /\ ackDue' = [ackDue EXCEPT ![x] = DedupKey(Head(c2s[x]))]
    /\ c2s' = [c2s EXCEPT ![x] = Tail(@)]
    /\ UNCHANGED <<clientVars, linkVars, srv, walIndex, s2c, history, faults>>

\* Variant: an entry that is already in the WAL is not acknowledged.
HandleWalAcksNew(x) ==
    /\ srv[x] = "joined"
    /\ ackDue[x] = NoKey
    /\ c2s[x] # <<>>
    /\ swal' = WalAppend(swal, Head(c2s[x]))
    /\ ackDue' = IF DedupKey(Head(c2s[x])) \in Keys(swal)
                 THEN ackDue
                 ELSE [ackDue EXCEPT ![x] = DedupKey(Head(c2s[x]))]
    /\ c2s' = [c2s EXCEPT ![x] = Tail(@)]
    /\ UNCHANGED <<clientVars, linkVars, srv, walIndex, s2c, history, faults>>

\* handlePacket for an OpWal, up to the ack.
HandleWal(x) ==
    /\ srv[x] = "joined"
    /\ ackDue[x] = NoKey
    /\ c2s[x] # <<>>
    /\ swal' = WalAppend(swal, Head(c2s[x]))
    /\ ackDue' = [ackDue EXCEPT ![x] = DedupKey(Head(c2s[x]))]
    /\ c2s' = [c2s EXCEPT ![x] = Tail(@)]
    /\ UNCHANGED <<clientVars, linkVars, srv, walIndex, s2c, history, faults>>

\* The ack of handlePacket, blocking while the connection is full.
SendAck(x) ==
    /\ srv[x] = "joined"
    /\ ackDue[x] # NoKey
    /\ Write(x, AckPacket(ackDue[x]))
    /\ ackDue' = [ackDue EXCEPT ![x] = NoKey]
    /\ UNCHANGED <<clientVars, linkVars, swal, srv, walIndex, c2s, history, faults>>

\* The end of Join: what was not handled is lost, what was written may
\* still reach the client.
ServerClose(x) ==
    /\ srv' = [srv EXCEPT ![x] = "closed"]
    /\ c2s' = [c2s EXCEPT ![x] = <<>>]
    /\ ackDue' = [ackDue EXCEPT ![x] = NoKey]
    /\ walIndex' = [walIndex EXCEPT ![x] = 0]

\* A goroutine of the player fails (I/O error, receive timeout, a WAL
\* append that failed) on a connection its client has not left.
PlayerLost(x) ==
    /\ srv[x] # "closed"
    /\ \E c \in Client : cur[c] = x
    /\ ServerClose(x)
    /\ Fault
    /\ UNCHANGED <<clientVars, linkVars, swal, s2c, history>>

\* The server notices that the client has left the connection.
PlayerGone(x) ==
    /\ srv[x] # "closed"
    /\ \A c \in Client : cur[c] # x
    /\ ServerClose(x)
    /\ UNCHANGED <<clientVars, linkVars, swal, s2c, history, faults>>

\* The server process stops and is started again: it opens its WAL again
\* when the first client of the session comes back.
ServerRestart ==
    /\ srv' = [x \in Conn |-> "closed"]
    /\ c2s' = [x \in Conn |-> <<>>]
    /\ ackDue' = [x \in Conn |-> NoKey]
    /\ walIndex' = [x \in Conn |-> 0]
    /\ Fault
    /\ UNCHANGED <<clientVars, linkVars, swal, s2c, history>>

-----------------------------------------------------------------------------
ClientNext(c) ==
    \/ \E k \in GameKeys[c] : NewWalEntry(c, k)
    \/ AckGame(c)
    \/ TakePending(c)
    \/ SendPending(c)
    \/ \E x \in Conn : Dial(c, x)
    \/ HelloReply(c)
    \/ PumpOut(c)
    \/ PumpIn(c)
    \/ HandleServerWal(c)
    \/ HandleServerAck(c)
    \/ HandleServerWalFails(c)
    \/ LinkLost(c)
    \/ LinkClosed(c)
    \/ Restart(c)
    \/ CrashBeforeAck(c)

ServerNext(x) ==
    \/ Join(x)
    \/ StreamNext(x)
    \/ HandleWal(x)
    \/ SendAck(x)
    \/ PlayerLost(x)
    \/ PlayerGone(x)

Next ==
    \/ \E c \in Client : ClientNext(c)
    \/ \E x \in Conn : ServerNext(x)
    \/ ServerRestart

Spec == Init /\ [][Next]_vars

(***************************************************************************)
(* Fairness, one conjunct per goroutine: a goroutine that can take a step  *)
(* for ever takes one.  That is what the Go scheduler and the timers of    *)
(* the retries give.  Nothing obliges a game to produce an entry, and no   *)
(* fault has to happen.                                                    *)
(***************************************************************************)
HandleUplinkConn(c) ==
    (\E x \in Conn : Dial(c, x)) \/ HelloReply(c) \/ LinkClosed(c)

ClientFairness(c) ==
    /\ WF_vars(AckGame(c))
    /\ WF_vars(TakePending(c) \/ SendPending(c))
    /\ WF_vars(HandleUplinkConn(c))
    /\ WF_vars(PumpOut(c))
    /\ WF_vars(PumpIn(c))
    /\ WF_vars(HandleServerWal(c) \/ HandleServerAck(c))

ServerFairness(x) ==
    /\ WF_vars(Join(x) \/ PlayerGone(x))
    /\ WF_vars(StreamNext(x))
    /\ WF_vars(HandleWal(x) \/ SendAck(x))

Fairness ==
    /\ \A c \in Client : ClientFairness(c)
    /\ \A x \in Conn : ServerFairness(x)

FairSpec == Spec /\ Fairness

-----------------------------------------------------------------------------
(***************************************************************************)
(* Properties.                                                             *)
(***************************************************************************)

\* The WAL of every client is a prefix of the server's: whatever the game
\* reads at an index (sendGameWal) is what every other game reads there.
\* The index in an OpWal is not looked at when the entry is appended
\* (handleUplinkPacket), so this rests on the order of the stream, on the
\* WalIndex of the hello, and on the drain of uplinkIn before it.
ReplicaPrefix ==
    \A c \in Client :
        /\ Len(cwal[c]) <= Len(swal)
        /\ \A i \in 1..Len(cwal[c]) : cwal[c][i] = swal[i]

\* An entry that was acknowledged to its game is in the server's WAL, or is
\* both in the send queue and in its file: neither the loss of a connection
\* nor a crash of either side loses it, although Ack truncates the file and
\* TrySendUplink drops packets.
NoLostEntry ==
    \A c \in Client : \A k \in acked[c] :
        k \in Keys(swal) \/ \E e \in sendQ[c] \cap sqFile[c] : DedupKey(e) = k

\* handleWalIn acknowledges an entry to its game when newWalEntry has put it
\* into the send queue: an entry that was acknowledged is somewhere, in the
\* server's WAL, in a queue or a channel of its client, in the queue's file, or
\* on its way to the server.
AckedNotForgotten ==
    \A c \in Client : \A k \in acked[c] :
        \/ k \in Keys(swal)
        \/ \E e \in sendQ[c] \cup sqFile[c] \cup pending[c] : DedupKey(e) = k
        \/ k \in Keys(uplinkOut[c])
        \/ \E x \in Conn : k \in Keys(c2s[x])

\* What a packet to a client says of the log is true.
Told(log, pkt) ==
    /\ pkt.op = "ack" => pkt.key \in Keys(log)
    /\ pkt.op = "wal" => pkt.index < Len(log) /\ pkt.entry = log[pkt.index + 1]

\* An ack the server owes, or that is on its way, is for an entry that is in
\* the WAL, and so is every entry on its way to a client, at the index it
\* carries: no packet outruns the append it reports, on old connections too.
PacketsTellCommitted ==
    /\ \A x \in Conn : ackDue[x] \in Keys(swal) \cup {NoKey}
    /\ \A x \in Conn : \A p \in 1..Len(s2c[x]) : Told(swal, s2c[x][p])
    /\ \A c \in Client : \A p \in 1..Len(uplinkIn[c]) : Told(swal, uplinkIn[c][p])

\* A client is connected or idle, and no two clients share a connection;
\* what is written to a connection nobody reads is lost.
LinkOK ==
    /\ \A c \in Client : phase[c] = "idle" <=> cur[c] = NoConn
    /\ \A c, d \in Client : cur[c] = cur[d] /\ cur[c] # NoConn => c = d
    /\ \A x \in Conn : (\A c \in Client : cur[c] # x) => s2c[x] = <<>>

\* A WAL packet with the index before i is among the first n of the queue.
Announced(q, n, i) == \E r \in 1..n : q[r].op = "wal" /\ q[r].index + 1 = i

\* The queues in (uplinkIn) and net (s2c) of a client with n entries: no entry
\* is ahead of its predecessor, which the client has or which comes earlier;
\* and while the server streams, that goes for its next entry w as well.
Pipe(n, in, net, w, streaming) ==
    /\ \A p \in 1..Len(in) : in[p].op = "wal" =>
         in[p].index <= n \/ Announced(in, p - 1, in[p].index)
    /\ \A p \in 1..Len(net) : net[p].op = "wal" =>
         \/ net[p].index <= n
         \/ Announced(in, Len(in), net[p].index)
         \/ Announced(net, p - 1, net[p].index)
    /\ streaming =>
         w <= n \/ Announced(in, Len(in), w) \/ Announced(net, Len(net), w)

\* On the connection of a client, no entry can arrive before its predecessor.
\* It is what the drain in handleUplinkConn and the WalIndex of the hello
\* establish, for a client that never looks at the index of a packet.
GapFree ==
    \A c \in Client : cur[c] # NoConn =>
        Pipe(Len(cwal[c]), uplinkIn[c], s2c[cur[c]], walIndex[cur[c]],
             srv[cur[c]] # "closed")

\* No two entries of the server's WAL have one key.
UniqueKeys ==
    \A i, j \in 1..Len(swal) : DedupKey(swal[i]) = DedupKey(swal[j]) => i = j

\* The send queue and its file: what is in memory is in the file, what is in
\* the file only has been committed, and a key the client has accepted from
\* its game is in the queue or committed.
QueueCovers ==
    \A c \in Client :
        /\ sendQ[c] \subseteq sqFile[c]
        /\ \A e \in sqFile[c] : e \in sendQ[c] \/ DedupKey(e) \in Keys(swal)
        /\ \A k \in acked[c] \cup {unacked[c]} :
             \/ k = NoKey
             \/ k \in Keys(swal)
             \/ \E e \in sendQ[c] : DedupKey(e) = k

\* Replication implements SharedLog: every append to the server's WAL is one
\* of an entry some game handed over, with a new key; every append to a
\* client's WAL is the next entry of the server's.
Shared == INSTANCE SharedLog WITH log <- swal, learned <- cwal

ImplementsSharedLog == Shared!Spec

\* With finitely many faults, an entry acknowledged to its game reaches the
\* server's WAL and then the WAL of every client: handleSendQueue retries
\* what TrySendUplink or a broken connection lost.
Delivered ==
    \A c \in Client, k \in Key :
        k \in acked[c] ~> \A d \in Client : k \in Keys(cwal[d])

\* An entry does not stay in the send queue for ever: it is acknowledged even
\* when the ack of an earlier attempt was lost with its connection.
QueueDrains ==
    \A c \in Client, k \in Key :
        (\E e \in sendQ[c] : DedupKey(e) = k)
            ~> (\A e \in sendQ[c] : DedupKey(e) # k)
=============================================================================
