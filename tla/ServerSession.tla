--------------------------- MODULE ServerSession ---------------------------
(***************************************************************************)
(* The life of a session on the server: handleClient, acquireSession and   *)
(* releaseSession of the App, and Join with the four goroutines of a       *)
(* Player.                                                                 *)
(*                                                                         *)
(* The App keeps one Session object per session identifier, counted, with  *)
(* one open WAL; the object is closed when the last connection releases    *)
(* it, and a later connection opens a new object on the same file.  What   *)
(* the packets say about the WAL is the subject of module Replication,     *)
(* how a stream waits for an append that of WALStream.                     *)
(***************************************************************************)
EXTENDS Naturals, FiniteSets

CONSTANTS
    Conn,        \* TCP connections (an identity is used again when it is free)
    SessionID,   \* session identifiers
    Secret,      \* session secrets
    Handle,      \* Session objects (used again when nothing refers to them)
    NoHandle,    \* not a Session object
    NoHello,     \* no hello has been received
    InCap,       \* capacity of Player.in
    OutCap       \* capacity of Player.out

ASSUME ServerSessionAssumption ==
    /\ NoHandle \notin Handle
    /\ InCap \in Nat \ {0}
    /\ OutCap \in Nat \ {0}

VARIABLES
    stopped,     \* is the App's context done?
    sessions,    \* App.sessions
    object,      \* the Session objects: identifier and secret, count, open WAL
    players,     \* Session.players
    pc,          \* where handleClient stands, for every connection
    hello,       \* the hello of the connection
    session,     \* the Session object handleClient has acquired
    running,     \* the goroutines of the Player that have not returned
    cancelled,   \* has the Player's own cancel been called?
    in,          \* number of packets in Player.in
    out,         \* number of packets in Player.out
    first        \* history: what the first packet written was

appVars == <<stopped, sessions, object>>
playerVars == <<running, cancelled, in, out, first>>
sessionVars == <<stopped, sessions, object, players, pc, hello, session,
                 running, cancelled, in, out, first>>

Goroutine == {"msgIn", "msgOut", "packets", "walStream"}
Hello == [id : SessionID, secret : Secret]

\* An object that nobody uses, or one whose session was closed.
Closed == [of |-> NoHello, count |-> 0, open |-> FALSE]

TypeOK ==
    /\ stopped \in BOOLEAN
    /\ sessions \in [SessionID -> Handle \cup {NoHandle}]
    /\ object \in [Handle -> [of : Hello \cup {NoHello}, count : Nat, open : BOOLEAN]]
    /\ players \in [Handle -> SUBSET Conn]
    /\ pc \in [Conn -> {"free", "accepted", "join", "reply", "run", "wait", "release"}]
    /\ hello \in [Conn -> Hello \cup {NoHello}]
    /\ session \in [Conn -> Handle \cup {NoHandle}]
    /\ running \in [Conn -> SUBSET Goroutine]
    /\ cancelled \in [Conn -> BOOLEAN]
    /\ in \in [Conn -> 0..InCap]
    /\ out \in [Conn -> 0..OutCap]
    /\ first \in [Conn -> {"none", "hello", "other"}]
    /\ \A x \in Conn : session[x] = NoHandle <=> pc[x] \in {"free", "accepted"}

Init ==
    /\ stopped = FALSE
    /\ sessions = [i \in SessionID |-> NoHandle]
    /\ object = [h \in Handle |-> Closed]
    /\ players = [h \in Handle |-> {}]
    /\ pc = [x \in Conn |-> "free"]
    /\ hello = [x \in Conn |-> NoHello]
    /\ session = [x \in Conn |-> NoHandle]
    /\ running = [x \in Conn |-> {}]
    /\ cancelled = [x \in Conn |-> FALSE]
    /\ in = [x \in Conn |-> 0]
    /\ out = [x \in Conn |-> 0]
    /\ first = [x \in Conn |-> "none"]

Goto(x, label) == pc' = [pc EXCEPT ![x] = label]

\* handleClient returns, and the connection is closed.
Return(x) ==
    /\ Goto(x, "free")
    /\ hello' = [hello EXCEPT ![x] = NoHello]
    /\ session' = [session EXCEPT ![x] = NoHandle]

-----------------------------------------------------------------------------
(***************************************************************************)
(* The App.                                                                *)
(***************************************************************************)

\* The context of the App ends: no connection is accepted any more, and the
\* contexts of all sessions and players end.
Stop ==
    /\ ~stopped
    /\ stopped' = TRUE
    /\ UNCHANGED <<sessions, object, players, pc, hello, session, playerVars>>

\* run: AcceptTCP, and the hello the client sends.
Accept(x, h) ==
    /\ ~stopped
    /\ pc[x] = "free"
    /\ Goto(x, "accepted")
    /\ hello' = [hello EXCEPT ![x] = h]
    /\ UNCHANGED <<appVars, players, session, playerVars>>

\* handleClient: no packet in time, no hello, or one that does not parse.
NoHelloReceived(x) ==
    /\ pc[x] = "accepted"
    /\ Return(x)
    /\ UNCHANGED <<appVars, players, playerVars>>

Refers(h) == \E x \in Conn : session[x] = h

\* Variant: the count is not incremented.
AcquireUncounted(x) ==
    LET h == sessions[hello[x].id] IN
    /\ pc[x] = "accepted"
    /\ h # NoHandle
    /\ object[h].of.secret = hello[x].secret
    /\ session' = [session EXCEPT ![x] = h]
    /\ Goto(x, "join")
    /\ UNCHANGED <<appVars, players, hello, playerVars>>

\* acquireSession, for a session that is open ...
Acquire(x) ==
    LET h == sessions[hello[x].id] IN
    /\ pc[x] = "accepted"
    /\ h # NoHandle
    /\ object[h].of.secret = hello[x].secret
    /\ object' = [object EXCEPT ![h].count = @ + 1]
    /\ session' = [session EXCEPT ![x] = h]
    /\ Goto(x, "join")
    /\ UNCHANGED <<stopped, sessions, players, hello, playerVars>>

\* Variant: the release is deferred before the error is looked at.
AcquireRefusedReleases(x) ==
    /\ pc[x] = "accepted"
    /\ sessions[hello[x].id] # NoHandle
    /\ object[sessions[hello[x].id]].of.secret # hello[x].secret
    /\ Goto(x, "release")
    /\ UNCHANGED <<appVars, players, hello, session, playerVars>>

\* ... with another secret ...
AcquireRefused(x) ==
    /\ pc[x] = "accepted"
    /\ sessions[hello[x].id] # NoHandle
    /\ object[sessions[hello[x].id]].of.secret # hello[x].secret
    /\ Return(x)
    /\ UNCHANGED <<appVars, players, playerVars>>

\* ... and for one that is not: OpenSession makes a new object and opens the
\* WAL, or fails.
AcquireOpens(x, h) ==
    /\ pc[x] = "accepted"
    /\ sessions[hello[x].id] = NoHandle
    /\ ~object[h].open /\ ~Refers(h)
    /\ object' = [object EXCEPT ![h] = [of |-> hello[x], count |-> 1, open |-> TRUE]]
    /\ sessions' = [sessions EXCEPT ![hello[x].id] = h]
    /\ session' = [session EXCEPT ![x] = h]
    /\ Goto(x, "join")
    /\ UNCHANGED <<stopped, players, hello, playerVars>>

AcquireFails(x) ==
    /\ pc[x] = "accepted"
    /\ sessions[hello[x].id] = NoHandle
    /\ Return(x)
    /\ UNCHANGED <<appVars, players, playerVars>>

\* Variant: the session is closed by whoever leaves first.
ReleaseFirst(x) ==
    LET h == sessions[hello[x].id] IN
    /\ pc[x] = "release"
    /\ IF h = NoHandle
       THEN UNCHANGED <<object, sessions>>
       ELSE /\ object' = [object EXCEPT ![h] = Closed]
            /\ sessions' = [sessions EXCEPT ![hello[x].id] = NoHandle]
    /\ Return(x)
    /\ UNCHANGED <<stopped, players, playerVars>>

\* releaseSession, of the session that has the identifier of the hello; the
\* last one closes the session: cancel, and WAL.Close.
Release(x) ==
    LET h == sessions[hello[x].id] IN
    /\ pc[x] = "release"
    /\ IF h = NoHandle
       THEN UNCHANGED <<object, sessions>>
       ELSE IF object[h].count <= 1
       THEN /\ object' = [object EXCEPT ![h] = Closed]
            /\ sessions' = [sessions EXCEPT ![hello[x].id] = NoHandle]
       ELSE /\ object' = [object EXCEPT ![h].count = @ - 1]
            /\ UNCHANGED sessions
    /\ Return(x)
    /\ UNCHANGED <<stopped, players, playerVars>>

-----------------------------------------------------------------------------
(***************************************************************************)
(* Join.                                                                   *)
(***************************************************************************)

\* The Player's context ends with its cancel, with the session's, and with
\* the App's.
Done(x) == cancelled[x] \/ stopped \/ ~object[session[x]].open

\* Variant: the goroutines are started with the registration.
RegisterAndRun(x) ==
    /\ pc[x] = "join"
    /\ players' = [players EXCEPT ![session[x]] = @ \cup {x}]
    /\ running' = [running EXCEPT ![x] = Goroutine]
    /\ Goto(x, "reply")
    /\ UNCHANGED <<appVars, hello, session, cancelled, in, out, first>>

\* The Player is made and registered: from now on it is sent positions.
Register(x) ==
    /\ pc[x] = "join"
    /\ players' = [players EXCEPT ![session[x]] = @ \cup {x}]
    /\ Goto(x, "reply")
    /\ UNCHANGED <<appVars, hello, session, playerVars>>

\* The first packet of a connection is remembered.
FirstWritten(x, op) ==
    first' = [first EXCEPT ![x] = IF @ = "none" THEN op ELSE @]

\* The hello is written, then the goroutines start.
Reply(x) ==
    /\ pc[x] = "reply"
    /\ FirstWritten(x, "hello")
    /\ running' = [running EXCEPT ![x] = Goroutine]
    /\ Goto(x, "run")
    /\ UNCHANGED <<appVars, players, hello, session, cancelled, in, out>>

\* The end of Join: the Player is gone.
Unregister(x) ==
    /\ players' = [players EXCEPT ![session[x]] = @ \ {x}]
    /\ cancelled' = [cancelled EXCEPT ![x] = FALSE]
    /\ in' = [in EXCEPT ![x] = 0]
    /\ out' = [out EXCEPT ![x] = 0]
    /\ first' = [first EXCEPT ![x] = "none"]
    /\ Goto(x, "release")

\* The hello cannot be written: Join returns.
ReplyFails(x) ==
    /\ pc[x] = "reply"
    /\ Unregister(x)
    /\ UNCHANGED <<appVars, hello, session, running>>

\* The context is done: the connection is closed ...
CloseConn(x) ==
    /\ pc[x] = "run"
    /\ Done(x)
    /\ Goto(x, "wait")
    /\ UNCHANGED <<appVars, players, hello, session, playerVars>>

\* Variant: Join does not wait for the goroutines.
LeaveAtOnce(x) ==
    /\ pc[x] = "wait"
    /\ Unregister(x)
    /\ UNCHANGED <<appVars, hello, session, running>>

\* ... and Join returns once the goroutines have.
Leave(x) ==
    /\ pc[x] = "wait"
    /\ running[x] = {}
    /\ Unregister(x)
    /\ UNCHANGED <<appVars, hello, session, running>>

-----------------------------------------------------------------------------
(***************************************************************************)
(* The goroutines of a Player.                                             *)
(***************************************************************************)
Runs(x, g) == g \in running[x]

\* A goroutine returns, and its deferred cancel ends the Player's context.
GoroutineReturns(x, g) ==
    /\ running' = [running EXCEPT ![x] = @ \ {g}]
    /\ cancelled' = [cancelled EXCEPT ![x] = TRUE]

\* handleMsgIn: a packet from the client, while the connection is open.
MsgIn(x) ==
    /\ Runs(x, "msgIn")
    /\ pc[x] = "run"
    /\ in[x] < InCap
    /\ in' = [in EXCEPT ![x] = @ + 1]
    /\ UNCHANGED <<appVars, players, pc, hello, session, running, cancelled, out, first>>

\* A read fails or times out: the client has gone, or Join closed the
\* connection; or the context is done.
MsgInReturns(x) ==
    /\ Runs(x, "msgIn")
    /\ GoroutineReturns(x, "msgIn")
    /\ UNCHANGED <<appVars, players, pc, hello, session, in, out, first>>

\* handleMsgOut: a packet is written, while the connection is open.  (A NOP is
\* written when there is none.)
MsgOut(x) ==
    /\ Runs(x, "msgOut")
    /\ pc[x] # "wait"
    /\ out[x] # 0
    /\ FirstWritten(x, "other")
    /\ out' = [out EXCEPT ![x] = @ - 1]
    /\ UNCHANGED <<appVars, players, pc, hello, session, running, cancelled, in>>

\* A write fails or times out, or the context is done.
MsgOutReturns(x) ==
    /\ Runs(x, "msgOut")
    /\ GoroutineReturns(x, "msgOut")
    /\ UNCHANGED <<appVars, players, pc, hello, session, in, out, first>>

\* BroadcastExcept: to every other player of the session that has room.
Broadcast(x) ==
    out' = [y \in Conn |->
              IF y \in players[session[x]] \ {x} /\ out[y] < OutCap
              THEN out[y] + 1
              ELSE out[y]]

\* Player.Send, while the channel has room.
Send(x) ==
    /\ out[x] < OutCap
    /\ out' = [out EXCEPT ![x] = @ + 1]

\* handlePackets, for a WAL entry (append, then ack), a position, or a packet
\* that is not answered (a NOP, or an opcode that is only logged): which of them
\* it is, is told when it is handled.  A packet whose ack waits in Send is
\* counted among those in Player.in.
HandlePacket(x) ==
    /\ Runs(x, "packets")
    /\ in[x] # 0
    /\ in' = [in EXCEPT ![x] = @ - 1]
    /\ Send(x) \/ Broadcast(x) \/ UNCHANGED out
    /\ UNCHANGED <<appVars, players, pc, hello, session, running, cancelled, first>>

\* The entry cannot be parsed, or Append fails.
HandlePacketFails(x) ==
    /\ Runs(x, "packets")
    /\ in[x] # 0
    /\ in' = [in EXCEPT ![x] = @ - 1]
    /\ GoroutineReturns(x, "packets")
    /\ UNCHANGED <<appVars, players, pc, hello, session, out, first>>

\* Variant: Send does not look at the context, and handlePackets blocks in it
\* when there is an ack to send and no room.
PacketsReturnsUnlessFull(x) ==
    /\ Runs(x, "packets")
    /\ Done(x)
    /\ out[x] < OutCap
    /\ GoroutineReturns(x, "packets")
    /\ UNCHANGED <<appVars, players, pc, hello, session, in, out, first>>

\* The context is done, while handlePackets waits for a packet or in Send.
PacketsReturns(x) ==
    /\ Runs(x, "packets")
    /\ Done(x)
    /\ GoroutineReturns(x, "packets")
    /\ UNCHANGED <<appVars, players, pc, hello, session, in, out, first>>

\* handleWalStream: the next entry, if there is one.
WalStream(x) ==
    /\ Runs(x, "walStream")
    /\ Send(x)
    /\ UNCHANGED <<appVars, players, pc, hello, session, running, cancelled, in, first>>

\* The context is done, while handleWalStream waits in Next or in Send.
WalStreamReturns(x) ==
    /\ Runs(x, "walStream")
    /\ Done(x)
    /\ GoroutineReturns(x, "walStream")
    /\ UNCHANGED <<appVars, players, pc, hello, session, in, out, first>>

-----------------------------------------------------------------------------
HandleClient(x) ==
    \/ NoHelloReceived(x)
    \/ Acquire(x)
    \/ AcquireRefused(x)
    \/ \E h \in Handle : AcquireOpens(x, h)
    \/ AcquireFails(x)
    \/ Register(x)
    \/ Reply(x)
    \/ ReplyFails(x)
    \/ CloseConn(x)
    \/ Leave(x)
    \/ Release(x)

PlayerNext(x) ==
    \/ MsgIn(x)
    \/ MsgInReturns(x)
    \/ MsgOut(x)
    \/ MsgOutReturns(x)
    \/ HandlePacket(x)
    \/ HandlePacketFails(x)
    \/ PacketsReturns(x)
    \/ WalStream(x)
    \/ WalStreamReturns(x)

Next ==
    \/ Stop
    \/ \E x \in Conn, h \in Hello : Accept(x, h)
    \/ \E x \in Conn : HandleClient(x)
    \/ \E x \in Conn : PlayerNext(x)

Spec == Init /\ [][Next]_sessionVars

(***************************************************************************)
(* Fairness: handleClient goes on, for its reads and writes have a time    *)
(* limit; and a goroutine of a player whose context is done gets to the    *)
(* select in which it waits (a read or a write on the closed connection    *)
(* fails).                                                                 *)
(***************************************************************************)
Fairness ==
    \A x \in Conn :
        /\ WF_sessionVars(HandleClient(x))
        /\ WF_sessionVars(pc[x] = "wait" /\ MsgInReturns(x))
        /\ WF_sessionVars(pc[x] = "wait" /\ MsgOutReturns(x))
        /\ WF_sessionVars(PacketsReturns(x))
        /\ WF_sessionVars(WalStreamReturns(x))

FairSpec == Spec /\ Fairness

-----------------------------------------------------------------------------
(***************************************************************************)
(* Properties.                                                             *)
(***************************************************************************)

\* No two Session objects have one session's WAL open, and whoever holds a
\* session holds the object of the map: two WAL objects on one file would
\* each append at an offset and to a memory of their own.
OneLogPerSession ==
    /\ \A g, h \in Handle :
         object[g].open /\ object[h].open /\ object[g].of.id = object[h].of.id => g = h
    /\ \A x \in Conn :
         session[x] # NoHandle => sessions[hello[x].id] = session[x]

\* No goroutine of a player outlives the WAL it appends to and reads from,
\* although releaseSession finds the session again by its identifier.
LogOpenInUse ==
    \A x \in Conn : running[x] # {} => session[x] # NoHandle /\ object[session[x]].open

\* The first packet on a connection is the hello, although the player is
\* among the receivers of BroadcastExcept before it: the client's handshake
\* gives up on any other packet.
HelloFirst == \A x \in Conn : first[x] \in {"none", "hello"}

\* A session nobody uses is closed, and a player that has left is not sent
\* positions: the count and the map of players are exact.
Exact ==
    \A h \in Handle :
        /\ object[h].count = Cardinality({x \in Conn : session[x] = h})
        /\ object[h].open <=> object[h].count > 0
        /\ players[h] = {x \in Conn : session[x] = h /\ pc[x] \in {"reply", "run", "wait"}}

\* A player whose context is done leaves: none of its goroutines blocks on a
\* channel that nobody empties.
PlayerLeaves ==
    \A x \in Conn : (pc[x] = "run" /\ Done(x)) ~> pc[x] = "free"

\* The server stops: every connection is done with, every session closed, and
\* run returns from its wg.Wait.
ServerStops ==
    stopped ~> (\A x \in Conn : pc[x] = "free") /\ (\A h \in Handle : ~object[h].open)
=============================================================================
