---------------------------- MODULE GameSession ----------------------------
(***************************************************************************)
(* A client and its game: the loop of the App, Run of a Session with its   *)
(* goroutines, and what they send to the game and to the daemon.           *)
(*                                                                         *)
(* The game connects, says hello, and sends numbered messages; handleMsgIn *)
(* queues them, handleMsgLoop acts on them, handleMsgOut numbers and       *)
(* writes the answers.  The uplink (module Replication) appends to the WAL *)
(* and hands positions to the PositionSystem, which sends them to the game *)
(* in between.  Run reports the start and the end of the session to the    *)
(* daemon, handleMsgLoop what the game tells, through one channel that     *)
(* outlives the session.                                                   *)
(*                                                                         *)
(* A socket between client and game is part of the channel next to it; an  *)
(* entry stands for its index; a message to the game that is not an entry  *)
(* is an ack or a position.                                                *)
(***************************************************************************)
EXTENDS Naturals, Sequences

CONSTANTS
    SeqLimit,    \* sequence numbers, 2^32 in the code
    Batch,       \* entries sent for one query, 16 in the code
    InCap,       \* capacity of msgIn
    OutCap,      \* capacity of msgOut
    MaxWal,      \* bound on the entries of the WAL
    MaxSessions  \* bound on the sessions of a behaviour

ASSUME GameSessionAssumption ==
    /\ {SeqLimit, Batch, InCap, OutCap} \subseteq Nat \ {0}
    /\ {MaxWal, MaxSessions} \subseteq Nat

VARIABLES
    mode,        \* Info.Mode, from the patch file
    stopped,     \* is the context of the App done?
    pc,          \* where the App, or the Run it has called, stands
    session,     \* number of the session
    cancelled,   \* has the cancel of the session been called?
    running,     \* the goroutines of the session that have not returned
    msgIn,       \* Session.msgIn
    msgOut,      \* Session.msgOut
    work,        \* what sendGameWal, called by handleMsgLoop, has left to do
    seqGame,     \* Session.SeqGame
    seqNet,      \* Session.SeqNet
    walLen,      \* number of entries in the WAL
    lastEvent,   \* history: the last message put into DaemonConn.chSend
    game         \* the game: its sequence numbers, and the entries it has

vars == <<mode, stopped, pc, session, cancelled, running, msgIn, msgOut, work,
          seqGame, seqNet, walLen, lastEvent, game>>
runVars == <<mode, stopped, pc, session>>
seqVars == <<seqGame, seqNet>>

SeqNo == 0..(SeqLimit - 1)
Index == 0..MaxWal
\* The messages of the game, by what is done for them.
Op == {"hello", "wal", "query", "position", "info"}

\* "uplink" stands for handleUplink and handleSendQueue.
Goroutine == {"msgIn", "msgOut", "msgLoop", "uplink"}

\* A message of the game; index is that of a query, else 0.
GameMsg == [op : Op, seq : SeqNo, index : Index]

\* A message to the game: an entry, or another one.
Entry(i) == <<"wal", i>>
Other == <<"other">>

\* What sendGameWal has left to do of a batch: from which index, how many.
NoWork == [index |-> 0, left |-> 0]
Work == [index : Nat, left : 0..Batch]

TypeOK ==
    /\ mode \in {"single", "multi"}
    /\ stopped \in BOOLEAN
    /\ pc \in {"idle", "hello", "start", "up", "wait", "closed"}
    /\ session \in 0..MaxSessions
    /\ cancelled \in BOOLEAN
    /\ running \in SUBSET Goroutine
    /\ msgIn \in Seq(GameMsg) /\ Len(msgIn) <= InCap
    /\ msgOut \in Seq({Entry(i) : i \in 0..(MaxWal - 1)} \cup {Other})
    /\ Len(msgOut) <= OutCap
    /\ work \in Work
    /\ seqGame \in SeqNo
    /\ seqNet \in SeqNo
    /\ walLen \in Index
    /\ lastEvent \in [kind : {"none", "news", "end", "close"}, session : 0..MaxSessions]
    /\ game \in [out : SeqNo, in : SeqNo, len : Index]
    /\ pc \in {"idle", "hello", "closed"} => running = {} /\ msgIn = <<>> /\ msgOut = <<>>

Init ==
    /\ mode \in {"single", "multi"}
    /\ stopped = FALSE
    /\ pc = "idle"
    /\ session = 0
    /\ cancelled = FALSE
    /\ running = {}
    /\ msgIn = <<>> /\ msgOut = <<>>
    /\ work = NoWork
    /\ seqGame = 0 /\ seqNet = 0
    /\ walLen = 0
    /\ lastEvent = [kind |-> "none", session |-> 0]
    /\ game = [out |-> 0, in |-> 0, len |-> 0]

NextSeq(n) == (n + 1) % SeqLimit

\* DaemonConn.Send.  It waits while the channel is full, whatever happens to the
\* session: that is a step which is not taken yet, and sendLoop gives it room.
\* Of its messages, GAME_START and INFO are both "news" of a session.
DaemonSend(kind) ==
    lastEvent' = [kind |-> kind, session |-> session]

\* The context of the session ends with its cancel, and with the App's.
Done == cancelled \/ stopped

-----------------------------------------------------------------------------
(***************************************************************************)
(* The App, and Run.                                                       *)
(***************************************************************************)

\* SIGINT.
Stop ==
    /\ ~stopped
    /\ stopped' = TRUE
    /\ UNCHANGED <<mode, pc, session, cancelled, running, msgIn, msgOut, work,
                   seqVars, walLen, lastEvent, game>>

\* loop and poll: a connection is opened, and its hello awaited, for as long
\* as it takes.
Connect ==
    /\ pc = "idle"
    /\ ~stopped
    /\ session < MaxSessions
    /\ pc' = "hello"
    /\ UNCHANGED <<mode, stopped, session, cancelled, running, msgIn, msgOut,
                   work, seqVars, walLen, lastEvent, game>>

\* No hello, or a wrong one; or Run finds that the game is of another session
\* or world, or cannot open a file, and returns (without a Conn.Close).
HelloFails ==
    /\ pc = "hello"
    /\ pc' = "idle"
    /\ UNCHANGED <<mode, stopped, session, cancelled, running, msgIn, msgOut,
                   work, seqVars, walLen, lastEvent, game>>

\* Run, up to the start of the goroutines: the two sequence numbers are drawn
\* and told to the game, which may have gone back to an older save.
RunStarts ==
    /\ pc = "hello"
    /\ pc' = "start"
    /\ session' = session + 1
    /\ running' = IF mode = "single"
                  THEN {"msgIn", "msgOut", "msgLoop"}
                  ELSE Goroutine
    /\ \E g, n \in SeqNo, l \in 0..game.len :
         /\ seqGame' = g
         /\ seqNet' = n
         /\ game' = [out |-> g, in |-> n, len |-> l]
    /\ UNCHANGED <<mode, stopped, cancelled, msgIn, msgOut, work, walLen, lastEvent>>

\* The start of the session is reported, when the goroutines run already.
GameStart ==
    /\ pc = "start"
    /\ DaemonSend("news")
    /\ pc' = "up"
    /\ UNCHANGED <<mode, stopped, session, cancelled, running, msgIn, msgOut,
                   work, seqVars, walLen, game>>

\* Variant: wg.Wait before Conn.Close.
CloseConnLast ==
    /\ pc = "up"
    /\ Done
    /\ running = {}
    /\ pc' = "wait"
    /\ UNCHANGED <<mode, stopped, session, cancelled, running, msgIn, msgOut,
                   work, seqVars, walLen, lastEvent, game>>

\* The context is done: the positions are stopped (PositionSystem) and the
\* connection to the game is closed ...
CloseConn ==
    /\ pc = "up"
    /\ Done
    /\ pc' = "wait"
    /\ UNCHANGED <<mode, stopped, session, cancelled, running, msgIn, msgOut,
                   work, seqVars, walLen, lastEvent, game>>

\* Variant: the channels outlive the session.
ForgetSessionOnly ==
    /\ pc' = "idle"
    /\ cancelled' = FALSE
    /\ work' = NoWork
    /\ seqGame' = 0 /\ seqNet' = 0
    /\ game' = [game EXCEPT !.out = 0, !.in = 0]
    /\ UNCHANGED <<msgIn, msgOut>>

\* The end of Run: the channels and the numbers go with the session.
Forget ==
    /\ pc' = "idle"
    /\ cancelled' = FALSE
    /\ msgIn' = <<>> /\ msgOut' = <<>>
    /\ work' = NoWork
    /\ seqGame' = 0 /\ seqNet' = 0
    /\ game' = [game EXCEPT !.out = 0, !.in = 0]

\* Variant: the end is reported without waiting for the goroutines.
GameEndAtOnce ==
    /\ pc = "wait"
    /\ lastEvent.kind # "end" \/ lastEvent.session # session
    /\ DaemonSend("end")
    /\ UNCHANGED <<runVars, cancelled, running, msgIn, msgOut, work, seqVars, walLen, game>>

\* ... and when all goroutines have returned, the end is reported.
GameEnd ==
    /\ pc = "wait"
    /\ running = {}
    /\ DaemonSend("end")
    /\ Forget
    /\ UNCHANGED <<mode, stopped, session, running, walLen>>

\* The App returns, and its deferred DaemonConn.Close closes chSend.
AppReturns ==
    /\ pc = "idle"
    /\ stopped
    /\ pc' = "closed"
    /\ lastEvent' = [lastEvent EXCEPT !.kind = "close"]
    /\ UNCHANGED <<mode, stopped, session, cancelled, running, msgIn, msgOut,
                   work, seqVars, walLen, game>>

-----------------------------------------------------------------------------
(***************************************************************************)
(* The goroutines of a session.                                            *)
(***************************************************************************)

\* A goroutine returns, and its deferred cancel ends the session.
GoroutineReturns(g) ==
    /\ g \in running
    /\ running' = running \ {g}
    /\ cancelled' = TRUE

\* handleMsgIn: the game's next message, while the connection is open.
MsgIn(op, i) ==
    /\ "msgIn" \in running
    /\ pc # "wait"
    /\ Len(msgIn) < InCap
    /\ msgIn' = Append(msgIn, [op |-> op, seq |-> game.out, index |-> i])
    /\ game' = [game EXCEPT !.out = NextSeq(@)]
    /\ UNCHANGED <<runVars, cancelled, running, msgOut, work, seqVars, walLen, lastEvent>>

\* The game asks for the entries it has not got.
GameQuery == MsgIn("query", game.len)

\* The game leaves, or a message does not parse, or Run closed the connection;
\* or the context is done.
MsgInReturns ==
    /\ GoroutineReturns("msgIn")
    /\ UNCHANGED <<runVars, msgIn, msgOut, work, seqVars, walLen, lastEvent, game>>

\* handleMsgOut: a message is numbered and written.  The game takes the entry
\* it waits for, and looks at no other.
MsgOut ==
    /\ "msgOut" \in running
    /\ pc # "wait"
    /\ msgOut # <<>>
    /\ msgOut' = Tail(msgOut)
    /\ seqNet' = NextSeq(seqNet)
    /\ game' = [game EXCEPT !.in = NextSeq(@),
                            !.len = IF Head(msgOut) = Entry(@) THEN @ + 1 ELSE @]
    /\ UNCHANGED <<runVars, cancelled, running, msgIn, work, seqGame, walLen, lastEvent>>

\* A write fails, or the context is done.
MsgOutReturns ==
    /\ GoroutineReturns("msgOut")
    /\ UNCHANGED <<runVars, msgIn, msgOut, work, seqVars, walLen, lastEvent, game>>

\* Send: when the context is done, the message may be left out.
Send(m) ==
    \/ Len(msgOut) < OutCap /\ msgOut' = Append(msgOut, m)
    \/ Done /\ UNCHANGED msgOut

\* Variant: a message that finds no room has got its number already.
TrySendNumbers(m) ==
    \/ Len(msgOut) < OutCap /\ msgOut' = Append(msgOut, m) /\ UNCHANGED seqNet
    \/ Len(msgOut) = OutCap /\ UNCHANGED msgOut /\ seqNet' = NextSeq(seqNet)

\* TrySend: as Send, and left out as well when there is no room.
TrySend(m) ==
    /\ \/ Len(msgOut) < OutCap /\ msgOut' = Append(msgOut, m)
       \/ (Len(msgOut) = OutCap \/ Done) /\ UNCHANGED msgOut
    /\ UNCHANGED seqNet

\* handleMsgLoop: handleMsg takes a message, whose number is the next one.  A
\* message whose answer waits for room is counted among those in msgIn.
Accept(op) ==
    /\ "msgLoop" \in running
    /\ work.left = 0
    /\ msgIn # <<>>
    /\ Head(msgIn).op = op
    /\ Head(msgIn).seq = seqGame
    /\ msgIn' = Tail(msgIn)
    /\ seqGame' = NextSeq(seqGame)
    /\ UNCHANGED <<runVars, cancelled, running, seqNet, walLen, game>>

\* An entry: handleWalIn hands it on (Replication) and sends the ack, unless
\* the game is one for one player.
HandleWalIn ==
    /\ Accept("wal")
    /\ IF mode = "single" THEN UNCHANGED msgOut ELSE Send(Other)
    /\ UNCHANGED <<work, lastEvent>>

\* The own position, for the PositionSystem.
HandlePosition ==
    /\ Accept("position")
    /\ UNCHANGED <<work, msgOut, lastEvent>>

\* What the game tells about its player goes to the daemon.
HandleInfo ==
    /\ Accept("info")
    /\ DaemonSend("news")
    /\ UNCHANGED <<work, msgOut>>

\* A query: sendGameWal is called.
HandleQuery ==
    /\ Accept("query")
    /\ work' = [index |-> Head(msgIn).index, left |-> Batch]
    /\ UNCHANGED <<msgOut, lastEvent>>

\* A hello, a message with a wrong number, or one whose body does not parse.
\* (The model has the errors of the parsers.  An INFO_ITEM of six bytes passes
\* the check of its length and is read one byte too far, which ends the process;
\* this is left out.)
HandleMsgFails ==
    /\ work.left = 0
    /\ msgIn # <<>>
    /\ msgIn' = Tail(msgIn)
    /\ seqGame' = IF Head(msgIn).op = "hello" THEN seqGame ELSE NextSeq(seqGame)
    /\ GoroutineReturns("msgLoop")
    /\ UNCHANGED <<runVars, msgOut, work, seqNet, walLen, lastEvent, game>>

\* Variant: the last entry of the WAL is taken for its end.
SendGameWalShort ==
    /\ "msgLoop" \in running
    /\ work.left > 0
    /\ IF work.index + 1 < walLen
       THEN /\ Send(Entry(work.index))
            /\ work' = [index |-> IF work.left = 1 THEN 0 ELSE work.index + 1,
                         left |-> work.left - 1]
       ELSE work' = NoWork /\ UNCHANGED msgOut
    /\ UNCHANGED <<runVars, cancelled, running, msgIn, seqVars, walLen, lastEvent, game>>

\* An iteration of sendGameWal: the next entry, or the end of the WAL.
SendGameWal ==
    /\ "msgLoop" \in running
    /\ work.left > 0
    /\ IF work.index < walLen
       THEN /\ Send(Entry(work.index))
            /\ work' = [index |-> IF work.left = 1 THEN 0 ELSE work.index + 1,
                         left |-> work.left - 1]
       ELSE work' = NoWork /\ UNCHANGED msgOut
    /\ UNCHANGED <<runVars, cancelled, running, msgIn, seqVars, walLen, lastEvent, game>>

MsgLoopReturns ==
    /\ work.left = 0
    /\ Done
    /\ GoroutineReturns("msgLoop")
    /\ UNCHANGED <<runVars, msgIn, msgOut, work, seqVars, walLen, lastEvent, game>>

\* handleUplink: the server sends an entry, or the position of a player.
UplinkEntry ==
    /\ "uplink" \in running
    /\ walLen < MaxWal
    /\ walLen' = walLen + 1
    /\ UNCHANGED <<runVars, cancelled, running, msgIn, msgOut, work, seqVars, lastEvent, game>>

UplinkPosition ==
    /\ "uplink" \in running
    /\ TrySend(Other)
    /\ UNCHANGED <<runVars, cancelled, running, msgIn, work, seqGame, walLen, lastEvent, game>>

\* The context is done, or handleSendQueue meets an entry that does not parse.
UplinkReturns ==
    /\ GoroutineReturns("uplink")
    /\ UNCHANGED <<runVars, msgIn, msgOut, work, seqVars, walLen, lastEvent, game>>

-----------------------------------------------------------------------------
RunNext == RunStarts \/ HelloFails \/ GameStart \/ CloseConn \/ GameEnd \/ AppReturns

HandleMsgLoop ==
    \/ HandleWalIn
    \/ HandlePosition
    \/ HandleInfo
    \/ HandleQuery
    \/ HandleMsgFails
    \/ SendGameWal

Next ==
    \/ Stop
    \/ Connect
    \/ RunNext
    \/ GameQuery
    \/ \E op \in Op \ {"query"} : MsgIn(op, 0)
    \/ MsgInReturns
    \/ MsgOut
    \/ MsgOutReturns
    \/ HandleMsgLoop
    \/ MsgLoopReturns
    \/ UplinkEntry
    \/ UplinkPosition
    \/ UplinkReturns

Spec == Init /\ [][Next]_vars

(***************************************************************************)
(* Fairness: Run goes on (its hello excepted, which has no time limit), a  *)
(* goroutine that has something to do goes on, and one whose context is    *)
(* done gets to its select; a read or a write of the closed connection     *)
(* fails.  The daemon reads what it is sent.  A goroutine blocked in Send  *)
(* is first in the line of its channel, hence the strong fairness.  A game *)
(* that stays asks for entries again and again, and reads.                 *)
(***************************************************************************)
Fairness ==
    /\ WF_vars(GameStart \/ CloseConn \/ GameEnd \/ AppReturns)
    /\ WF_vars(pc = "wait" /\ MsgInReturns)
    /\ WF_vars(pc = "wait" /\ MsgOutReturns)
    /\ WF_vars(MsgOut)
    /\ SF_vars(HandleMsgLoop)
    /\ SF_vars(MsgLoopReturns)
    /\ WF_vars(Done /\ UplinkReturns)
    /\ SF_vars(GameQuery)

FairSpec == Spec /\ Fairness

-----------------------------------------------------------------------------
(***************************************************************************)
(* Properties.                                                             *)
(***************************************************************************)

\* The two ends of the connection agree on the next number in each direction,
\* counting what is still queued, across the wrap of the counters: neither end
\* gives the session up for a number the other got wrong, although answers
\* come from two goroutines and some find no room.
InStep ==
    pc \in {"start", "up"} =>
        /\ seqNet = game.in
        /\ "msgLoop" \in running => (seqGame + Len(msgIn)) % SeqLimit = game.out

\* The daemon hears of the sessions one after the other: what belongs to one
\* comes before its end, the end comes last, and nothing is sent on the channel
\* after the App closed it.  (What the game tells may come before the start.)
EventsInOrder ==
    [][lastEvent' # lastEvent =>
         /\ lastEvent.kind # "close"
         /\ lastEvent.kind = "end" =>
              lastEvent'.kind = "close" \/ lastEvent'.session = lastEvent.session + 1
         /\ lastEvent.kind = "news" =>
              lastEvent'.kind # "close" /\ lastEvent'.session = lastEvent.session]_vars

\* A session that is cancelled ends, and the App ends when it is stopped and
\* does not wait for a hello: nobody stays behind in a channel that is full or
\* in a read, and no two of the goroutines wait for each other.
SessionEnds ==
    /\ cancelled ~> pc = "idle"
    /\ (stopped /\ pc # "hello") ~> pc = "closed"

\* A game that stays connected and asks gets every entry of the WAL, however
\* the batches, the appends and the positions fall (and as no more than MaxWal
\* entries come).
GameCatchesUp ==
    (pc = "up" /\ game.len < walLen) ~> (pc # "up" \/ game.len = walLen)
=============================================================================
