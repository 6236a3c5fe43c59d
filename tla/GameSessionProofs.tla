------------------------- MODULE GameSessionProofs -------------------------
(***************************************************************************)
(* A client and its game: the proofs.                                      *)
(*                                                                         *)
(* InStep is about numbers that wrap, so it needs what the remainder does  *)
(* under addition.  EventsInOrder is about one message and the one before  *)
(* it; EventOK says where Run stands when the last message was a certain   *)
(* one.                                                                    *)
(***************************************************************************)
EXTENDS GameSession, SequenceTheorems, TLAPS

-----------------------------------------------------------------------------
(***************************************************************************)
(* Numbers that wrap.                                                      *)
(***************************************************************************)

\* A remainder is given by any representation of the number.
LEMMA RemainderUnique ==
    ASSUME NEW n \in Nat, n > 0, NEW q \in Nat, NEW p \in Nat,
           NEW r \in 0..(n - 1), NEW s \in 0..(n - 1), n * q + r = n * p + s
    PROVE  r = s
<1>1. CASE q = p
  BY <1>1
<1>2. CASE q > p
  <2>1. PICK d \in Nat : q = p + d + 1
    <3>1. q - p - 1 \in Nat /\ q = p + (q - p - 1) + 1
      BY <1>2
    <3> QED
      BY <3>1
  <2>2. n * q = n * p + n * d + n
    BY <2>1
  <2>3. n * d >= 0 /\ n * d \in Nat /\ n * p \in Nat
    OBVIOUS
  <2> QED
    BY <2>2, <2>3
<1>3. CASE q < p
  <2>1. PICK d \in Nat : p = q + d + 1
    <3>1. p - q - 1 \in Nat /\ p = q + (p - q - 1) + 1
      BY <1>3
    <3> QED
      BY <3>1
  <2>2. n * p = n * q + n * d + n
    BY <2>1
  <2>3. n * d >= 0 /\ n * d \in Nat /\ n * q \in Nat
    OBVIOUS
  <2> QED
    BY <2>2, <2>3
<1> QED
  BY <1>1, <1>2, <1>3

\* A number and its remainder.
LEMMA Division ==
    ASSUME NEW n \in Nat, n > 0, NEW a \in Nat
    PROVE  a % n \in 0..(n - 1) /\ \E q \in Nat : a = n * q + (a % n)
<1>1. a % n \in 0..(n - 1)
  OBVIOUS
<1>2. a = n * (a \div n) + (a % n)
  OBVIOUS
<1>3. a \div n \in Nat
  OBVIOUS
<1> QED
  BY <1>1, <1>2, <1>3

\* A number may be reduced before another is added.
LEMMA RemainderOfSum ==
    ASSUME NEW n \in Nat, n > 0, NEW a \in Nat, NEW b \in Nat
    PROVE  ((a % n) + b) % n = (a + b) % n
<1>1. PICK q \in Nat : a = n * q + (a % n)
  BY Division
<1> DEFINE r == a % n
<1>2. r \in Nat
  BY Division
<1> HIDE DEF r
<1>3. a = n * q + r
  BY <1>1 DEF r
<1>4. (r + b) % n \in 0..(n - 1) /\ \E p \in Nat : r + b = n * p + ((r + b) % n)
  BY <1>2, Division
<1>5. PICK p \in Nat : r + b = n * p + ((r + b) % n)
  BY <1>4
<1>6. (a + b) % n \in 0..(n - 1) /\ \E m \in Nat : a + b = n * m + ((a + b) % n)
  <2>1. a + b \in Nat
    OBVIOUS
  <2> QED
    BY <2>1, Division
<1>7. PICK m \in Nat : a + b = n * m + ((a + b) % n)
  BY <1>6
<1> DEFINE u == (r + b) % n
<1> DEFINE v == (a + b) % n
<1>8. u \in 0..(n - 1) /\ v \in 0..(n - 1) /\ r + b = n * p + u /\ a + b = n * m + v
  BY <1>4, <1>5, <1>6, <1>7
<1> HIDE DEF u, v
<1>9. n * (q + p) + u = n * m + v
  <2>1. n * (q + p) = n * q + n * p
    OBVIOUS
  <2>2. n * q \in Nat /\ n * p \in Nat /\ n * m \in Nat
    OBVIOUS
  <2> QED
    BY <1>2, <1>3, <1>8, <2>1, <2>2
<1>10. q + p \in Nat
  OBVIOUS
<1>11. u = v
  BY <1>8, <1>9, <1>10, RemainderUnique
<1> QED
  BY <1>11 DEF u, v, r

\* The next number is a number.
LEMMA NextSeqType ==
    ASSUME NEW n \in SeqNo
    PROVE  NextSeq(n) \in SeqNo
BY GameSessionAssumption, Division DEF SeqNo, NextSeq

\* One number is used up at one end of a queue of length l, or at the other.
LEMMA NextSeqOfQueue ==
    ASSUME NEW n \in SeqNo, NEW l \in Nat
    PROVE  /\ NextSeq((n + l) % SeqLimit) = (n + (l + 1)) % SeqLimit
           /\ l > 0 => (NextSeq(n) + (l - 1)) % SeqLimit = (n + l) % SeqLimit
<1>1. SeqLimit \in Nat /\ SeqLimit > 0 /\ n \in Nat
  BY GameSessionAssumption DEF SeqNo
<1>2. (((n + l) % SeqLimit) + 1) % SeqLimit = (n + l + 1) % SeqLimit
  <2>1. n + l \in Nat
    BY <1>1
  <2> QED
    BY <1>1, <2>1, RemainderOfSum
<1>3. ASSUME l > 0
      PROVE  (((n + 1) % SeqLimit) + (l - 1)) % SeqLimit = (n + l) % SeqLimit
  <2>1. n + 1 \in Nat /\ l - 1 \in Nat /\ (n + 1) + (l - 1) = n + l
    BY <1>1, <1>3
  <2>2. (((n + 1) % SeqLimit) + (l - 1)) % SeqLimit = ((n + 1) + (l - 1)) % SeqLimit
    BY <1>1, <2>1, RemainderOfSum
  <2> QED
    BY <2>1, <2>2
<1>4. n + l + 1 = n + (l + 1)
  BY <1>1
<1> QED
  BY <1>2, <1>3, <1>4 DEF NextSeq

-----------------------------------------------------------------------------
(***************************************************************************)
(* The types.  A connection is opened only while another session may come. *)
(***************************************************************************)
TypeInv == TypeOK /\ (pc = "hello" => session < MaxSessions)

\* The messages to the game.
OutMsg == {Entry(i) : i \in 0..(MaxWal - 1)} \cup {Other}

LEMMA TypeInit == Init => TypeInv
<1> SUFFICES ASSUME Init PROVE TypeInv
  OBVIOUS
<1>1. 0 \in SeqNo /\ 0 \in Index /\ 0 \in 0..MaxSessions /\ 0 \in 0..Batch
      /\ InCap \in Nat /\ OutCap \in Nat
  BY GameSessionAssumption DEF SeqNo, Index
<1>2. <<>> \in Seq(GameMsg) /\ <<>> \in Seq(OutMsg) /\ Len(<<>>) = 0
  OBVIOUS
<1>3. NoWork \in Work
  BY <1>1 DEF NoWork, Work
<1>4. /\ msgIn \in Seq(GameMsg) /\ Len(msgIn) <= InCap
      /\ msgOut \in Seq(OutMsg) /\ Len(msgOut) <= OutCap
  BY <1>1, <1>2 DEF Init
<1>5. /\ game \in [out : SeqNo, in : SeqNo, len : Index]
      /\ lastEvent \in [kind : {"none", "news", "end", "close"}, session : 0..MaxSessions]
  BY <1>1 DEF Init
<1> QED
  BY <1>1, <1>3, <1>4, <1>5 DEF Init, TypeInv, TypeOK, OutMsg

\* A queue of at most cap messages under the operations on it.
LEMMA Queue ==
    ASSUME NEW M, NEW cap \in Nat, NEW q \in Seq(M), Len(q) <= cap
    PROVE  /\ Len(q) \in Nat
           /\ q # <<>> => /\ Head(q) \in M
                          /\ Tail(q) \in Seq(M)
                          /\ Len(Tail(q)) = Len(q) - 1
                          /\ Len(Tail(q)) <= cap
                          /\ Len(q) > 0
           /\ \A m \in M : Len(q) < cap =>
                /\ Append(q, m) \in Seq(M)
                /\ Len(Append(q, m)) = Len(q) + 1
                /\ Len(Append(q, m)) <= cap
OBVIOUS

\* Run and the App.
LEMMA RunTypes ==
    ASSUME TypeInv, Stop \/ Connect \/ RunNext
    PROVE  TypeInv'
<1> USE DEF TypeInv, TypeOK
<1>1. CASE Stop
  BY <1>1 DEF Stop, seqVars
<1>2. CASE Connect
  BY <1>2 DEF Connect, seqVars
<1>3. CASE HelloFails
  BY <1>3 DEF HelloFails, seqVars
<1>4. CASE RunStarts
  <2>1. session + 1 \in 0..MaxSessions
    BY <1>4, GameSessionAssumption DEF RunStarts
  <2>2. \A l \in 0..game.len : l \in Index
    BY GameSessionAssumption DEF Index
  <2>3. running' \subseteq Goroutine
    BY <1>4 DEF RunStarts, Goroutine
  <2> QED
    BY <1>4, <2>1, <2>2, <2>3 DEF RunStarts
<1>5. CASE GameStart
  BY <1>5 DEF GameStart, DaemonSend, seqVars
<1>6. CASE CloseConn
  BY <1>6 DEF CloseConn, seqVars
<1>7. CASE GameEnd
  <2>1. 0 \in SeqNo /\ NoWork \in Work
    BY GameSessionAssumption DEF SeqNo, NoWork, Work
  <2>2. <<>> \in Seq(GameMsg) /\ <<>> \in Seq(OutMsg) /\ Len(<<>>) = 0
        /\ InCap \in Nat /\ OutCap \in Nat
    BY GameSessionAssumption
  <2>3. /\ msgIn' \in Seq(GameMsg) /\ Len(msgIn') <= InCap
        /\ msgOut' \in Seq(OutMsg) /\ Len(msgOut') <= OutCap
    BY <1>7, <2>2 DEF GameEnd, Forget
  <2>4. /\ game' \in [out : SeqNo, in : SeqNo, len : Index]
        /\ lastEvent' \in [kind : {"none", "news", "end", "close"}, session : 0..MaxSessions]
    BY <1>7, <2>1 DEF GameEnd, Forget, DaemonSend
  <2> QED
    BY <1>7, <2>1, <2>3, <2>4 DEF GameEnd, Forget, OutMsg
<1>8. CASE AppReturns
  BY <1>8 DEF AppReturns, seqVars
<1> QED
  BY <1>1, <1>2, <1>3, <1>4, <1>5, <1>6, <1>7, <1>8 DEF RunNext

\* Send and TrySend put a message into msgOut, or leave it.
LEMMA SendTypes ==
    ASSUME TypeInv, NEW m \in OutMsg, Send(m) \/ TrySend(m)
    PROVE  msgOut' \in Seq(OutMsg) /\ Len(msgOut') <= OutCap
<1>1. OutCap \in Nat /\ msgOut \in Seq(OutMsg) /\ Len(msgOut) <= OutCap
  BY GameSessionAssumption DEF TypeInv, TypeOK, OutMsg
<1>2. Len(msgOut) < OutCap =>
        Append(msgOut, m) \in Seq(OutMsg) /\ Len(Append(msgOut, m)) <= OutCap
  BY <1>1, Queue
<1>3. msgOut' = msgOut \/ (Len(msgOut) < OutCap /\ msgOut' = Append(msgOut, m))
  BY DEF Send, TrySend
<1> QED
  BY <1>1, <1>2, <1>3

\* handleMsg takes a message from msgIn.
LEMMA AcceptTypes ==
    ASSUME TypeInv, NEW op, Accept(op)
    PROVE  /\ msgIn' \in Seq(GameMsg) /\ Len(msgIn') <= InCap
           /\ seqGame' \in SeqNo
           /\ Head(msgIn).index \in Nat
           /\ UNCHANGED <<mode, stopped, pc, session, cancelled, running, seqNet, walLen, game>>
<1>1. /\ InCap \in Nat /\ msgIn \in Seq(GameMsg) /\ Len(msgIn) <= InCap
      /\ msgIn # <<>> /\ seqGame \in SeqNo
  BY GameSessionAssumption DEF TypeInv, TypeOK, Accept
<1>2. Head(msgIn) \in GameMsg
  BY <1>1, Queue
<1>3. Head(msgIn).index \in Nat
  BY <1>2, GameSessionAssumption DEF GameMsg, Index
<1> QED
  BY <1>1, <1>3, Queue, NextSeqType DEF Accept, runVars

\* handleMsgLoop.
LEMMA MsgLoopTypes ==
    ASSUME TypeInv, HandleMsgLoop
    PROVE  TypeInv'
<1> USE DEF TypeInv, TypeOK
<1>1. Other \in OutMsg /\ OutMsg = {Entry(i) : i \in 0..(MaxWal - 1)} \cup {Other}
  BY DEF OutMsg
<1>2. pc \notin {"idle", "hello", "closed"}
  BY DEF HandleMsgLoop, HandleWalIn, HandlePosition, HandleInfo, HandleQuery,
         HandleMsgFails, SendGameWal, Accept, GoroutineReturns
<1>3. CASE HandleWalIn
  <2>1. Accept("wal") /\ UNCHANGED <<work, lastEvent>>
    BY <1>3 DEF HandleWalIn
  <2>2. msgOut' \in Seq(OutMsg) /\ Len(msgOut') <= OutCap
    BY <1>1, <1>3, SendTypes DEF HandleWalIn
  <2> QED
    BY <1>1, <1>2, <2>1, <2>2, AcceptTypes
<1>4. CASE HandlePosition
  BY <1>2, <1>4, AcceptTypes DEF HandlePosition
<1>5. CASE HandleInfo
  <2>1. Accept("info") /\ UNCHANGED <<work, msgOut>>
    BY <1>5 DEF HandleInfo
  <2>2. lastEvent' \in [kind : {"none", "news", "end", "close"}, session : 0..MaxSessions]
    BY <1>5 DEF HandleInfo, DaemonSend
  <2> QED
    BY <1>2, <2>1, <2>2, AcceptTypes
<1>6. CASE HandleQuery
  <2>1. Accept("query") /\ UNCHANGED <<msgOut, lastEvent>>
    BY <1>6 DEF HandleQuery
  <2>2. Batch \in 0..Batch
    BY GameSessionAssumption
  <2>3. work' \in Work
    BY <1>6, <2>1, <2>2, AcceptTypes DEF HandleQuery, Work
  <2> QED
    BY <1>2, <2>1, <2>3, AcceptTypes
<1>7. CASE HandleMsgFails
  <2>1. msgIn' \in Seq(GameMsg) /\ Len(msgIn') <= InCap
    BY <1>7, Queue, GameSessionAssumption DEF HandleMsgFails
  <2>2. seqGame' \in SeqNo
    BY <1>7, NextSeqType DEF HandleMsgFails
  <2> QED
    BY <1>2, <1>7, <2>1, <2>2 DEF HandleMsgFails, GoroutineReturns, runVars
<1>8. CASE SendGameWal
  <2>1. work' \in Work
    BY <1>8, GameSessionAssumption DEF SendGameWal, Work, NoWork
  <2>2. msgOut' \in Seq(OutMsg) /\ Len(msgOut') <= OutCap
    <3>1. CASE work.index < walLen
      <4>1. work.index \in 0..(MaxWal - 1)
        BY <3>1, GameSessionAssumption DEF Work, Index
      <4>2. Entry(work.index) \in OutMsg
        BY <4>1 DEF OutMsg
      <4> QED
        BY <1>8, <3>1, <4>2, SendTypes DEF SendGameWal
    <3>2. CASE ~(work.index < walLen)
      BY <1>1, <1>8, <3>2 DEF SendGameWal
    <3> QED
      BY <3>1, <3>2
  <2> QED
    BY <1>1, <1>2, <1>8, <2>1, <2>2 DEF SendGameWal, runVars, seqVars
<1> QED
  BY <1>3, <1>4, <1>5, <1>6, <1>7, <1>8 DEF HandleMsgLoop

\* handleMsgIn and handleMsgOut.
LEMMA ConnTypes ==
    ASSUME TypeInv,
           GameQuery \/ (\E op \in Op \ {"query"} : MsgIn(op, 0)) \/ MsgOut
    PROVE  TypeInv'
<1> USE DEF TypeInv, TypeOK
<1>1. ASSUME NEW op \in Op, NEW i \in Index, MsgIn(op, i)
      PROVE  TypeInv'
  <2>1. [op |-> op, seq |-> game.out, index |-> i] \in GameMsg
    BY <1>1 DEF GameMsg
  <2>2. msgIn' \in Seq(GameMsg) /\ Len(msgIn') <= InCap
    BY <1>1, <2>1, Queue, GameSessionAssumption DEF MsgIn
  <2>3. game' \in [out : SeqNo, in : SeqNo, len : Index]
    BY <1>1, NextSeqType DEF MsgIn
  <2> QED
    BY <1>1, <2>2, <2>3 DEF MsgIn, runVars, seqVars
<1>2. CASE GameQuery
  <2>1. "query" \in Op /\ game.len \in Index
    BY DEF Op
  <2> QED
    BY <1>1, <1>2, <2>1 DEF GameQuery
<1>3. CASE \E op \in Op \ {"query"} : MsgIn(op, 0)
  <2>1. 0 \in Index
    BY GameSessionAssumption DEF Index
  <2> QED
    BY <1>1, <1>3, <2>1
<1>4. CASE MsgOut
  <2>1. OutMsg = {Entry(i) : i \in 0..(MaxWal - 1)} \cup {Other}
    BY DEF OutMsg
  <2>2. msgOut \in Seq(OutMsg) /\ Len(msgOut) <= OutCap /\ OutCap \in Nat /\ msgOut # <<>>
    BY <1>4, <2>1, GameSessionAssumption DEF MsgOut
  <2>3. Head(msgOut) \in OutMsg /\ msgOut' \in Seq(OutMsg) /\ Len(msgOut') <= OutCap
    BY <1>4, <2>2, Queue DEF MsgOut
  <2>4. Head(msgOut) = Entry(game.len) => game.len + 1 \in Index
    <3> SUFFICES ASSUME Head(msgOut) = Entry(game.len) PROVE game.len + 1 \in Index
      OBVIOUS
    <3>1. Entry(game.len) # Other
      BY DEF Entry, Other
    <3>2. PICK i \in 0..(MaxWal - 1) : Entry(game.len) = Entry(i)
      BY <2>1, <2>3, <3>1
    <3>3. game.len = i
      BY <3>2 DEF Entry
    <3> QED
      BY <3>3, GameSessionAssumption DEF Index
  <2>5. game' \in [out : SeqNo, in : SeqNo, len : Index]
    BY <1>4, <2>4, NextSeqType DEF MsgOut
  <2>6. seqNet' \in SeqNo
    BY <1>4, NextSeqType DEF MsgOut
  <2> QED
    BY <1>4, <2>1, <2>3, <2>5, <2>6 DEF MsgOut, runVars
<1> QED
  BY <1>2, <1>3, <1>4

\* The uplink, and the goroutines that return.
LEMMA OtherTypes ==
    ASSUME TypeInv,
           \/ UplinkEntry \/ UplinkPosition \/ UplinkReturns
           \/ MsgInReturns \/ MsgOutReturns \/ MsgLoopReturns
    PROVE  TypeInv'
<1> USE DEF TypeInv, TypeOK
<1>1. CASE UplinkEntry
  <2>1. walLen' \in Index
    BY <1>1, GameSessionAssumption DEF UplinkEntry, Index
  <2> QED
    BY <1>1, <2>1 DEF UplinkEntry, runVars, seqVars
<1>2. CASE UplinkPosition
  <2>1. Other \in OutMsg /\ OutMsg = {Entry(i) : i \in 0..(MaxWal - 1)} \cup {Other}
    BY DEF OutMsg
  <2>2. msgOut' \in Seq(OutMsg) /\ Len(msgOut') <= OutCap
    BY <1>2, <2>1, SendTypes DEF UplinkPosition
  <2> QED
    BY <1>2, <2>1, <2>2 DEF UplinkPosition, TrySend, runVars
<1>3. CASE UplinkReturns
  BY <1>3 DEF UplinkReturns, GoroutineReturns, runVars, seqVars
<1>4. CASE MsgInReturns
  BY <1>4 DEF MsgInReturns, GoroutineReturns, runVars, seqVars
<1>5. CASE MsgOutReturns
  BY <1>5 DEF MsgOutReturns, GoroutineReturns, runVars, seqVars
<1>6. CASE MsgLoopReturns
  BY <1>6 DEF MsgLoopReturns, GoroutineReturns, runVars, seqVars
<1> QED
  BY <1>1, <1>2, <1>3, <1>4, <1>5, <1>6

LEMMA TypeStep == TypeInv /\ [Next]_vars => TypeInv'
<1> SUFFICES ASSUME TypeInv, [Next]_vars PROVE TypeInv'
  OBVIOUS
<1>1. CASE UNCHANGED vars
  BY <1>1 DEF TypeInv, TypeOK, vars
<1> QED
  BY <1>1, RunTypes, MsgLoopTypes, ConnTypes, OtherTypes DEF Next

LEMMA TypeInvariance == Spec => []TypeInv
BY TypeInit, TypeStep, PTL DEF Spec

\* The types of a session and its game, for channels of any size and numbers of
\* any width.
THEOREM GameTypes == Spec => []TypeOK
<1>1. TypeInv => TypeOK
  BY DEF TypeInv
<1> QED
  BY <1>1, TypeInvariance, PTL

-----------------------------------------------------------------------------
(***************************************************************************)
(* The sequence numbers.                                                   *)
(***************************************************************************)

\* A message comes into msgIn, and the game counts it.
LEMMA MsgInInStep ==
    ASSUME TypeInv, InStep, NEW op \in Op, NEW i \in Index, MsgIn(op, i)
    PROVE  InStep'
<1>1. /\ seqGame \in SeqNo /\ game \in [out : SeqNo, in : SeqNo, len : Index]
      /\ msgIn \in Seq(GameMsg) /\ Len(msgIn) \in Nat
  BY DEF TypeInv, TypeOK
<1>2. /\ game'.out = NextSeq(game.out) /\ game'.in = game.in
      /\ Len(msgIn') = Len(msgIn) + 1
      /\ UNCHANGED <<pc, running, seqGame, seqNet>>
  BY <1>1 DEF MsgIn, runVars, seqVars
<1>3. NextSeq((seqGame + Len(msgIn)) % SeqLimit) = (seqGame + (Len(msgIn) + 1)) % SeqLimit
  BY <1>1, NextSeqOfQueue
<1> QED
  BY <1>2, <1>3 DEF InStep

\* handleMsg takes a message out of msgIn, and counts it.
LEMMA AcceptInStep ==
    ASSUME TypeInv, InStep, NEW op, Accept(op)
    PROVE  InStep'
<1>1. /\ seqGame \in SeqNo /\ msgIn \in Seq(GameMsg) /\ Len(msgIn) \in Nat
      /\ msgIn # <<>> /\ Len(msgIn) > 0 /\ Len(Tail(msgIn)) = Len(msgIn) - 1
  BY DEF TypeInv, TypeOK, Accept
<1>2. /\ seqGame' = NextSeq(seqGame) /\ Len(msgIn') = Len(msgIn) - 1
      /\ UNCHANGED <<pc, running, seqNet, game>>
  BY <1>1 DEF Accept, runVars
<1>3. (NextSeq(seqGame) + (Len(msgIn) - 1)) % SeqLimit = (seqGame + Len(msgIn)) % SeqLimit
  BY <1>1, NextSeqOfQueue
<1> QED
  BY <1>2, <1>3 DEF InStep

LEMMA InStepStep == TypeInv /\ InStep /\ [Next]_vars => InStep'
<1> SUFFICES ASSUME TypeInv, InStep, [Next]_vars PROVE InStep'
  OBVIOUS
<1>1. CASE Stop \/ Connect \/ HelloFails \/ GameStart \/ CloseConn \/ GameEnd \/ AppReturns
  BY <1>1 DEF Stop, Connect, HelloFails, GameStart, CloseConn, GameEnd, Forget, AppReturns,
              InStep, seqVars
<1>2. CASE RunStarts
  <2>1. PICK g \in SeqNo, n \in SeqNo :
          seqGame' = g /\ seqNet' = n /\ game'.out = g /\ game'.in = n
    BY <1>2 DEF RunStarts
  <2>2. msgIn' = <<>> /\ Len(msgIn') = 0
    BY <1>2 DEF RunStarts, TypeInv, TypeOK
  <2>3. g % SeqLimit = g /\ g + 0 = g
    BY GameSessionAssumption DEF SeqNo
  <2> QED
    BY <2>1, <2>2, <2>3 DEF InStep
<1>3. CASE GameQuery
  <2>1. "query" \in Op /\ game.len \in Index
    BY DEF Op, TypeInv, TypeOK
  <2> QED
    BY <1>3, <2>1, MsgInInStep DEF GameQuery
<1>4. CASE \E op \in Op \ {"query"} : MsgIn(op, 0)
  <2>1. 0 \in Index
    BY GameSessionAssumption DEF Index
  <2> QED
    BY <1>4, <2>1, MsgInInStep
<1>5. CASE MsgOut
  <2>1. game'.in = NextSeq(game.in) /\ game'.out = game.out
    BY <1>5 DEF MsgOut, TypeInv, TypeOK
  <2> QED
    BY <1>5, <2>1 DEF MsgOut, InStep, runVars
<1>6. CASE HandleWalIn \/ HandlePosition \/ HandleInfo \/ HandleQuery
  BY <1>6, AcceptInStep DEF HandleWalIn, HandlePosition, HandleInfo, HandleQuery
<1>7. CASE HandleMsgFails
  BY <1>7 DEF HandleMsgFails, GoroutineReturns, InStep, runVars
<1>8. CASE MsgInReturns \/ MsgOutReturns \/ MsgLoopReturns \/ UplinkReturns
  BY <1>8 DEF MsgInReturns, MsgOutReturns, MsgLoopReturns, UplinkReturns,
              GoroutineReturns, InStep, runVars, seqVars
<1>9. CASE SendGameWal \/ UplinkEntry \/ UplinkPosition
  BY <1>9 DEF SendGameWal, UplinkEntry, UplinkPosition, TrySend, InStep, runVars, seqVars
<1>10. CASE UNCHANGED vars
  BY <1>10 DEF InStep, vars
<1> QED
  BY <1>1, <1>2, <1>3, <1>4, <1>5, <1>6, <1>7, <1>8, <1>9, <1>10
  DEF Next, RunNext, HandleMsgLoop

\* The client and the game agree on the number of the next message in both
\* directions, for every width of the numbers and every size of the channels.
THEOREM InStepCorrect == Spec => []InStep
<1>1. Init => InStep
  BY DEF Init, InStep
<1> QED
  BY <1>1, TypeInvariance, InStepStep, PTL DEF Spec

-----------------------------------------------------------------------------
(***************************************************************************)
(* The events for the daemon.                                              *)
(***************************************************************************)

\* What was sent last, by where Run stands.
EventOK ==
    /\ pc \in {"idle", "hello"} =>
         lastEvent.kind \in {"none", "end"} /\ lastEvent.session = session
    /\ pc = "start" =>
         \/ lastEvent.kind \in {"none", "end"} /\ lastEvent.session + 1 = session
         \/ lastEvent = [kind |-> "news", session |-> session]
    /\ pc \in {"up", "wait"} => lastEvent = [kind |-> "news", session |-> session]
    /\ pc = "closed" => lastEvent.kind = "close"

\* What a step may send, by where Run stands.
EventStep ==
    lastEvent' # lastEvent =>
        \/ pc \in {"start", "up", "wait"} /\ lastEvent' = [kind |-> "news", session |-> session]
        \/ pc = "wait" /\ lastEvent' = [kind |-> "end", session |-> session]
        \/ pc = "idle" /\ lastEvent' = [lastEvent EXCEPT !.kind = "close"]

LEMMA EventSteps ==
    ASSUME TypeInv, EventOK, [Next]_vars
    PROVE  EventOK' /\ EventStep
<1> USE DEF EventOK, EventStep
<1>1. CASE Stop \/ Connect \/ HelloFails
  BY <1>1 DEF Stop, Connect, HelloFails
<1>2. CASE RunStarts
  BY <1>2 DEF RunStarts, TypeInv, TypeOK
<1>3. CASE GameStart
  BY <1>3 DEF GameStart, DaemonSend
<1>4. CASE CloseConn
  BY <1>4 DEF CloseConn
<1>5. CASE GameEnd
  BY <1>5 DEF GameEnd, DaemonSend, Forget
<1>6. CASE AppReturns
  BY <1>6 DEF AppReturns, TypeInv, TypeOK
<1>7. CASE HandleInfo
  <2>1. pc \in {"start", "up", "wait"} /\ UNCHANGED <<pc, session>>
    BY <1>7 DEF HandleInfo, Accept, TypeInv, TypeOK, runVars
  <2> QED
    BY <1>7, <2>1 DEF HandleInfo, DaemonSend
<1>8. CASE \/ GameQuery \/ (\E op \in Op \ {"query"} : MsgIn(op, 0)) \/ MsgOut
           \/ HandleWalIn \/ HandlePosition \/ HandleQuery \/ HandleMsgFails
           \/ SendGameWal \/ UplinkEntry \/ UplinkPosition \/ UplinkReturns
           \/ MsgInReturns \/ MsgOutReturns \/ MsgLoopReturns \/ UNCHANGED vars
  <2>1. UNCHANGED <<pc, session, lastEvent>>
    BY <1>8 DEF GameQuery, MsgIn, MsgOut, HandleWalIn, HandlePosition, HandleQuery, Accept,
                HandleMsgFails, SendGameWal, UplinkEntry, UplinkPosition, UplinkReturns,
                MsgInReturns, MsgOutReturns, MsgLoopReturns, runVars, vars
  <2> QED
    BY <2>1
<1> QED
  BY <1>1, <1>2, <1>3, <1>4, <1>5, <1>6, <1>7, <1>8 DEF Next, RunNext, HandleMsgLoop

\* GAME_START and INFO come before the GAME_END of their session, GAME_END before
\* anything of the next, and nothing after DaemonConn.Close.
THEOREM EventsCorrect == Spec => EventsInOrder
<1>1. Init => EventOK
  BY DEF Init, EventOK
<1>2. TypeInv /\ EventOK /\ [Next]_vars => EventOK'
  BY EventSteps
<1> DEFINE Ordered ==
      lastEvent' # lastEvent =>
         /\ lastEvent.kind # "close"
         /\ lastEvent.kind = "end" =>
              lastEvent'.kind = "close" \/ lastEvent'.session = lastEvent.session + 1
         /\ lastEvent.kind = "news" =>
              lastEvent'.kind # "close" /\ lastEvent'.session = lastEvent.session
<1>3. TypeInv /\ EventOK /\ [Next]_vars => [Ordered]_vars
  <2> SUFFICES ASSUME TypeInv, EventOK, [Next]_vars, lastEvent' # lastEvent
               PROVE  Ordered
    OBVIOUS
  <2>1. EventStep
    BY EventSteps
  <2>2. CASE pc \in {"start", "up", "wait"} /\ lastEvent' = [kind |-> "news", session |-> session]
    BY <2>2 DEF EventOK
  <2>3. CASE pc = "wait" /\ lastEvent' = [kind |-> "end", session |-> session]
    BY <2>3 DEF EventOK
  <2>4. CASE pc = "idle" /\ lastEvent' = [lastEvent EXCEPT !.kind = "close"]
    BY <2>4 DEF EventOK, TypeInv, TypeOK
  <2> QED
    BY <2>1, <2>2, <2>3, <2>4 DEF EventStep
<1> QED
  BY <1>1, <1>2, <1>3, TypeInvariance, PTL DEF Spec, EventsInOrder
=============================================================================
