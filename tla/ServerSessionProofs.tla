------------------------ MODULE ServerSessionProofs ------------------------
(***************************************************************************)
(* The sessions of the server: the proofs.                                 *)
(*                                                                         *)
(* The App finds a session again by its identifier, when it releases it.   *)
(* That this is the object which was acquired needs the whole agreement of *)
(* the App's map, the objects and the connections: MapOK and HolderOK.     *)
(* The counts are about sets of connections, which are finite although     *)
(* Conn need not be: UsersCounted.                                         *)
(***************************************************************************)
EXTENDS ServerSession, FiniteSetTheorems, TLAPS

\* The connections that hold a Session object.
Users(h) == {x \in Conn : session[x] = h}

\* The places of handleClient at which the Player is registered.
Registered == {"reply", "run", "wait"}

\* handleClient goes on with the hello it was sent.
HelloOK == \A x \in Conn : pc[x] # "free" => hello[x] \in Hello

\* The map leads to open objects of the right identifier, and every open object
\* is in the map.
MapOK ==
    /\ \A i \in SessionID : sessions[i] # NoHandle =>
         /\ object[sessions[i]].open
         /\ object[sessions[i]].of.id = i
    /\ \A h \in Handle : object[h].open =>
         /\ object[h].of \in Hello
         /\ sessions[object[h].of.id] = h

\* A connection holds the object of its identifier.
HolderOK ==
    \A x \in Conn : session[x] # NoHandle => sessions[hello[x].id] = session[x]

\* The count of an object is that of its connections.
UsersCounted ==
    \A h \in Handle :
        /\ IsFiniteSet(Users(h))
        /\ object[h].count = Cardinality(Users(h))
        /\ object[h].open <=> object[h].count > 0

\* Session.players.
PlayersOK ==
    \A h \in Handle : players[h] = {x \in Conn : session[x] = h /\ pc[x] \in Registered}

\* The goroutines run after the hello was written and until Join returns.
RunningOK ==
    \A x \in Conn :
        /\ running[x] # {} => pc[x] \in {"run", "wait"}
        /\ first[x] = IF pc[x] \in {"run", "wait"} THEN "hello" ELSE "none"

SessionInv ==
    /\ TypeOK
    /\ HelloOK
    /\ MapOK
    /\ HolderOK
    /\ UsersCounted
    /\ PlayersOK
    /\ RunningOK

-----------------------------------------------------------------------------
(***************************************************************************)
(* Types, and what the initial state gives.                                *)
(***************************************************************************)

\* run starts without sessions and connections.
LEMMA SessionInit == Init => SessionInv
<1> SUFFICES ASSUME Init PROVE SessionInv
  OBVIOUS
<1> USE ServerSessionAssumption
<1>1. TypeOK
  <2>1. Closed \in [of : Hello \cup {NoHello}, count : Nat, open : BOOLEAN]
    BY DEF Closed
  <2>2. object \in [Handle -> [of : Hello \cup {NoHello}, count : Nat, open : BOOLEAN]]
    BY <2>1 DEF Init
  <2>3. in \in [Conn -> 0..InCap] /\ out \in [Conn -> 0..OutCap]
    BY DEF Init
  <2> QED
    BY <2>2, <2>3 DEF Init, TypeOK
<1>2. HelloOK /\ HolderOK /\ RunningOK
  BY DEF Init, HelloOK, HolderOK, RunningOK
<1>3. MapOK
  BY DEF Init, MapOK, Closed
<1>4. \A h \in Handle : Users(h) = {}
  BY DEF Init, Users
<1>5. UsersCounted
  <2>1. \A h \in Handle : object[h].count = 0 /\ object[h].open = FALSE
    BY DEF Init, Closed
  <2> QED
    BY <1>4, <2>1, FS_EmptySet DEF UsersCounted
<1>6. PlayersOK
  BY DEF Init, PlayersOK, Registered
<1> QED
  BY <1>1, <1>2, <1>3, <1>5, <1>6 DEF SessionInv

\* The fields of an object and of a hello.
LEMMA Fields ==
    ASSUME TypeOK
    PROVE  /\ \A h \in Handle : object[h].count \in Nat /\ object[h].open \in BOOLEAN
           /\ \A h \in Hello : h.id \in SessionID /\ h.secret \in Secret
BY DEF TypeOK, Hello

-----------------------------------------------------------------------------
(***************************************************************************)
(* Steps that leave the App and the sessions alone: the goroutines of the  *)
(* players, the stop, the close of a connection.                           *)
(***************************************************************************)

\* A channel of a player holds a packet more, or less.
LEMMA ChannelCount ==
    ASSUME NEW cap \in Nat, NEW f \in [Conn -> 0..cap], NEW x \in Conn
    PROVE  /\ f[x] < cap => [f EXCEPT ![x] = @ + 1] \in [Conn -> 0..cap]
           /\ f[x] # 0 => [f EXCEPT ![x] = @ - 1] \in [Conn -> 0..cap]
           /\ [f EXCEPT ![x] = 0] \in [Conn -> 0..cap]
OBVIOUS

\* A step of a goroutine keeps its player within its types.
LEMMA PlayerTypes ==
    ASSUME TypeOK, NEW x \in Conn, PlayerNext(x)
    PROVE  TypeOK'
<1> USE ServerSessionAssumption DEF appVars
<1>1. CASE MsgIn(x)
  BY <1>1 DEF TypeOK, MsgIn
<1>2. CASE MsgInReturns(x)
  BY <1>2 DEF TypeOK, MsgInReturns, GoroutineReturns
<1>3. CASE MsgOut(x)
  <2>1. out' \in [Conn -> 0..OutCap]
    BY <1>3, ChannelCount DEF MsgOut, TypeOK
  <2> QED
    BY <1>3, <2>1 DEF TypeOK, MsgOut, FirstWritten
<1>4. CASE MsgOutReturns(x)
  BY <1>4 DEF TypeOK, MsgOutReturns, GoroutineReturns
<1>5. CASE HandlePacket(x)
  <2>1. in' \in [Conn -> 0..InCap]
    BY <1>5, ChannelCount DEF HandlePacket, TypeOK
  <2>2. CASE Send(x)
    BY <1>5, <2>1, <2>2, ChannelCount DEF TypeOK, HandlePacket, Send
  <2>3. CASE Broadcast(x)
    <3>1. out' \in [Conn -> 0..OutCap]
      BY <2>3 DEF Broadcast, TypeOK
    <3> QED
      BY <1>5, <2>1, <3>1 DEF TypeOK, HandlePacket
  <2>4. CASE UNCHANGED out
    BY <1>5, <2>1, <2>4 DEF TypeOK, HandlePacket
  <2> QED
    BY <1>5, <2>2, <2>3, <2>4 DEF HandlePacket
<1>6. CASE HandlePacketFails(x)
  <2>1. in' \in [Conn -> 0..InCap]
    BY <1>6, ChannelCount DEF HandlePacketFails, TypeOK
  <2> QED
    BY <1>6, <2>1 DEF TypeOK, HandlePacketFails, GoroutineReturns
<1>7. CASE PacketsReturns(x)
  BY <1>7 DEF TypeOK, PacketsReturns, GoroutineReturns
<1>8. CASE WalStream(x)
  BY <1>8 DEF TypeOK, WalStream, Send
<1>9. CASE WalStreamReturns(x)
  BY <1>9 DEF TypeOK, WalStreamReturns, GoroutineReturns
<1> QED
  BY <1>1, <1>2, <1>3, <1>4, <1>5, <1>6, <1>7, <1>8, <1>9 DEF PlayerNext

\* What a goroutine of a player changes of the state of the others: nothing of
\* the App, and no goroutine is started.
LEMMA PlayerKeeps ==
    ASSUME TypeOK, RunningOK, NEW x \in Conn, PlayerNext(x)
    PROVE  /\ UNCHANGED <<sessions, object, players, pc, hello, session>>
           /\ RunningOK'
<1> USE DEF appVars
<1>1. UNCHANGED <<sessions, object, players, pc, hello, session>>
  BY DEF PlayerNext, MsgIn, MsgInReturns, MsgOut, MsgOutReturns, HandlePacket,
         HandlePacketFails, PacketsReturns, WalStream, WalStreamReturns
<1>2. CASE MsgOut(x)
  BY <1>2 DEF MsgOut, FirstWritten, Runs, RunningOK, TypeOK
<1>3. CASE \/ MsgIn(x) \/ HandlePacket(x) \/ WalStream(x)
  BY <1>3 DEF MsgIn, HandlePacket, WalStream, RunningOK, TypeOK
<1>4. CASE \/ MsgInReturns(x) \/ MsgOutReturns(x) \/ HandlePacketFails(x)
           \/ PacketsReturns(x) \/ WalStreamReturns(x)
  BY <1>4 DEF MsgInReturns, MsgOutReturns, HandlePacketFails, PacketsReturns,
              WalStreamReturns, GoroutineReturns, Runs, RunningOK, TypeOK
<1> QED
  BY <1>1, <1>2, <1>3, <1>4 DEF PlayerNext

\* Nothing the App agrees on is touched.
LEMMA AppKept ==
    ASSUME SessionInv, UNCHANGED <<sessions, object, players, pc, hello, session>>
    PROVE  HelloOK' /\ MapOK' /\ HolderOK' /\ UsersCounted' /\ PlayersOK'
BY DEF SessionInv, HelloOK, MapOK, HolderOK, UsersCounted, Users, PlayersOK

LEMMA PlayerStep ==
    ASSUME SessionInv, NEW x \in Conn, PlayerNext(x)
    PROVE  SessionInv'
<1>1. TypeOK' /\ RunningOK' /\ UNCHANGED <<sessions, object, players, pc, hello, session>>
  BY PlayerTypes, PlayerKeeps DEF SessionInv
<1> QED
  BY <1>1, AppKept DEF SessionInv

LEMMA StopStep ==
    ASSUME SessionInv, Stop
    PROVE  SessionInv'
<1>1. TypeOK' /\ RunningOK'
  BY DEF SessionInv, Stop, TypeOK, RunningOK, playerVars
<1> QED
  BY <1>1, AppKept DEF SessionInv, Stop

LEMMA StutterStep ==
    ASSUME SessionInv, UNCHANGED sessionVars
    PROVE  SessionInv'
<1>1. TypeOK' /\ RunningOK'
  BY DEF SessionInv, sessionVars, TypeOK, RunningOK
<1> QED
  BY <1>1, AppKept DEF SessionInv, sessionVars

-----------------------------------------------------------------------------
(***************************************************************************)
(* handleClient, before a session is acquired and while it is held.        *)
(***************************************************************************)

\* A connection that is not at a later place holds no session, and so is no
\* user of any object.
LEMMA NotUser ==
    ASSUME TypeOK, NEW x \in Conn, pc[x] \in {"free", "accepted"}, NEW h \in Handle
    PROVE  session[x] = NoHandle /\ x \notin Users(h)
BY ServerSessionAssumption DEF TypeOK, Users

LEMMA AcceptStep ==
    ASSUME SessionInv, NEW x \in Conn, NEW h \in Hello, Accept(x, h)
    PROVE  SessionInv'
<1> USE ServerSessionAssumption DEF Accept, Goto, appVars, playerVars
<1>1. TypeOK'
  BY DEF SessionInv, TypeOK
<1>2. session[x] = NoHandle
  BY DEF SessionInv, TypeOK
<1>3. HelloOK' /\ RunningOK'
  BY DEF SessionInv, HelloOK, RunningOK, TypeOK
<1>4. MapOK'
  BY DEF SessionInv, MapOK
<1>5. HolderOK'
  BY <1>2 DEF SessionInv, HolderOK, TypeOK
<1>6. UsersCounted'
  BY DEF SessionInv, UsersCounted, Users
<1>7. PlayersOK'
  BY <1>2 DEF SessionInv, PlayersOK, Registered, TypeOK
<1> QED
  BY <1>1, <1>3, <1>4, <1>5, <1>6, <1>7 DEF SessionInv

\* handleClient returns without having acquired a session.
LEMMA RefusedStep ==
    ASSUME SessionInv, NEW x \in Conn, pc[x] = "accepted", Return(x),
           UNCHANGED <<appVars, players, playerVars>>
    PROVE  SessionInv'
<1> USE ServerSessionAssumption DEF Return, Goto, appVars, playerVars
<1>1. session[x] = NoHandle /\ session' = session
  BY DEF SessionInv, TypeOK
<1>2. TypeOK'
  BY <1>1 DEF SessionInv, TypeOK
<1>3. HelloOK' /\ RunningOK'
  BY DEF SessionInv, HelloOK, RunningOK, TypeOK
<1>4. MapOK'
  BY DEF SessionInv, MapOK
<1>5. HolderOK'
  BY <1>1 DEF SessionInv, HolderOK, TypeOK
<1>6. UsersCounted'
  BY <1>1 DEF SessionInv, UsersCounted, Users
<1>7. PlayersOK'
  BY <1>1 DEF SessionInv, PlayersOK, Registered, TypeOK
<1> QED
  BY <1>2, <1>3, <1>4, <1>5, <1>6, <1>7 DEF SessionInv

\* handleClient goes from one place to another while it holds its session.
LEMMA HeldKept ==
    ASSUME SessionInv, NEW x \in Conn, NEW label \in {"reply", "run", "wait", "release"},
           pc[x] \in {"join", "reply", "run", "wait"}, Goto(x, label),
           UNCHANGED <<sessions, object, hello, session>>
    PROVE  HelloOK' /\ MapOK' /\ HolderOK' /\ UsersCounted'
<1>1. HelloOK'
  BY DEF SessionInv, HelloOK, TypeOK, Goto
<1> QED
  BY <1>1 DEF SessionInv, MapOK, HolderOK, UsersCounted, Users

LEMMA RegisterStep ==
    ASSUME SessionInv, NEW x \in Conn, Register(x)
    PROVE  SessionInv'
<1> USE ServerSessionAssumption DEF Register, Goto, appVars, playerVars
<1>1. session[x] \in Handle
  BY DEF SessionInv, TypeOK
<1>2. TypeOK'
  BY <1>1 DEF SessionInv, TypeOK
<1>3. HelloOK' /\ MapOK' /\ HolderOK' /\ UsersCounted'
  BY HeldKept
<1>4. PlayersOK'
  BY <1>1 DEF SessionInv, PlayersOK, Registered, TypeOK
<1>5. RunningOK'
  BY DEF SessionInv, RunningOK, TypeOK
<1> QED
  BY <1>2, <1>3, <1>4, <1>5 DEF SessionInv

LEMMA ReplyStep ==
    ASSUME SessionInv, NEW x \in Conn, Reply(x)
    PROVE  SessionInv'
<1> USE DEF Reply, Goto, appVars
<1>1. TypeOK'
  BY DEF SessionInv, TypeOK, FirstWritten
<1>2. HelloOK' /\ MapOK' /\ HolderOK' /\ UsersCounted'
  BY HeldKept
<1>3. PlayersOK'
  BY DEF SessionInv, PlayersOK, Registered, TypeOK
<1>4. RunningOK'
  BY DEF SessionInv, RunningOK, TypeOK, FirstWritten
<1> QED
  BY <1>1, <1>2, <1>3, <1>4 DEF SessionInv

LEMMA CloseConnStep ==
    ASSUME SessionInv, NEW x \in Conn, CloseConn(x)
    PROVE  SessionInv'
<1> USE DEF CloseConn, Goto, appVars, playerVars
<1>1. TypeOK'
  BY DEF SessionInv, TypeOK
<1>2. HelloOK' /\ MapOK' /\ HolderOK' /\ UsersCounted'
  BY HeldKept
<1>3. PlayersOK'
  BY DEF SessionInv, PlayersOK, Registered, TypeOK
<1>4. RunningOK'
  BY DEF SessionInv, RunningOK, TypeOK
<1> QED
  BY <1>1, <1>2, <1>3, <1>4 DEF SessionInv

\* Join returns, when no goroutine runs: the hello could not be written, or
\* they all have returned.
LEMMA UnregisterStep ==
    ASSUME SessionInv, NEW x \in Conn, pc[x] \in {"reply", "wait"}, running[x] = {},
           Unregister(x), UNCHANGED <<appVars, hello, session, running>>
    PROVE  SessionInv'
<1> USE ServerSessionAssumption DEF Unregister, Goto, appVars
<1>1. session[x] \in Handle
  BY DEF SessionInv, TypeOK
<1>2. in' \in [Conn -> 0..InCap] /\ out' \in [Conn -> 0..OutCap]
  BY ChannelCount DEF SessionInv, TypeOK
<1>3. TypeOK'
  BY <1>1, <1>2 DEF SessionInv, TypeOK
<1>4. HelloOK' /\ MapOK' /\ HolderOK' /\ UsersCounted'
  BY HeldKept
<1>5. PlayersOK'
  BY <1>1 DEF SessionInv, PlayersOK, Registered, TypeOK
<1>6. RunningOK'
  BY DEF SessionInv, RunningOK, TypeOK
<1> QED
  BY <1>3, <1>4, <1>5, <1>6 DEF SessionInv

-----------------------------------------------------------------------------
(***************************************************************************)
(* acquireSession and releaseSession.                                      *)
(***************************************************************************)

\* A connection that held nothing takes an object.
LEMMA UsersJoin ==
    ASSUME TypeOK, NEW x \in Conn, session[x] = NoHandle, NEW h \in Handle,
           session' = [session EXCEPT ![x] = h]
    PROVE  /\ Users(h)' = Users(h) \cup {x}
           /\ x \notin Users(h)
           /\ \A g \in Handle : g # h => Users(g)' = Users(g)
BY ServerSessionAssumption DEF TypeOK, Users

\* A connection lets go of its object.
LEMMA UsersLeave ==
    ASSUME TypeOK, NEW x \in Conn, NEW h \in Handle, session[x] = h,
           session' = [session EXCEPT ![x] = NoHandle]
    PROVE  /\ Users(h)' = Users(h) \ {x}
           /\ x \in Users(h)
           /\ \A g \in Handle : g # h => Users(g)' = Users(g)
BY ServerSessionAssumption DEF TypeOK, Users

\* A change of the count changes nothing else of an object.
LEMMA CountChanges ==
    ASSUME TypeOK, NEW h \in Handle, NEW n \in Nat,
           object' = [object EXCEPT ![h] = [object[h] EXCEPT !.count = n]]
    PROVE  /\ object'[h].of = object[h].of
           /\ object'[h].open = object[h].open
           /\ object'[h].count = n
           /\ \A g \in Handle : g # h => object'[g] = object[g]
           /\ object' \in [Handle -> [of : Hello \cup {NoHello}, count : Nat, open : BOOLEAN]]
<1>1. object[h] \in [of : Hello \cup {NoHello}, count : Nat, open : BOOLEAN]
  BY DEF TypeOK
<1>2. [object[h] EXCEPT !.count = n] \in [of : Hello \cup {NoHello}, count : Nat, open : BOOLEAN]
  BY <1>1
<1> QED
  BY <1>1, <1>2 DEF TypeOK

\* An open session gets another user.
LEMMA AcquireStep ==
    ASSUME SessionInv, NEW x \in Conn, Acquire(x)
    PROVE  SessionInv'
<1> USE ServerSessionAssumption
<1>1. /\ hello[x] \in Hello /\ hello[x].id \in SessionID /\ session[x] = NoHandle
      /\ TypeOK /\ pc[x] = "accepted"
  BY Fields DEF SessionInv, HelloOK, TypeOK, Acquire
<1>2. PICK h \in Handle : h = sessions[hello[x].id]
  BY <1>1 DEF TypeOK, Acquire
<1>3. /\ object' = [object EXCEPT ![h] = [object[h] EXCEPT !.count = @ + 1]]
      /\ session' = [session EXCEPT ![x] = h]
      /\ pc' = [pc EXCEPT ![x] = "join"]
      /\ UNCHANGED <<stopped, sessions, players, hello, running, cancelled, in, out, first>>
  BY <1>2 DEF Acquire, Goto, playerVars
<1>4. /\ object'[h].of = object[h].of
      /\ object'[h].open = object[h].open
      /\ object'[h].count = object[h].count + 1
      /\ \A g \in Handle : g # h => object'[g] = object[g]
      /\ object' \in [Handle -> [of : Hello \cup {NoHello}, count : Nat, open : BOOLEAN]]
  <2>1. object[h].count + 1 \in Nat
    BY <1>1, Fields
  <2> QED
    BY <1>1, <1>3, <2>1, CountChanges
<1>5. TypeOK'
  BY <1>1, <1>2, <1>3, <1>4 DEF TypeOK
<1>6. HelloOK' /\ RunningOK'
  BY <1>1, <1>3 DEF SessionInv, HelloOK, RunningOK, TypeOK
<1>7. MapOK'
  <2>1. \A g \in Handle : object'[g].open = object[g].open /\ object'[g].of = object[g].of
    BY <1>4
  <2>2. \A i \in SessionID : sessions[i] # NoHandle => sessions[i] \in Handle
    BY <1>1 DEF TypeOK
  <2> QED
    BY <1>3, <2>1, <2>2 DEF SessionInv, MapOK
<1>8. HolderOK'
  BY <1>1, <1>2, <1>3, <1>4 DEF SessionInv, HolderOK, TypeOK
<1>9. UsersCounted'
  <2>1. /\ Users(h)' = Users(h) \cup {x}
        /\ x \notin Users(h)
        /\ \A g \in Handle : g # h => Users(g)' = Users(g)
    BY <1>1, <1>2, <1>3, UsersJoin
  <2>2. /\ IsFiniteSet(Users(h)) /\ object[h].count = Cardinality(Users(h))
        /\ object[h].open /\ object[h].count \in Nat
    BY <1>1, <1>2, Fields DEF SessionInv, UsersCounted, MapOK
  <2>3. IsFiniteSet(Users(h)') /\ Cardinality(Users(h)') = object'[h].count
    BY <1>4, <2>1, <2>2, FS_AddElement
  <2>4. object'[h].open <=> object'[h].count > 0
    BY <1>4, <2>2
  <2>5. ASSUME NEW g \in Handle, g # h
        PROVE  Users(g)' = Users(g) /\ object'[g] = object[g]
    BY <2>1, <1>4, <2>5
  <2> QED
    BY <2>3, <2>4, <2>5 DEF SessionInv, UsersCounted
<1>10. PlayersOK'
  BY <1>1, <1>2, <1>3 DEF SessionInv, PlayersOK, Registered, TypeOK
<1> QED
  BY <1>5, <1>6, <1>7, <1>8, <1>9, <1>10 DEF SessionInv

\* OpenSession: nobody holds the new object, and the map had no other.
LEMMA AcquireOpensStep ==
    ASSUME SessionInv, NEW x \in Conn, NEW h \in Handle, AcquireOpens(x, h)
    PROVE  SessionInv'
<1> USE ServerSessionAssumption DEF AcquireOpens, Goto, playerVars
<1>1. hello[x] \in Hello /\ hello[x].id \in SessionID /\ session[x] = NoHandle /\ TypeOK
  BY Fields DEF SessionInv, HelloOK, TypeOK
<1>2. /\ object'[h].of = hello[x]
      /\ object'[h].open = TRUE
      /\ object'[h].count = 1
      /\ \A g \in Handle : g # h => object'[g] = object[g]
      /\ object' \in [Handle -> [of : Hello \cup {NoHello}, count : Nat, open : BOOLEAN]]
  BY <1>1 DEF TypeOK
<1>3. Users(h) = {} /\ ~object[h].open /\ sessions[hello[x].id] = NoHandle
  BY DEF Refers, Users
<1>4. TypeOK'
  BY <1>1, <1>2 DEF TypeOK
<1>5. HelloOK' /\ RunningOK'
  BY <1>1 DEF SessionInv, HelloOK, RunningOK, TypeOK
<1>6. MapOK'
  <2>1. \A i \in SessionID : sessions[i] # h
    BY <1>3 DEF SessionInv, MapOK
  <2>2. ASSUME NEW i \in SessionID, sessions'[i] # NoHandle
        PROVE  object'[sessions'[i]].open /\ object'[sessions'[i]].of.id = i
    <3>1. CASE i = hello[x].id
      BY <1>1, <1>2, <3>1 DEF TypeOK
    <3>2. CASE i # hello[x].id
      <4>1. sessions'[i] = sessions[i] /\ sessions[i] \in Handle /\ sessions[i] # h
        BY <1>1, <2>1, <2>2, <3>2 DEF TypeOK
      <4> QED
        BY <1>2, <4>1 DEF SessionInv, MapOK
    <3> QED
      BY <3>1, <3>2
  <2>3. ASSUME NEW g \in Handle, object'[g].open
        PROVE  object'[g].of \in Hello /\ sessions'[object'[g].of.id] = g
    <3>1. CASE g = h
      BY <1>1, <1>2, <3>1 DEF TypeOK
    <3>2. CASE g # h
      <4>1. object[g].open /\ object[g].of \in Hello /\ sessions[object[g].of.id] = g
        BY <1>2, <2>3, <3>2 DEF SessionInv, MapOK
      <4>2. object[g].of.id \in SessionID /\ object[g].of.id # hello[x].id
        BY <1>1, <1>3, <4>1, Fields
      <4> QED
        BY <1>1, <1>2, <3>2, <4>1, <4>2 DEF TypeOK
    <3> QED
      BY <3>1, <3>2
  <2> QED
    BY <2>2, <2>3 DEF MapOK
<1>7. HolderOK'
  <2> SUFFICES ASSUME NEW y \in Conn, session'[y] # NoHandle
               PROVE  sessions'[hello'[y].id] = session'[y]
    BY DEF HolderOK
  <2>1. CASE y = x
    BY <1>1, <1>2, <2>1 DEF TypeOK
  <2>2. CASE y # x
    <3>1. session'[y] = session[y] /\ session[y] \in Handle /\ hello'[y] = hello[y]
      BY <2>2 DEF SessionInv, TypeOK
    <3>2. hello[y].id \in SessionID
      BY <1>1, <3>1, Fields DEF SessionInv, TypeOK, HelloOK
    <3>3. sessions[hello[y].id] = session[y]
      BY <3>1 DEF SessionInv, HolderOK
    <3>4. session[y] # h /\ hello[y].id # hello[x].id
      BY <1>3, <3>1, <3>3 DEF Users
    <3> QED
      BY <1>1, <1>2, <3>1, <3>2, <3>3, <3>4 DEF TypeOK
  <2> QED
    BY <2>1, <2>2
<1>8. UsersCounted'
  <2>1. /\ Users(h)' = {x}
        /\ \A g \in Handle : g # h => Users(g)' = Users(g)
    <3>1. session' = [session EXCEPT ![x] = h]
      OBVIOUS
    <3>2. /\ Users(h)' = Users(h) \cup {x}
          /\ \A g \in Handle : g # h => Users(g)' = Users(g)
      BY <1>1, <3>1, UsersJoin
    <3> QED
      BY <1>3, <3>2
  <2>2. IsFiniteSet(Users(h)') /\ Cardinality(Users(h)') = 1
    <3>1. IsFiniteSet({x}) /\ Cardinality({x}) = 1
      BY FS_Singleton
    <3> QED
      BY <2>1, <3>1
  <2>3. ASSUME NEW g \in Handle, g # h
        PROVE  Users(g)' = Users(g) /\ object'[g] = object[g]
    BY <2>1, <1>2, <2>3
  <2> QED
    BY <1>2, <2>2, <2>3 DEF SessionInv, UsersCounted
<1>9. PlayersOK'
  BY <1>1, <1>3 DEF SessionInv, PlayersOK, Registered, TypeOK, Users
<1> QED
  BY <1>4, <1>5, <1>6, <1>7, <1>8, <1>9 DEF SessionInv

\* The session the identifier leads to is the one that was acquired.
LEMMA ReleasesOwn ==
    ASSUME SessionInv, NEW x \in Conn, Release(x)
    PROVE  /\ TypeOK /\ hello[x] \in Hello /\ hello[x].id \in SessionID
           /\ sessions[hello[x].id] = session[x] /\ session[x] \in Handle
           /\ object[session[x]].open /\ object[session[x]].count \in Nat
           /\ object[session[x]].of.id = hello[x].id
<1> USE ServerSessionAssumption DEF Release
<1>1. TypeOK /\ session[x] \in Handle /\ hello[x] \in Hello /\ hello[x].id \in SessionID
  BY Fields DEF SessionInv, TypeOK, HelloOK
<1>2. sessions[hello[x].id] = session[x]
  BY <1>1 DEF SessionInv, HolderOK
<1>3. object[session[x]].open /\ object[session[x]].of.id = hello[x].id
  BY <1>1, <1>2 DEF SessionInv, MapOK
<1> QED
  BY <1>1, <1>2, <1>3, Fields

\* The last user leaves: nobody holds the object, and it is closed.
LEMMA ReleaseLastStep ==
    ASSUME SessionInv, NEW x \in Conn, Release(x), object[session[x]].count <= 1,
           NEW h \in Handle, session[x] = h, NEW id \in SessionID, hello[x].id = id
    PROVE  SessionInv'
<1>1. /\ TypeOK /\ hello[x] \in Hello /\ sessions[id] = h
      /\ object[h].open /\ object[h].count \in Nat /\ object[h].of.id = id
  BY ReleasesOwn
<1>2. /\ object' = [object EXCEPT ![h] = Closed]
      /\ sessions' = [sessions EXCEPT ![id] = NoHandle]
      /\ pc' = [pc EXCEPT ![x] = "free"]
      /\ hello' = [hello EXCEPT ![x] = NoHello]
      /\ session' = [session EXCEPT ![x] = NoHandle]
      /\ UNCHANGED <<stopped, players, running, cancelled, in, out, first>>
      /\ pc[x] = "release" /\ session[x] = h
  BY <1>1, ServerSessionAssumption DEF Release, Return, Goto, playerVars
<1> USE ServerSessionAssumption
<1>3. /\ object'[h].open = FALSE
      /\ object'[h].count = 0
      /\ \A g \in Handle : g # h => object'[g] = object[g]
      /\ object' \in [Handle -> [of : Hello \cup {NoHello}, count : Nat, open : BOOLEAN]]
  <2>1. Closed \in [of : Hello \cup {NoHello}, count : Nat, open : BOOLEAN]
        /\ Closed.open = FALSE /\ Closed.count = 0
    BY DEF Closed
  <2> QED
    BY <1>1, <1>2, <2>1 DEF TypeOK
<1>4. /\ Users(h)' = Users(h) \ {x}
      /\ x \in Users(h)
      /\ \A g \in Handle : g # h => Users(g)' = Users(g)
  BY <1>1, <1>2, UsersLeave
<1>5. Users(h)' = {} /\ Users(h) = {x}
  <2>1. IsFiniteSet(Users(h)) /\ Cardinality(Users(h)) <= 1
        /\ Cardinality(Users(h)) > 0
    BY <1>1 DEF SessionInv, UsersCounted
  <2>2. Cardinality(Users(h)) = 1
    BY <2>1, FS_CardinalityType
  <2>3. PICK z : Users(h) = {z}
    BY <2>1, <2>2, FS_Singleton
  <2> QED
    BY <1>4, <2>3
<1>6. TypeOK'
  BY <1>1, <1>2, <1>3 DEF TypeOK
<1>7. HelloOK' /\ RunningOK'
  BY <1>2 DEF SessionInv, HelloOK, RunningOK, TypeOK
<1>8. MapOK'
  <2>1. ASSUME NEW i \in SessionID, sessions'[i] # NoHandle
        PROVE  object'[sessions'[i]].open /\ object'[sessions'[i]].of.id = i
    <3>1. i # id /\ sessions'[i] = sessions[i] /\ sessions[i] \in Handle
      BY <1>1, <1>2, <2>1 DEF TypeOK
    <3>2. object[sessions[i]].open /\ object[sessions[i]].of.id = i
      BY <2>1, <3>1 DEF SessionInv, MapOK
    <3>3. sessions[i] # h
      BY <1>1, <3>1, <3>2
    <3> QED
      BY <1>3, <3>1, <3>2, <3>3
  <2>2. ASSUME NEW g \in Handle, object'[g].open
        PROVE  object'[g].of \in Hello /\ sessions'[object'[g].of.id] = g
    <3>1. g # h /\ object'[g] = object[g]
      BY <1>3, <2>2
    <3>2. object[g].of \in Hello /\ sessions[object[g].of.id] = g
      BY <2>2, <3>1 DEF SessionInv, MapOK
    <3>3. object[g].of.id \in SessionID /\ object[g].of.id # id
      BY <1>1, <3>1, <3>2, Fields
    <3> QED
      BY <1>1, <1>2, <3>1, <3>2, <3>3 DEF TypeOK
  <2> QED
    BY <2>1, <2>2 DEF MapOK
<1>9. HolderOK'
  <2> SUFFICES ASSUME NEW y \in Conn, session'[y] # NoHandle
               PROVE  sessions'[hello'[y].id] = session'[y]
    BY DEF HolderOK
  <2>1. y # x /\ session'[y] = session[y] /\ session[y] \in Handle /\ hello'[y] = hello[y]
    BY <1>1, <1>2 DEF TypeOK
  <2>2. hello[y].id \in SessionID
    BY <1>1, <2>1, Fields DEF SessionInv, TypeOK, HelloOK
  <2>3. sessions[hello[y].id] = session[y]
    BY <2>1 DEF SessionInv, HolderOK
  <2>4. session[y] # h
    BY <1>5, <2>1 DEF Users
  <2>5. hello[y].id # id
    BY <1>1, <2>3, <2>4
  <2> QED
    BY <1>1, <1>2, <1>3, <2>1, <2>2, <2>3, <2>4, <2>5 DEF TypeOK
<1>10. UsersCounted'
  <2>1. IsFiniteSet(Users(h)') /\ Cardinality(Users(h)') = 0
    BY <1>5, FS_EmptySet
  <2>2. ASSUME NEW g \in Handle, g # h
        PROVE  Users(g)' = Users(g) /\ object'[g] = object[g]
    BY <1>3, <1>4, <2>2
  <2> QED
    BY <1>3, <2>1, <2>2 DEF SessionInv, UsersCounted
<1>11. PlayersOK'
  BY <1>1, <1>2 DEF SessionInv, PlayersOK, Registered, TypeOK
<1> QED
  BY <1>6, <1>7, <1>8, <1>9, <1>10, <1>11 DEF SessionInv

\* Another user stays, and so does the object.
LEMMA ReleaseOneStep ==
    ASSUME SessionInv, NEW x \in Conn, Release(x), ~(object[session[x]].count <= 1),
           NEW h \in Handle, session[x] = h, NEW id \in SessionID, hello[x].id = id
    PROVE  SessionInv'
<1>1. /\ TypeOK /\ hello[x] \in Hello /\ sessions[id] = h
      /\ object[h].open /\ object[h].count \in Nat /\ object[h].of.id = id
      /\ object[h].count > 1
  BY ReleasesOwn
<1>2. /\ object' = [object EXCEPT ![h] = [object[h] EXCEPT !.count = @ - 1]]
      /\ sessions' = sessions
      /\ pc' = [pc EXCEPT ![x] = "free"]
      /\ hello' = [hello EXCEPT ![x] = NoHello]
      /\ session' = [session EXCEPT ![x] = NoHandle]
      /\ UNCHANGED <<stopped, players, running, cancelled, in, out, first>>
      /\ pc[x] = "release" /\ session[x] = h
  BY <1>1, ServerSessionAssumption DEF Release, Return, Goto, playerVars
<1> USE ServerSessionAssumption
<1>3. /\ object'[h].of = object[h].of
      /\ object'[h].open = object[h].open
      /\ object'[h].count = object[h].count - 1
      /\ \A g \in Handle : g # h => object'[g] = object[g]
      /\ object' \in [Handle -> [of : Hello \cup {NoHello}, count : Nat, open : BOOLEAN]]
  <2>1. object[h].count - 1 \in Nat
    BY <1>1
  <2> QED
    BY <1>1, <1>2, <2>1, CountChanges
<1>4. TypeOK'
  BY <1>1, <1>2, <1>3 DEF TypeOK
<1>5. HelloOK' /\ RunningOK'
  BY <1>2 DEF SessionInv, HelloOK, RunningOK, TypeOK
<1>6. MapOK'
  <2>1. \A g \in Handle : object'[g].open = object[g].open /\ object'[g].of = object[g].of
    BY <1>3
  <2>2. \A i \in SessionID : sessions[i] # NoHandle => sessions[i] \in Handle
    BY <1>1 DEF TypeOK
  <2> QED
    BY <1>2, <2>1, <2>2 DEF SessionInv, MapOK
<1>7. HolderOK'
  <2>1. \A g \in Handle : object'[g].of = object[g].of
    BY <1>3
  <2> QED
    BY <1>1, <1>2, <2>1 DEF SessionInv, HolderOK, TypeOK
<1>8. UsersCounted'
  <2>1. /\ Users(h)' = Users(h) \ {x}
        /\ x \in Users(h)
        /\ \A g \in Handle : g # h => Users(g)' = Users(g)
    BY <1>1, <1>2, UsersLeave
  <2>2. IsFiniteSet(Users(h)) /\ object[h].count = Cardinality(Users(h))
    BY <1>1 DEF SessionInv, UsersCounted
  <2>3. IsFiniteSet(Users(h)') /\ Cardinality(Users(h)') = object'[h].count
    BY <1>3, <2>1, <2>2, FS_RemoveElement
  <2>4. object'[h].open <=> object'[h].count > 0
    BY <1>1, <1>3
  <2>5. ASSUME NEW g \in Handle, g # h
        PROVE  Users(g)' = Users(g) /\ object'[g] = object[g]
    BY <1>3, <2>1, <2>5
  <2> QED
    BY <2>3, <2>4, <2>5 DEF SessionInv, UsersCounted
<1>9. PlayersOK'
  BY <1>1, <1>2 DEF SessionInv, PlayersOK, Registered, TypeOK
<1> QED
  BY <1>4, <1>5, <1>6, <1>7, <1>8, <1>9 DEF SessionInv

-----------------------------------------------------------------------------
(***************************************************************************)
(* The theorems.                                                           *)
(***************************************************************************)

LEMMA HandleClientStep ==
    ASSUME SessionInv, NEW x \in Conn, HandleClient(x)
    PROVE  SessionInv'
<1>1. CASE NoHelloReceived(x) \/ AcquireRefused(x) \/ AcquireFails(x)
  BY <1>1, RefusedStep DEF NoHelloReceived, AcquireRefused, AcquireFails
<1>2. CASE Acquire(x)
  BY <1>2, AcquireStep
<1>3. CASE \E h \in Handle : AcquireOpens(x, h)
  BY <1>3, AcquireOpensStep
<1>4. CASE Register(x)
  BY <1>4, RegisterStep
<1>5. CASE Reply(x)
  BY <1>5, ReplyStep
<1>6. CASE ReplyFails(x)
  <2>1. running[x] = {} /\ pc[x] = "reply"
    BY <1>6 DEF ReplyFails, SessionInv, RunningOK
  <2> QED
    BY <1>6, <2>1, UnregisterStep DEF ReplyFails
<1>7. CASE CloseConn(x)
  BY <1>7, CloseConnStep
<1>8. CASE Leave(x)
  BY <1>8, UnregisterStep DEF Leave
<1>9. CASE Release(x)
  BY <1>9, ReleasesOwn, ReleaseLastStep, ReleaseOneStep
<1> QED
  BY <1>1, <1>2, <1>3, <1>4, <1>5, <1>6, <1>7, <1>8, <1>9 DEF HandleClient

LEMMA SessionStep == SessionInv /\ [Next]_sessionVars => SessionInv'
<1> SUFFICES ASSUME SessionInv, [Next]_sessionVars PROVE SessionInv'
  OBVIOUS
<1>1. CASE Stop
  BY <1>1, StopStep
<1>2. CASE \E x \in Conn, h \in Hello : Accept(x, h)
  BY <1>2, AcceptStep
<1>3. CASE \E x \in Conn : HandleClient(x)
  BY <1>3, HandleClientStep
<1>4. CASE \E x \in Conn : PlayerNext(x)
  BY <1>4, PlayerStep
<1>5. CASE UNCHANGED sessionVars
  BY <1>5, StutterStep
<1> QED
  BY <1>1, <1>2, <1>3, <1>4, <1>5 DEF Next

LEMMA SessionInvariance == Spec => []SessionInv
BY SessionInit, SessionStep, PTL DEF Spec

\* The types of the sessions and players, for any number of connections, session
\* identifiers and secrets.
THEOREM SessionTypes == Spec => []TypeOK
<1>1. SessionInv => TypeOK
  BY DEF SessionInv
<1> QED
  BY <1>1, SessionInvariance, PTL

\* acquireSession and releaseSession keep one open WAL for a session, and every
\* handleClient that has acquired a session holds the one of the App's map.
THEOREM OneLogCorrect == Spec => []OneLogPerSession
<1>1. SessionInv => OneLogPerSession
  <2> SUFFICES ASSUME SessionInv PROVE OneLogPerSession
    OBVIOUS
  <2>1. ASSUME NEW g \in Handle, NEW h \in Handle, object[g].open, object[h].open,
               object[g].of.id = object[h].of.id
        PROVE  g = h
    BY <2>1 DEF SessionInv, MapOK
  <2> QED
    BY <2>1 DEF SessionInv, HolderOK, OneLogPerSession
<1> QED
  BY <1>1, SessionInvariance, PTL

\* No goroutine of a Player is left when the last releaseSession closes the WAL.
THEOREM LogOpenCorrect == Spec => []LogOpenInUse
<1>1. SessionInv => LogOpenInUse
  <2> SUFFICES ASSUME SessionInv, NEW x \in Conn, running[x] # {}
               PROVE  session[x] # NoHandle /\ object[session[x]].open
    BY DEF LogOpenInUse
  <2>1. session[x] # NoHandle /\ session[x] \in Handle /\ hello[x].id \in SessionID
    BY Fields DEF SessionInv, RunningOK, TypeOK, HelloOK
  <2>2. sessions[hello[x].id] = session[x]
    BY <2>1 DEF SessionInv, HolderOK
  <2> QED
    BY <2>1, <2>2 DEF SessionInv, MapOK
<1> QED
  BY <1>1, SessionInvariance, PTL

\* Join writes the hello before anything else, whatever is broadcast meanwhile.
THEOREM HelloFirstCorrect == Spec => []HelloFirst
<1>1. SessionInv => HelloFirst
  BY DEF SessionInv, RunningOK, HelloFirst
<1> QED
  BY <1>1, SessionInvariance, PTL

\* The count of a session is the number of its connections, a session without
\* one is closed, and its players are those between registration and departure.
THEOREM ExactCorrect == Spec => []Exact
<1>1. SessionInv => Exact
  BY DEF SessionInv, UsersCounted, Users, PlayersOK, Registered, Exact
<1> QED
  BY <1>1, SessionInvariance, PTL
=============================================================================
