------------------------- MODULE ReplicationProofs -------------------------
(***************************************************************************)
(* Proofs about Replication, for any number of clients, keys and           *)
(* connections, any capacity of the queues and any number of faults, in    *)
(* four parts: the types and the order of what is in transit on a          *)
(* connection; the logs of the clients are prefixes of the server's; no    *)
(* entry acknowledged to a game is lost; Replication implements SharedLog. *)
(***************************************************************************)
EXTENDS Replication, TLAPS

(***************************************************************************)
(* Type correctness.  A queue of a connection is read through cur[c], so   *)
(* TypeOK needs to know that a client that is not idle has a connection.   *)
(***************************************************************************)
LinkType == \A c \in Client : phase[c] = "idle" <=> cur[c] = NoConn

TypeInv == TypeOK /\ LinkType

\* What both sides append to a log of entries is an entry.
LEMMA WalAppendType ==
    ASSUME NEW log \in Seq(Entry), NEW e \in Entry
    PROVE  WalAppend(log, e) \in Seq(Entry)
BY DEF WalAppend

\* A log only grows, and keeps what it has.
LEMMA WalAppendGrows ==
    ASSUME NEW log \in Seq(Entry), NEW e \in Entry
    PROVE  /\ Len(WalAppend(log, e)) \in {Len(log), Len(log) + 1}
           /\ \A i \in 1..Len(log) : WalAppend(log, e)[i] = log[i]
           /\ Keys(log) \subseteq Keys(WalAppend(log, e))
           /\ DedupKey(e) \in Keys(WalAppend(log, e))
<1>1. CASE DedupKey(e) \in Keys(log)
  BY <1>1 DEF WalAppend
<1>2. CASE DedupKey(e) \notin Keys(log)
  <2>1. WalAppend(log, e) = Append(log, e)
    BY <1>2 DEF WalAppend
  <2>2. /\ Len(Append(log, e)) = Len(log) + 1
        /\ \A i \in 1..Len(log) : Append(log, e)[i] = log[i]
        /\ Append(log, e)[Len(log) + 1] = e
    OBVIOUS
  <2>3. Len(log) \in Nat
    OBVIOUS
  <2> QED
    BY <2>1, <2>2, <2>3 DEF Keys
<1> QED
  BY <1>1, <1>2

\* The two halves of newWalEntry keep the types of the queues.
LEMMA AddType ==
    ASSUME sendQ \in [Client -> SUBSET Entry], sqFile \in [Client -> SUBSET Entry],
           NEW c \in Client, NEW e \in Entry,
           SendQueueAdd(c, e) \/ SendQueueAddFails(c, e)
    PROVE  /\ sendQ' \in [Client -> SUBSET Entry]
           /\ sqFile' \in [Client -> SUBSET Entry]
<1>1. CASE SendQueueAdd(c, e)
  BY <1>1 DEF SendQueueAdd
<1>2. CASE SendQueueAddFails(c, e)
  BY <1>2 DEF SendQueueAddFails
<1> QED
  BY <1>1, <1>2

LEMMA TrySendType ==
    ASSUME uplinkOut \in [Client -> Seq(Entry)], NEW c \in Client, NEW e \in Entry,
           TrySendUplink(c, e)
    PROVE  uplinkOut' \in [Client -> Seq(Entry)]
<1>1. CASE UNCHANGED uplinkOut
  BY <1>1
<1>2. CASE uplinkOut' = [uplinkOut EXCEPT ![c] = Append(@, e)]
  BY <1>2
<1> QED
  BY <1>1, <1>2 DEF TrySendUplink

\* A packet or an entry at the end of one queue of a family.
LEMMA AddToQueue ==
    ASSUME NEW I, NEW S, NEW f \in [I -> Seq(S)], NEW i \in I, NEW e \in S
    PROVE  [f EXCEPT ![i] = Append(@, e)] \in [I -> Seq(S)]
OBVIOUS

\* The steps of the client side keep the types.
LEMMA ClientTypes ==
    ASSUME TypeInv, NEW c \in Client, ClientNext(c)
    PROVE  TypeInv'
<1> USE ConstantsAssumption
<1> USE DEF TypeInv, LinkType, TypeOK, Phase, ServerState
<1>1. CASE \E k \in GameKeys[c] : NewWalEntry(c, k)
  <2>1. PICK k \in GameKeys[c] : NewWalEntry(c, k)
    BY <1>1
  <2>2. k \in Key
    OBVIOUS
  <2>3. [key |-> k, player |-> c] \in Entry
    BY <2>2 DEF Entry
  <2> DEFINE e == [key |-> k, player |-> c]
  <2>0. /\ sendQ \in [Client -> SUBSET Entry]
        /\ sqFile \in [Client -> SUBSET Entry]
        /\ uplinkOut \in [Client -> Seq(Entry)]
        /\ faults \in 0..MaxFaults
    OBVIOUS
  <2>4. e \in Entry
    BY <2>3 DEF e
  <2> HIDE DEF e, TypeInv, TypeOK
  <2>5. /\ SendQueueAdd(c, e) \/ SendQueueAddFails(c, e)
        /\ TrySendUplink(c, e)
        /\ UNCHANGED faults \/ Fault
    BY <2>1 DEF NewWalEntry, e
  <2>6. /\ sendQ' \in [Client -> SUBSET Entry]
        /\ sqFile' \in [Client -> SUBSET Entry]
        /\ uplinkOut' \in [Client -> Seq(Entry)]
    BY <2>0, <2>4, <2>5, AddType, TrySendType
  <2>9. faults' \in 0..MaxFaults
    BY <2>0, <2>5 DEF Fault
  <2>7. /\ submitted' \in SUBSET Entry
        /\ submits' \in 0..MaxSubmits
        /\ unacked' \in [Client -> Key \cup {NoKey}]
    BY <2>1, <2>2, <2>4 DEF NewWalEntry, e, TypeInv, TypeOK
  <2>8. UNCHANGED <<swal, cwal, uplinkIn, pending, phase, cur, srv, c2s, s2c,
                    walIndex, ackDue, acked>>
    BY <2>1 DEF NewWalEntry, linkVars
  <2> QED
    BY <2>6, <2>7, <2>8, <2>9 DEF TypeInv, TypeOK
<1>2. CASE AckGame(c)
  BY <1>2 DEF AckGame, linkVars
<1>3. CASE TakePending(c)
  BY <1>3 DEF TakePending, linkVars, serverVars, history
<1>4. CASE SendPending(c)
  BY <1>4 DEF SendPending, linkVars, serverVars, history
<1>5. CASE \E x \in Conn : Dial(c, x)
  BY <1>5 DEF Dial, history
<1>6. CASE HelloReply(c)
  BY <1>6 DEF HelloReply, clientVars, serverVars, history
<1>7. CASE PumpOut(c)
  <2>1. cur[c] \in Conn /\ Head(uplinkOut[c]) \in Entry
    BY <1>7 DEF PumpOut
  <2>2. c2s' \in [Conn -> Seq(Entry)]
    <3>1. c2s \in [Conn -> Seq(Entry)]
      OBVIOUS
    <3>2. CASE UNCHANGED c2s
      BY <3>1, <3>2
    <3>3. CASE c2s' = [c2s EXCEPT ![cur[c]] = Append(@, Head(uplinkOut[c]))]
      BY <3>1, <3>3, <2>1, AddToQueue
    <3> QED
      BY <3>2, <3>3, <1>7 DEF PumpOut
  <2>3. uplinkOut' \in [Client -> Seq(Entry)]
    BY <1>7 DEF PumpOut
  <2> QED
    BY <2>2, <2>3, <1>7 DEF PumpOut, linkVars, serverVars, history
<1>8. CASE PumpIn(c)
  BY <1>8 DEF PumpIn, linkVars, serverVars, history
<1>9. CASE HandleServerWal(c)
  <2>1. Head(uplinkIn[c]) \in Packet
    BY <1>9 DEF HandleServerWal
  <2>2. Head(uplinkIn[c]).entry \in Entry
    BY <2>1, <1>9 DEF HandleServerWal, Packet, HelloPacket
  <2>3. cwal' \in [Client -> Seq(Entry)]
    BY <2>2, <1>9, WalAppendType DEF HandleServerWal
  <2> QED
    BY <2>2, <2>3, <1>9 DEF HandleServerWal, SendQueueAck, AckedQueue,
       linkVars, serverVars, history
<1>10. CASE HandleServerAck(c)
  BY <1>10 DEF HandleServerAck, SendQueueAck, AckedQueue, linkVars, serverVars,
     history
<1>11. CASE HandleServerWalFails(c)
  BY <1>11 DEF HandleServerWalFails, Disconnect, Fault, serverVars, history
<1>12. CASE LinkLost(c)
  BY <1>12 DEF LinkLost, Disconnect, Fault, clientVars, serverVars, history
<1>13. CASE LinkClosed(c)
  BY <1>13 DEF LinkClosed, Disconnect, clientVars, serverVars, history
<1>14. CASE Restart(c)
  BY <1>14 DEF Restart, LoseMemory, Disconnect, Fault, serverVars, history
<1>15. CASE CrashBeforeAck(c)
  <2>1. Head(uplinkIn[c]) \in Packet
    BY <1>15 DEF CrashBeforeAck
  <2>2. Head(uplinkIn[c]).entry \in Entry
    BY <2>1, <1>15 DEF CrashBeforeAck, Packet, HelloPacket
  <2>3. cwal' \in [Client -> Seq(Entry)]
    BY <2>2, <1>15, WalAppendType DEF CrashBeforeAck
  <2> QED
    BY <2>3, <1>15 DEF CrashBeforeAck, LoseMemory, Disconnect, Fault,
       serverVars, history
<1> QED
  BY <1>1, <1>2, <1>3, <1>4, <1>5, <1>6, <1>7, <1>8, <1>9, <1>10, <1>11,
     <1>12, <1>13, <1>14, <1>15 DEF ClientNext

\* The steps of the server side keep the types.
LEMMA ServerTypes ==
    ASSUME TypeInv, NEW x \in Conn, ServerNext(x)
    PROVE  TypeInv'
<1> USE ConstantsAssumption
<1> USE DEF TypeInv, LinkType, TypeOK, Phase, ServerState
<1>1. CASE Join(x)
  <2>1. HelloPacket \in Packet
    BY DEF Packet
  <2> QED
    BY <2>1, <1>1 DEF Join, Write, clientVars, linkVars, history
<1>2. CASE StreamNext(x)
  <2>1. swal[walIndex[x] + 1] \in Entry
    BY <1>2 DEF StreamNext
  <2>2. WalPacket(walIndex[x], swal[walIndex[x] + 1]) \in Packet
    BY <2>1 DEF WalPacket, Packet
  <2>3. s2c' \in [Conn -> Seq(Packet)]
    BY <2>2, <1>2 DEF StreamNext, Write
  <2> QED
    BY <2>3, <1>2 DEF StreamNext, clientVars, linkVars, history
<1>3. CASE HandleWal(x)
  <2>1. Head(c2s[x]) \in Entry
    BY <1>3 DEF HandleWal
  <2>2. DedupKey(Head(c2s[x])) \in Key
    BY <2>1 DEF DedupKey, Entry
  <2>3. WalAppend(swal, Head(c2s[x])) \in Seq(Entry)
    BY <2>1, WalAppendType
  <2> QED
    BY <2>1, <2>2, <2>3, <1>3 DEF HandleWal, clientVars, linkVars, history
<1>4. CASE SendAck(x)
  <2>1. AckPacket(ackDue[x]) \in Packet
    BY <1>4 DEF SendAck, AckPacket, Packet
  <2> QED
    BY <2>1, <1>4 DEF SendAck, Write, clientVars, linkVars, history
<1>5. CASE PlayerLost(x)
  BY <1>5 DEF PlayerLost, ServerClose, Fault, clientVars, linkVars, history
<1>6. CASE PlayerGone(x)
  BY <1>6 DEF PlayerGone, ServerClose, clientVars, linkVars, history
<1> QED
  BY <1>1, <1>2, <1>3, <1>4, <1>5, <1>6 DEF ServerNext

LEMMA TypeStep == TypeInv /\ [Next]_vars => TypeInv'
<1> SUFFICES ASSUME TypeInv, [Next]_vars PROVE TypeInv'
  OBVIOUS
<1>1. CASE \E c \in Client : ClientNext(c)
  BY <1>1, ClientTypes
<1>2. CASE \E x \in Conn : ServerNext(x)
  BY <1>2, ServerTypes
<1>3. CASE ServerRestart
  BY <1>3, ConstantsAssumption DEF ServerRestart, Fault, TypeInv, LinkType,
     TypeOK, Phase, ServerState, clientVars, linkVars, history
<1>4. CASE UNCHANGED vars
  BY <1>4 DEF vars, TypeInv, LinkType, TypeOK, Phase, ServerState
<1> QED
  BY <1>1, <1>2, <1>3, <1>4 DEF Next

\* TypeOK is an invariant of Replication: entries, packets and keys stay what
\* the channels and files of the code hold, in every reachable state.
THEOREM TypeCorrect == Spec => []TypeOK
<1>1. Init => TypeInv
  BY ConstantsAssumption
     DEF Init, TypeInv, LinkType, TypeOK, Phase, ServerState
<1>2. TypeInv => TypeOK
  BY DEF TypeInv
<1> QED
  BY <1>1, <1>2, TypeStep, PTL DEF Spec

-----------------------------------------------------------------------------
(***************************************************************************)
(* The queues between the server and a client, one lemma per way in which  *)
(* they change.                                                            *)
(***************************************************************************)

\* The first packet of uplinkIn has nothing before it that could announce it.
LEMMA PipeHead ==
    ASSUME NEW n \in Nat, NEW in \in Seq(Packet), NEW net \in Seq(Packet),
           NEW w \in Nat, NEW b \in BOOLEAN, Pipe(n, in, net, w, b),
           in # <<>>, Head(in).op = "wal"
    PROVE  Head(in).index <= n
<1>1. 1 \in 1..Len(in) /\ in[1] = Head(in)
  OBVIOUS
<1>2. ~Announced(in, 1 - 1, in[1].index)
  BY DEF Announced
<1> QED
  BY <1>1, <1>2 DEF Pipe

\* A new connection: both queues are empty and the stream starts at n.
LEMMA PipeStart ==
    ASSUME NEW n \in Nat
    PROVE  Pipe(n, <<>>, <<>>, n, TRUE)
BY DEF Pipe

\* The server stops streaming.
LEMMA PipeStop ==
    ASSUME NEW n, NEW in, NEW net, NEW w, NEW b, NEW v, Pipe(n, in, net, w, b)
    PROVE  Pipe(n, in, net, v, FALSE)
BY DEF Pipe

\* The stream writes its next entry.
LEMMA PipeStream ==
    ASSUME NEW n \in Nat, NEW in \in Seq(Packet), NEW net \in Seq(Packet),
           NEW w \in Nat, Pipe(n, in, net, w, TRUE), NEW e \in Entry
    PROVE  Pipe(n, in, Append(net, WalPacket(w, e)), w + 1, TRUE)
<1> DEFINE pkt == WalPacket(w, e)
<1> DEFINE net2 == Append(net, pkt)
<1>1. pkt \in Packet /\ pkt.op = "wal" /\ pkt.index = w
  BY DEF WalPacket, Packet
<1> HIDE DEF pkt
<1>2. /\ Len(net) \in Nat
      /\ Len(net2) = Len(net) + 1
      /\ net2[Len(net) + 1] = pkt
      /\ \A p \in 1..Len(net) : net2[p] = net[p]
  BY <1>1
<1>3. \A p \in 1..Len(net) : net[p] \in Packet
  OBVIOUS
<1> HIDE DEF net2
<1>4. ASSUME NEW p \in 1..Len(net2), net2[p].op = "wal"
      PROVE  \/ net2[p].index <= n
             \/ Announced(in, Len(in), net2[p].index)
             \/ Announced(net2, p - 1, net2[p].index)
  <2>1. CASE p = Len(net) + 1
    <3>1. w <= n \/ Announced(in, Len(in), w) \/ Announced(net, Len(net), w)
      BY DEF Pipe
    <3>2. ASSUME Announced(net, Len(net), w) PROVE Announced(net2, Len(net), w)
      BY <3>2, <1>2 DEF Announced
    <3> QED
      BY <2>1, <3>1, <3>2, <1>1, <1>2
  <2>2. CASE p \in 1..Len(net)
    <3>1. \/ net[p].index <= n
          \/ Announced(in, Len(in), net[p].index)
          \/ Announced(net, p - 1, net[p].index)
      BY <2>2, <1>2, <1>4 DEF Pipe
    <3>2. ASSUME Announced(net, p - 1, net[p].index)
          PROVE  Announced(net2, p - 1, net[p].index)
      BY <3>2, <2>2, <1>2 DEF Announced
    <3> QED
      BY <2>2, <3>1, <3>2, <1>2
  <2> QED
    BY <2>1, <2>2, <1>2
<1>5. Announced(net2, Len(net2), w + 1)
  BY <1>1, <1>2 DEF Announced
<1>6. Pipe(n, in, net2, w + 1, TRUE)
  BY <1>4, <1>5 DEF Pipe
<1> QED
  BY <1>6 DEF net2, pkt

\* The server writes a packet that is not of the stream.
LEMMA PipeWrite ==
    ASSUME NEW n \in Nat, NEW in \in Seq(Packet), NEW net \in Seq(Packet),
           NEW w \in Nat, NEW b \in BOOLEAN, Pipe(n, in, net, w, b),
           NEW pkt \in Packet, pkt.op # "wal"
    PROVE  Pipe(n, in, Append(net, pkt), w, b)
<1> DEFINE net2 == Append(net, pkt)
<1>2. /\ Len(net) \in Nat
      /\ Len(net2) = Len(net) + 1
      /\ net2[Len(net) + 1] = pkt
      /\ \A p \in 1..Len(net) : net2[p] = net[p]
  OBVIOUS
<1> HIDE DEF net2
<1>4. ASSUME NEW p \in 1..Len(net2), net2[p].op = "wal"
      PROVE  \/ net2[p].index <= n
             \/ Announced(in, Len(in), net2[p].index)
             \/ Announced(net2, p - 1, net2[p].index)
  <2>2. p \in 1..Len(net)
    BY <1>2, <1>4
  <2>3. \/ net[p].index <= n
        \/ Announced(in, Len(in), net[p].index)
        \/ Announced(net, p - 1, net[p].index)
    BY <2>2, <1>2, <1>4 DEF Pipe
  <2>4. ASSUME Announced(net, p - 1, net[p].index)
        PROVE  Announced(net2, p - 1, net[p].index)
    BY <2>4, <2>2, <1>2 DEF Announced
  <2> QED
    BY <2>2, <2>3, <2>4, <1>2
<1>5. ASSUME Announced(net, Len(net), w) PROVE Announced(net2, Len(net2), w)
  BY <1>5, <1>2 DEF Announced
<1>6. Pipe(n, in, net2, w, b)
  BY <1>4, <1>5 DEF Pipe
<1> QED
  BY <1>6 DEF net2

\* The client takes a packet that is not of the stream from the connection:
\* the server's hello.
LEMMA PipeSkip ==
    ASSUME NEW n \in Nat, NEW in \in Seq(Packet), NEW net \in Seq(Packet),
           NEW w \in Nat, NEW b \in BOOLEAN, Pipe(n, in, net, w, b),
           net # <<>>, Head(net).op # "wal"
    PROVE  Pipe(n, in, Tail(net), w, b)
<1> DEFINE net2 == Tail(net)
<1>2. /\ Len(net) \in Nat \ {0}
      /\ Len(net2) = Len(net) - 1
      /\ net[1] = Head(net)
      /\ \A p \in 1..Len(net2) : p + 1 \in 1..Len(net) /\ net2[p] = net[p + 1]
  OBVIOUS
<1> HIDE DEF net2
<1>3. ASSUME NEW m \in 1..Len(net), NEW i, Announced(net, m, i)
      PROVE  Announced(net2, m - 1, i)
  <2>1. PICK r \in 1..m : net[r].op = "wal" /\ net[r].index + 1 = i
    BY <1>3 DEF Announced
  <2>2. r # 1
    BY <2>1, <1>2
  <2>3. r - 1 \in 1..(m - 1) /\ r - 1 \in 1..Len(net2) /\ net2[r - 1] = net[r]
    BY <2>2, <1>2
  <2> QED
    BY <2>1, <2>3 DEF Announced
<1>4. ASSUME NEW p \in 1..Len(net2), net2[p].op = "wal"
      PROVE  \/ net2[p].index <= n
             \/ Announced(in, Len(in), net2[p].index)
             \/ Announced(net2, p - 1, net2[p].index)
  <2>1. p + 1 \in 1..Len(net) /\ net2[p] = net[p + 1]
    BY <1>2
  <2>2. \/ net[p + 1].index <= n
        \/ Announced(in, Len(in), net[p + 1].index)
        \/ Announced(net, p, net[p + 1].index)
    BY <2>1, <1>4 DEF Pipe
  <2>3. p \in 1..Len(net)
    BY <1>2
  <2> QED
    BY <2>1, <2>2, <2>3, <1>3
<1>5. ASSUME Announced(net, Len(net), w) PROVE Announced(net2, Len(net2), w)
  BY <1>5, <1>2, <1>3
<1>6. Pipe(n, in, net2, w, b)
  BY <1>4, <1>5 DEF Pipe
<1> QED
  BY <1>6 DEF net2
\* pumpIn moves the first packet of the connection to uplinkIn.
LEMMA PipePump ==
    ASSUME NEW n \in Nat, NEW in \in Seq(Packet), NEW net \in Seq(Packet),
           NEW w \in Nat, NEW b \in BOOLEAN, Pipe(n, in, net, w, b),
           net # <<>>
    PROVE  Pipe(n, Append(in, Head(net)), Tail(net), w, b)
<1> DEFINE hd == Head(net)
<1> DEFINE in2 == Append(in, hd)
<1> DEFINE net2 == Tail(net)
<1>1. /\ Len(net) \in Nat \ {0}
      /\ Len(net2) = Len(net) - 1
      /\ net[1] = hd
      /\ \A p \in 1..Len(net2) : p + 1 \in 1..Len(net) /\ net2[p] = net[p + 1]
  OBVIOUS
<1>2. /\ Len(in) \in Nat
      /\ Len(in2) = Len(in) + 1
      /\ in2[Len(in) + 1] = hd
      /\ \A p \in 1..Len(in) : in2[p] = in[p]
  OBVIOUS
<1> HIDE DEF hd, in2, net2
<1>3. ASSUME NEW m \in 0..Len(in), NEW i, Announced(in, m, i)
      PROVE  Announced(in2, m, i) /\ Announced(in2, Len(in2), i)
  BY <1>2, <1>3 DEF Announced
<1>4. ASSUME NEW m \in 1..Len(net), NEW i, Announced(net, m, i)
      PROVE  Announced(net2, m - 1, i) \/ Announced(in2, Len(in2), i)
  <2>1. PICK r \in 1..m : net[r].op = "wal" /\ net[r].index + 1 = i
    BY <1>4 DEF Announced
  <2>2. CASE r = 1
    BY <2>1, <2>2, <1>1, <1>2 DEF Announced
  <2>3. CASE r # 1
    <3>1. r - 1 \in 1..(m - 1) /\ net2[r - 1] = net[r]
      BY <2>3, <1>1
    <3> QED
      BY <2>1, <3>1 DEF Announced
  <2> QED
    BY <2>2, <2>3
<1>5. ASSUME NEW p \in 1..Len(in2), in2[p].op = "wal"
      PROVE  in2[p].index <= n \/ Announced(in2, p - 1, in2[p].index)
  <2>1. CASE p \in 1..Len(in)
    <3>1. in[p].index <= n \/ Announced(in, p - 1, in[p].index)
      BY <2>1, <1>2, <1>5 DEF Pipe
    <3> QED
      BY <2>1, <3>1, <1>2, <1>3
  <2>2. CASE p = Len(in) + 1
    <3>1. 1 \in 1..Len(net) /\ net[1].op = "wal" /\ in2[p] = net[1]
      BY <2>2, <1>1, <1>2, <1>5
    <3>2. ~Announced(net, 1 - 1, net[1].index)
      BY DEF Announced
    <3>3. net[1].index <= n \/ Announced(in, Len(in), net[1].index)
      BY <3>1, <3>2 DEF Pipe
    <3>4. ASSUME Announced(in, Len(in), net[1].index)
          PROVE  Announced(in2, Len(in), net[1].index)
      BY <3>4, <1>2, <1>3
    <3> QED
      BY <2>2, <3>1, <3>3, <3>4, <1>2
  <2> QED
    BY <2>1, <2>2, <1>2
<1>6. ASSUME NEW p \in 1..Len(net2), net2[p].op = "wal"
      PROVE  \/ net2[p].index <= n
             \/ Announced(in2, Len(in2), net2[p].index)
             \/ Announced(net2, p - 1, net2[p].index)
  <2>1. p + 1 \in 1..Len(net) /\ net2[p] = net[p + 1] /\ p \in 1..Len(net)
    BY <1>1
  <2>2. \/ net[p + 1].index <= n
        \/ Announced(in, Len(in), net[p + 1].index)
        \/ Announced(net, p, net[p + 1].index)
    BY <2>1, <1>6 DEF Pipe
  <2>3. Len(in) \in 0..Len(in)
    BY <1>2
  <2> QED
    BY <2>1, <2>2, <2>3, <1>3, <1>4
<1>7. ASSUME b
      PROVE  \/ w <= n
             \/ Announced(in2, Len(in2), w)
             \/ Announced(net2, Len(net2), w)
  <2>1. w <= n \/ Announced(in, Len(in), w) \/ Announced(net, Len(net), w)
    BY <1>7 DEF Pipe
  <2>2. Len(in) \in 0..Len(in) /\ Len(net) \in 1..Len(net)
    BY <1>1, <1>2
  <2> QED
    BY <2>1, <2>2, <1>1, <1>3, <1>4
<1>8. Pipe(n, in2, net2, w, b)
  BY <1>5, <1>6, <1>7 DEF Pipe
<1> QED
  BY <1>8 DEF in2, net2, hd

\* handlePackets consumes the first packet of uplinkIn, and the client has its
\* successors' predecessor afterwards: m is the new length of its WAL.
LEMMA PipeConsume ==
    ASSUME NEW n \in Nat, NEW in \in Seq(Packet), NEW net \in Seq(Packet),
           NEW w \in Nat, NEW b \in BOOLEAN, Pipe(n, in, net, w, b),
           in # <<>>, NEW m \in Nat, n <= m,
           Head(in).op = "wal" => Head(in).index < m
    PROVE  Pipe(m, Tail(in), net, w, b)
<1> DEFINE in2 == Tail(in)
<1>1. /\ Len(in) \in Nat \ {0}
      /\ Len(in2) = Len(in) - 1
      /\ in[1] = Head(in)
      /\ \A p \in 1..Len(in2) : p + 1 \in 1..Len(in) /\ in2[p] = in[p + 1]
  OBVIOUS
<1>2. \A p \in 1..Len(in) : in[p].op = "wal" => in[p].index \in Nat
  BY DEF Packet, HelloPacket
<1>3. \A p \in 1..Len(net) : net[p].op = "wal" => net[p].index \in Nat
  BY DEF Packet, HelloPacket
<1> HIDE DEF in2
<1>4. ASSUME NEW k \in 1..Len(in), NEW i \in Nat, Announced(in, k, i)
      PROVE  i <= m \/ Announced(in2, k - 1, i)
  <2>1. PICK r \in 1..k : in[r].op = "wal" /\ in[r].index + 1 = i
    BY <1>4 DEF Announced
  <2>2. CASE r = 1
    BY <2>1, <2>2, <1>1, <1>2
  <2>3. CASE r # 1
    <3>1. r - 1 \in 1..(k - 1) /\ in2[r - 1] = in[r]
      BY <2>3, <1>1
    <3> QED
      BY <2>1, <3>1 DEF Announced
  <2> QED
    BY <2>2, <2>3
<1>5. ASSUME NEW p \in 1..Len(in2), in2[p].op = "wal"
      PROVE  in2[p].index <= m \/ Announced(in2, p - 1, in2[p].index)
  <2>1. p + 1 \in 1..Len(in) /\ in2[p] = in[p + 1] /\ p \in 1..Len(in)
    BY <1>1
  <2>2. in[p + 1].index \in Nat
    BY <2>1, <1>2, <1>5
  <2>3. in[p + 1].index <= n \/ Announced(in, p, in[p + 1].index)
    BY <2>1, <1>5 DEF Pipe
  <2> QED
    BY <2>1, <2>2, <2>3, <1>4
<1>6. ASSUME NEW p \in 1..Len(net), net[p].op = "wal"
      PROVE  \/ net[p].index <= m
             \/ Announced(in2, Len(in2), net[p].index)
             \/ Announced(net, p - 1, net[p].index)
  <2>1. net[p].index \in Nat /\ Len(in) \in 1..Len(in)
    BY <1>1, <1>3, <1>6
  <2>2. \/ net[p].index <= n
        \/ Announced(in, Len(in), net[p].index)
        \/ Announced(net, p - 1, net[p].index)
    BY <1>6 DEF Pipe
  <2> QED
    BY <2>1, <2>2, <1>1, <1>4
<1>7. ASSUME b
      PROVE  \/ w <= m
             \/ Announced(in2, Len(in2), w)
             \/ Announced(net, Len(net), w)
  <2>1. w <= n \/ Announced(in, Len(in), w) \/ Announced(net, Len(net), w)
    BY <1>7 DEF Pipe
  <2>2. Len(in) \in 1..Len(in)
    BY <1>1
  <2> QED
    BY <2>1, <2>2, <1>1, <1>4
<1>8. Pipe(m, in2, net, w, b)
  BY <1>5, <1>6, <1>7 DEF Pipe
<1> QED
  BY <1>8 DEF in2
-----------------------------------------------------------------------------
(***************************************************************************)
(* Who uses which connection.                                              *)
(***************************************************************************)

\* The end of a connection, on the client's side.
LEMMA DisconnectLinks ==
    ASSUME TypeInv, LinkOK, NEW c \in Client, Disconnect(c)
    PROVE  LinkOK'
<1> USE DEF TypeInv, TypeOK, LinkType
<1>1. /\ \A d \in Client \ {c} : phase'[d] = phase[d] /\ cur'[d] = cur[d]
      /\ phase'[c] = "idle" /\ cur'[c] = NoConn
  BY DEF Disconnect, Phase
<1>2. \A d \in Client : phase'[d] = "idle" <=> cur'[d] = NoConn
  BY <1>1
<1>3. \A d, f \in Client : cur'[d] = cur'[f] /\ cur'[d] # NoConn => d = f
  BY <1>1 DEF LinkOK
<1>4. ASSUME NEW x \in Conn, \A d \in Client : cur'[d] # x
      PROVE  s2c'[x] = <<>>
  <2>1. CASE x = cur[c]
    BY <2>1 DEF Disconnect
  <2>2. CASE x # cur[c]
    BY <2>2, <1>1, <1>4 DEF Disconnect, LinkOK
  <2> QED
    BY <2>1, <2>2
<1> QED
  BY <1>2, <1>3, <1>4 DEF LinkOK

\* A packet goes only to a connection that a client reads.
LEMMA WriteLinks ==
    ASSUME TypeInv, LinkOK, NEW x \in Conn, NEW pkt, Write(x, pkt),
           UNCHANGED <<phase, cur>>
    PROVE  LinkOK'
<1>1. ASSUME NEW y \in Conn, \A d \in Client : cur[d] # y
      PROVE  s2c'[y] = <<>>
  <2>1. s2c[y] = <<>>
    BY <1>1 DEF LinkOK
  <2>2. CASE \E d \in Client : cur[d] = x
    <3>1. y # x
      BY <2>2, <1>1
    <3> QED
      BY <2>1, <2>2, <3>1 DEF Write, TypeInv, TypeOK
  <2>3. CASE ~\E d \in Client : cur[d] = x
    BY <2>1, <2>3 DEF Write
  <2> QED
    BY <2>2, <2>3
<1> QED
  BY <1>1 DEF LinkOK

LEMMA LinkStep == TypeInv /\ LinkOK /\ [Next]_vars => LinkOK'
<1> SUFFICES ASSUME TypeInv, LinkOK, [Next]_vars PROVE LinkOK'
  OBVIOUS
<1>1. CASE UNCHANGED <<phase, cur, s2c>>
  BY <1>1 DEF LinkOK
<1>2. ASSUME NEW c \in Client, ClientNext(c) PROVE LinkOK'
  <2>1. CASE \E x \in Conn : Dial(c, x)
    <3>1. PICK x \in Conn : Dial(c, x)
      BY <2>1
    <3>2. /\ \A d \in Client \ {c} : phase'[d] = phase[d] /\ cur'[d] = cur[d]
          /\ phase'[c] = "hello" /\ cur'[c] = x
          /\ s2c' = s2c
          /\ \A d \in Client : cur[d] # x
          /\ cur[c] = NoConn /\ x # NoConn
      BY <3>1, ConstantsAssumption DEF Dial, TypeInv, TypeOK, LinkType
    <3>3. \A d \in Client : phase'[d] = "idle" <=> cur'[d] = NoConn
      BY <3>2 DEF LinkOK
    <3>4. \A d, f \in Client : cur'[d] = cur'[f] /\ cur'[d] # NoConn => d = f
      BY <3>2 DEF LinkOK
    <3>5. ASSUME NEW y \in Conn, \A d \in Client : cur'[d] # y
          PROVE  s2c'[y] = <<>>
      <4>1. y # NoConn
        BY ConstantsAssumption
      <4>2. \A d \in Client : cur[d] # y
        BY <3>2, <3>5, <4>1
      <4> QED
        BY <3>2, <4>2 DEF LinkOK
    <3> QED
      BY <3>3, <3>4, <3>5 DEF LinkOK
  <2>2. CASE HelloReply(c)
    <3>1. /\ phase[c] = "hello" /\ phase'[c] = "up" /\ cur' = cur
          /\ \A d \in Client \ {c} : phase'[d] = phase[d]
          /\ \A y \in Conn : y # cur[c] => s2c'[y] = s2c[y]
      BY <2>2 DEF HelloReply, TypeInv, TypeOK
    <3> QED
      BY <3>1 DEF LinkOK
  <2>3. CASE PumpIn(c)
    <3>1. /\ phase' = phase /\ cur' = cur
          /\ \A y \in Conn : y # cur[c] => s2c'[y] = s2c[y]
      BY <2>3 DEF PumpIn, linkVars, TypeInv, TypeOK
    <3> QED
      BY <3>1 DEF LinkOK
  <2>4. CASE Disconnect(c)
    BY <2>4, DisconnectLinks
  <2> QED
    BY <1>1, <1>2, <2>1, <2>2, <2>3, <2>4 DEF ClientNext, NewWalEntry, AckGame,
       TakePending, SendPending, PumpOut, HandleServerWal, HandleServerAck,
       HandleServerWalFails, LinkLost, LinkClosed, Restart, LoseMemory,
       CrashBeforeAck, linkVars
<1>3. ASSUME NEW x \in Conn, ServerNext(x) PROVE LinkOK'
  <2>1. CASE Join(x) \/ StreamNext(x) \/ SendAck(x)
    BY <2>1, WriteLinks DEF Join, StreamNext, SendAck, linkVars
  <2> QED
    BY <1>1, <1>3, <2>1 DEF ServerNext, HandleWal, PlayerLost, PlayerGone, linkVars
<1>4. CASE ServerRestart
  BY <1>1, <1>4 DEF ServerRestart, linkVars
<1>5. CASE UNCHANGED vars
  BY <1>1, <1>5 DEF vars
<1> QED
  BY <1>2, <1>3, <1>4, <1>5 DEF Next

-----------------------------------------------------------------------------
(***************************************************************************)
(* Second part: the WAL of every client is a prefix of the server's.       *)
(***************************************************************************)

(***************************************************************************)
(* What is on its way to a client has been committed.                      *)
(***************************************************************************)
AllTold(log, q) == \A p \in 1..Len(q) : Told(log, q[p])

Committed(log, due, net, in) ==
    /\ \A x \in Conn : due[x] \in Keys(log) \cup {NoKey}
    /\ \A x \in Conn : AllTold(log, net[x])
    /\ \A c \in Client : AllTold(log, in[c])

CommitInv == UniqueKeys /\ PacketsTellCommitted

LEMMA CommittedForm ==
    PacketsTellCommitted <=> Committed(swal, ackDue, s2c, uplinkIn)
BY DEF PacketsTellCommitted, Committed, AllTold

LEMMA CommittedForm2 ==
    PacketsTellCommitted' <=> Committed(swal', ackDue', s2c', uplinkIn')
BY DEF PacketsTellCommitted, Committed, AllTold

\* A log that grows makes no packet false.
LEMMA ToldGrows ==
    ASSUME NEW log \in Seq(Entry), NEW e \in Entry, NEW pkt \in Packet,
           Told(log, pkt)
    PROVE  Told(WalAppend(log, e), pkt)
<1> DEFINE log2 == WalAppend(log, e)
<1>1. /\ Len(log2) \in {Len(log), Len(log) + 1}
      /\ \A i \in 1..Len(log) : log2[i] = log[i]
      /\ Keys(log) \subseteq Keys(log2)
  BY WalAppendGrows
<1>2. pkt.op = "wal" => pkt.index \in Nat
  BY DEF Packet, HelloPacket
<1> HIDE DEF log2
<1>3. Len(log) \in Nat
  OBVIOUS
<1>4. Told(log2, pkt)
  BY <1>1, <1>2, <1>3 DEF Told
<1> QED
  BY <1>4 DEF log2

LEMMA AllToldGrows ==
    ASSUME NEW log \in Seq(Entry), NEW e \in Entry, NEW q \in Seq(Packet),
           AllTold(log, q)
    PROVE  AllTold(WalAppend(log, e), q)
<1>1. \A p \in 1..Len(q) : q[p] \in Packet
  OBVIOUS
<1> QED
  BY <1>1, ToldGrows DEF AllTold

LEMMA AllToldTail ==
    ASSUME NEW log, NEW q \in Seq(Packet), q # <<>>, AllTold(log, q)
    PROVE  AllTold(log, Tail(q)) /\ Told(log, Head(q))
<1>1. /\ 1 \in 1..Len(q) /\ q[1] = Head(q)
      /\ \A p \in 1..Len(Tail(q)) : p + 1 \in 1..Len(q) /\ Tail(q)[p] = q[p + 1]
  OBVIOUS
<1> QED
  BY <1>1 DEF AllTold

LEMMA AllToldAppend ==
    ASSUME NEW log, NEW q \in Seq(Packet), NEW pkt \in Packet, AllTold(log, q),
           Told(log, pkt)
    PROVE  AllTold(log, Append(q, pkt))
<1>1. /\ Len(Append(q, pkt)) = Len(q) + 1 /\ Len(q) \in Nat
      /\ Append(q, pkt)[Len(q) + 1] = pkt
      /\ \A p \in 1..Len(q) : Append(q, pkt)[p] = q[p]
  OBVIOUS
<1> QED
  BY <1>1 DEF AllTold

LEMMA AllToldEmpty == ASSUME NEW log PROVE AllTold(log, <<>>)
BY DEF AllTold

\* Packets are consumed or lost, acks sent or forgotten: nothing new is told.
LEMMA CommitLess ==
    ASSUME NEW log, NEW due, NEW due2,
           NEW net \in [Conn -> Seq(Packet)], NEW net2,
           NEW in \in [Client -> Seq(Packet)], NEW in2,
           Committed(log, due, net, in),
           \A x \in Conn : due2[x] \in {due[x], NoKey},
           \A x \in Conn : \/ net2[x] \in {net[x], <<>>}
                           \/ net[x] # <<>> /\ net2[x] = Tail(net[x]),
           \A c \in Client : \/ in2[c] \in {in[c], <<>>}
                             \/ in[c] # <<>> /\ in2[c] = Tail(in[c])
    PROVE  Committed(log, due2, net2, in2)
<1>1. ASSUME NEW x \in Conn PROVE AllTold(log, net2[x])
  <2>1. AllTold(log, net[x]) /\ net[x] \in Seq(Packet)
    BY DEF Committed
  <2> QED
    BY <2>1, AllToldTail, AllToldEmpty
<1>2. ASSUME NEW c \in Client PROVE AllTold(log, in2[c])
  <2>1. AllTold(log, in[c]) /\ in[c] \in Seq(Packet)
    BY DEF Committed
  <2> QED
    BY <2>1, AllToldTail, AllToldEmpty
<1>3. ASSUME NEW x \in Conn PROVE due2[x] \in Keys(log) \cup {NoKey}
  BY DEF Committed
<1> QED
  BY <1>1, <1>2, <1>3 DEF Committed

\* pumpIn.
LEMMA CommitPump ==
    ASSUME NEW log, NEW due, NEW net \in [Conn -> Seq(Packet)],
           NEW in \in [Client -> Seq(Packet)], Committed(log, due, net, in),
           NEW x \in Conn, NEW c \in Client, net[x] # <<>>
    PROVE  Committed(log, due, [net EXCEPT ![x] = Tail(@)],
                               [in EXCEPT ![c] = Append(@, Head(net[x]))])
<1>1. /\ AllTold(log, net[x]) /\ net[x] \in Seq(Packet)
      /\ AllTold(log, in[c]) /\ in[c] \in Seq(Packet)
      /\ Head(net[x]) \in Packet
  BY DEF Committed
<1>2. AllTold(log, Tail(net[x])) /\ Told(log, Head(net[x]))
  BY <1>1, AllToldTail
<1>3. AllTold(log, Append(in[c], Head(net[x])))
  BY <1>1, <1>2, AllToldAppend
<1> QED
  BY <1>2, <1>3 DEF Committed

\* The server writes a packet that is true.
LEMMA CommitWrite ==
    ASSUME NEW log, NEW due, NEW net \in [Conn -> Seq(Packet)],
           NEW in \in [Client -> Seq(Packet)], Committed(log, due, net, in),
           NEW x \in Conn, NEW pkt \in Packet, Told(log, pkt)
    PROVE  Committed(log, due, [net EXCEPT ![x] = Append(@, pkt)], in)
<1>1. AllTold(log, net[x]) /\ net[x] \in Seq(Packet)
  BY DEF Committed
<1>2. AllTold(log, Append(net[x], pkt))
  BY <1>1, AllToldAppend
<1> QED
  BY <1>2 DEF Committed

\* WAL.Append keeps the keys of the log distinct.
LEMMA AppendUnique ==
    ASSUME NEW log \in Seq(Entry), NEW e \in Entry,
           \A i, j \in 1..Len(log) : DedupKey(log[i]) = DedupKey(log[j]) => i = j
    PROVE  \A i, j \in 1..Len(WalAppend(log, e)) :
              DedupKey(WalAppend(log, e)[i]) = DedupKey(WalAppend(log, e)[j]) => i = j
<1>1. CASE DedupKey(e) \in Keys(log)
  BY <1>1 DEF WalAppend
<1>2. CASE DedupKey(e) \notin Keys(log)
  <2> DEFINE log2 == Append(log, e)
  <2>1. WalAppend(log, e) = log2
    BY <1>2 DEF WalAppend
  <2>2. /\ Len(log2) = Len(log) + 1 /\ Len(log) \in Nat
        /\ log2[Len(log) + 1] = e
        /\ \A i \in 1..Len(log) : log2[i] = log[i]
    OBVIOUS
  <2> HIDE DEF log2
  <2>3. \A i \in 1..Len(log) : DedupKey(log[i]) # DedupKey(e)
    BY <1>2 DEF Keys
  <2>4. ASSUME NEW i \in 1..Len(log2), NEW j \in 1..Len(log2),
               DedupKey(log2[i]) = DedupKey(log2[j])
        PROVE  i = j
    <3>1. CASE i \in 1..Len(log) /\ j \in 1..Len(log)
      BY <3>1, <2>2, <2>4
    <3>2. CASE i = Len(log) + 1 /\ j \in 1..Len(log)
      BY <3>2, <2>2, <2>3, <2>4
    <3>3. CASE j = Len(log) + 1 /\ i \in 1..Len(log)
      BY <3>3, <2>2, <2>3, <2>4
    <3> QED
      BY <3>1, <3>2, <3>3, <2>2
  <2> QED
    BY <2>1, <2>4
<1> QED
  BY <1>1, <1>2

\* A packet a server goroutine writes is in the connection, or lost.
LEMMA WriteCommits ==
    ASSUME TypeInv, PacketsTellCommitted, NEW x \in Conn, NEW pkt \in Packet,
           Told(swal, pkt), Write(x, pkt), NEW due,
           \A y \in Conn : due[y] \in {ackDue[y], NoKey}
    PROVE  Committed(swal, due, s2c', uplinkIn)
<1>1. /\ Committed(swal, ackDue, s2c, uplinkIn)
      /\ s2c \in [Conn -> Seq(Packet)]
      /\ uplinkIn \in [Client -> Seq(Packet)]
  BY CommittedForm DEF TypeInv, TypeOK
<1>2. Committed(swal, ackDue, s2c', uplinkIn)
  <2>1. CASE s2c' = s2c
    BY <2>1, <1>1
  <2>2. CASE s2c' = [s2c EXCEPT ![x] = Append(@, pkt)]
    BY <2>2, <1>1, CommitWrite
  <2> QED
    BY <2>1, <2>2 DEF Write
<1>3. \A y \in Conn : due[y] \in Keys(swal) \cup {NoKey}
  BY <1>2 DEF Committed
<1> QED
  BY <1>2, <1>3 DEF Committed

\* UniqueKeys and PacketsTellCommitted are inductive together with the types.
LEMMA CommitStep == TypeInv /\ CommitInv /\ [Next]_vars => CommitInv'
<1> SUFFICES ASSUME TypeInv, CommitInv, [Next]_vars PROVE CommitInv'
  OBVIOUS
<1>0. /\ Committed(swal, ackDue, s2c, uplinkIn)
      /\ s2c \in [Conn -> Seq(Packet)]
      /\ uplinkIn \in [Client -> Seq(Packet)]
      /\ cur \in [Client -> Conn \cup {NoConn}]
      /\ ackDue \in [Conn -> Key \cup {NoKey}]
      /\ swal \in Seq(Entry)
      /\ UniqueKeys /\ PacketsTellCommitted
  BY CommittedForm DEF TypeInv, TypeOK, CommitInv
<1>1. ASSUME swal' = swal, Committed(swal, ackDue', s2c', uplinkIn')
      PROVE  CommitInv'
  BY <1>0, <1>1, CommittedForm2 DEF CommitInv, UniqueKeys
<1>2. ASSUME swal' = swal,
             \A x \in Conn : ackDue'[x] \in {ackDue[x], NoKey},
             \A x \in Conn : \/ s2c'[x] \in {s2c[x], <<>>}
                             \/ s2c[x] # <<>> /\ s2c'[x] = Tail(s2c[x]),
             \A c \in Client : \/ uplinkIn'[c] \in {uplinkIn[c], <<>>}
                               \/ uplinkIn[c] # <<>> /\ uplinkIn'[c] = Tail(uplinkIn[c])
      PROVE  CommitInv'
  BY <1>0, <1>1, <1>2, CommitLess
<1>3. CASE UNCHANGED <<swal, ackDue, s2c, uplinkIn>>
  BY <1>2, <1>3
<1>4. ASSUME NEW c \in Client, ClientNext(c) PROVE CommitInv'
  <2>0. UNCHANGED <<swal, ackDue>>
    BY <1>4 DEF ClientNext, NewWalEntry, AckGame, TakePending, SendPending, Dial,
       HelloReply, PumpOut, PumpIn, HandleServerWal, HandleServerAck,
       HandleServerWalFails, LinkLost, LinkClosed, Restart, LoseMemory,
       CrashBeforeAck, serverVars
  <2>1. CASE \E x \in Conn : Dial(c, x)
    <3>1. /\ s2c' = s2c
          /\ uplinkIn' = [uplinkIn EXCEPT ![c] = <<>>]
      BY <2>1 DEF Dial
    <3> QED
      BY <3>1, <2>0, <1>0, <1>2
  <2>2. CASE HelloReply(c)
    <3>1. /\ s2c[cur[c]] # <<>>
          /\ s2c' = [s2c EXCEPT ![cur[c]] = Tail(@)]
          /\ uplinkIn' = uplinkIn
      BY <2>2 DEF HelloReply, clientVars
    <3> QED
      BY <3>1, <2>0, <1>0, <1>2
  <2>3. CASE PumpIn(c)
    <3>1. /\ cur[c] \in Conn
          /\ s2c[cur[c]] # <<>>
          /\ s2c' = [s2c EXCEPT ![cur[c]] = Tail(@)]
          /\ uplinkIn' = [uplinkIn EXCEPT ![c] = Append(@, Head(s2c[cur[c]]))]
      BY <2>3 DEF PumpIn, TypeInv, TypeOK, LinkType
    <3>2. Committed(swal, ackDue, s2c', uplinkIn')
      BY <3>1, <1>0, CommitPump
    <3> QED
      BY <3>2, <2>0, <1>1
  <2>4. CASE HandleServerWal(c) \/ HandleServerAck(c)
    <3>1. /\ uplinkIn[c] # <<>>
          /\ uplinkIn' = [uplinkIn EXCEPT ![c] = Tail(@)]
          /\ s2c' = s2c
      BY <2>4 DEF HandleServerWal, HandleServerAck
    <3> QED
      BY <3>1, <2>0, <1>0, <1>2
  <2>5. CASE /\ Disconnect(c)
             /\ \/ uplinkIn' = uplinkIn
                \/ uplinkIn' = [uplinkIn EXCEPT ![c] = <<>>]
                \/ /\ uplinkIn[c] # <<>>
                   /\ uplinkIn' = [uplinkIn EXCEPT ![c] = Tail(@)]
    <3>1. \A x \in Conn : s2c'[x] \in {s2c[x], <<>>}
      BY <2>5 DEF Disconnect
    <3>2. \A d \in Client : \/ uplinkIn'[d] \in {uplinkIn[d], <<>>}
                            \/ uplinkIn[d] # <<>> /\ uplinkIn'[d] = Tail(uplinkIn[d])
      BY <2>5, <1>0
    <3> QED
      BY <3>1, <3>2, <2>0, <1>2
  <2>6. CASE HandleServerWalFails(c)
    BY <2>6, <2>5 DEF HandleServerWalFails
  <2>7. CASE LinkLost(c) \/ LinkClosed(c)
    BY <2>7, <2>5 DEF LinkLost, LinkClosed, clientVars
  <2>8. CASE Restart(c) \/ CrashBeforeAck(c)
    BY <2>8, <2>5 DEF Restart, CrashBeforeAck, LoseMemory
  <2>9. CASE (\E k \in GameKeys[c] : NewWalEntry(c, k)) \/ AckGame(c) \/ TakePending(c)
             \/ SendPending(c) \/ PumpOut(c)
    BY <2>9, <2>0, <1>3 DEF NewWalEntry, AckGame, TakePending, SendPending, PumpOut
  <2> QED
    BY <1>4, <2>1, <2>2, <2>3, <2>4, <2>6, <2>7, <2>8, <2>9 DEF ClientNext
<1>5. ASSUME NEW x \in Conn, ServerNext(x) PROVE CommitInv'
  <2>1. CASE Join(x)
    <3>1. /\ Write(x, HelloPacket)
          /\ UNCHANGED <<swal, ackDue, uplinkIn>>
      BY <2>1 DEF Join, clientVars
    <3>2. HelloPacket \in Packet /\ Told(swal, HelloPacket)
      BY DEF HelloPacket, Packet, Told
    <3>3. Committed(swal, ackDue, s2c', uplinkIn)
      BY <3>1, <3>2, <1>0, WriteCommits
    <3> QED
      BY <3>1, <3>3, <1>1
  <2>2. CASE StreamNext(x)
    <3> DEFINE pkt == WalPacket(walIndex[x], swal[walIndex[x] + 1])
    <3>1. /\ Write(x, pkt)
          /\ UNCHANGED <<swal, ackDue, uplinkIn>>
      BY <2>2 DEF StreamNext, clientVars
    <3>2. /\ walIndex[x] \in Nat /\ walIndex[x] < Len(swal)
          /\ swal[walIndex[x] + 1] \in Entry
      BY <2>2 DEF StreamNext, TypeInv, TypeOK
    <3>3. pkt \in Packet /\ Told(swal, pkt)
      BY <3>2 DEF WalPacket, Packet, Told
    <3> HIDE DEF pkt
    <3>4. Committed(swal, ackDue, s2c', uplinkIn)
      BY <3>1, <3>3, <1>0, WriteCommits
    <3> QED
      BY <3>1, <3>4, <1>1
  <2>3. CASE HandleWal(x)
    <3> DEFINE e == Head(c2s[x])
    <3>1. /\ swal' = WalAppend(swal, e)
          /\ ackDue' = [ackDue EXCEPT ![x] = DedupKey(e)]
          /\ UNCHANGED <<s2c, uplinkIn>>
          /\ e \in Entry
      BY <2>3 DEF HandleWal, clientVars, TypeInv, TypeOK
    <3> HIDE DEF e
    <3>2. UniqueKeys'
      BY <3>1, <1>0, AppendUnique DEF UniqueKeys
    <3>3. /\ Keys(swal) \subseteq Keys(swal')
          /\ DedupKey(e) \in Keys(swal')
      BY <3>1, <1>0, WalAppendGrows
    <3>4. \A y \in Conn : ackDue'[y] \in Keys(swal') \cup {NoKey}
      BY <3>1, <3>3, <1>0 DEF Committed
    <3>5. \A y \in Conn : AllTold(swal', s2c'[y])
      BY <3>1, <1>0, AllToldGrows DEF Committed
    <3>6. \A c \in Client : AllTold(swal', uplinkIn'[c])
      BY <3>1, <1>0, AllToldGrows DEF Committed
    <3> QED
      BY <3>2, <3>4, <3>5, <3>6, CommittedForm2 DEF CommitInv, Committed
  <2>4. CASE SendAck(x)
    <3> DEFINE pkt == AckPacket(ackDue[x])
    <3>1. /\ Write(x, pkt)
          /\ ackDue[x] # NoKey
          /\ ackDue' = [ackDue EXCEPT ![x] = NoKey]
          /\ UNCHANGED <<swal, uplinkIn>>
      BY <2>4 DEF SendAck, clientVars
    <3>2. ackDue[x] \in Key /\ ackDue[x] \in Keys(swal)
      BY <3>1, <1>0 DEF Committed
    <3>3. pkt \in Packet /\ Told(swal, pkt)
      BY <3>2 DEF AckPacket, Packet, Told
    <3> HIDE DEF pkt
    <3>4. \A y \in Conn : ackDue'[y] \in {ackDue[y], NoKey}
      BY <3>1, <1>0
    <3>5. Committed(swal, ackDue', s2c', uplinkIn)
      BY <3>1, <3>3, <3>4, <1>0, WriteCommits
    <3> QED
      BY <3>1, <3>5, <1>1
  <2>5. CASE PlayerLost(x) \/ PlayerGone(x)
    <3>1. /\ UNCHANGED <<swal, s2c, uplinkIn>>
          /\ ackDue' = [ackDue EXCEPT ![x] = NoKey]
      BY <2>5 DEF PlayerLost, PlayerGone, ServerClose, clientVars
    <3> QED
      BY <3>1, <1>0, <1>2
  <2> QED
    BY <1>5, <2>1, <2>2, <2>3, <2>4, <2>5 DEF ServerNext
<1>6. CASE ServerRestart
  <2>1. /\ UNCHANGED <<swal, s2c, uplinkIn>>
        /\ ackDue' = [x \in Conn |-> NoKey]
    BY <1>6 DEF ServerRestart, clientVars
  <2> QED
    BY <2>1, <1>2
<1>7. CASE UNCHANGED vars
  BY <1>3, <1>7 DEF vars
<1> QED
  BY <1>4, <1>5, <1>6, <1>7 DEF Next

-----------------------------------------------------------------------------
(***************************************************************************)
(* Every client appends the entries of the server in their order.          *)
(***************************************************************************)
PrefixOf(log, of) ==
    /\ Len(log) <= Len(of)
    /\ \A i \in 1..Len(log) : log[i] = of[i]

\* handleUplinkPacket appends the entry of a packet without looking at its
\* index.  The packet is true and not ahead of the log; hence its entry is the
\* next one, or the log has its key already.
LEMMA LearnNext ==
    ASSUME NEW log \in Seq(Entry), NEW of \in Seq(Entry), PrefixOf(log, of),
           \A i, j \in 1..Len(of) : DedupKey(of[i]) = DedupKey(of[j]) => i = j,
           NEW pkt \in Packet, pkt.op = "wal", Told(of, pkt),
           pkt.index <= Len(log)
    PROVE  /\ PrefixOf(WalAppend(log, pkt.entry), of)
           /\ Len(WalAppend(log, pkt.entry)) \in Nat
           /\ Len(log) <= Len(WalAppend(log, pkt.entry))
           /\ pkt.index < Len(WalAppend(log, pkt.entry))
<1>1. pkt.index \in Nat /\ pkt.entry \in Entry
  BY DEF Packet, HelloPacket
<1>2. pkt.index < Len(of) /\ pkt.entry = of[pkt.index + 1]
  BY DEF Told
<1>3. Len(log) \in Nat /\ Len(of) \in Nat
  OBVIOUS
<1>4. CASE pkt.index < Len(log)
  <2>1. pkt.index + 1 \in 1..Len(log)
    BY <1>1, <1>3, <1>4
  <2>2. pkt.entry = log[pkt.index + 1]
    BY <1>2, <2>1 DEF PrefixOf
  <2>3. DedupKey(pkt.entry) \in Keys(log)
    BY <2>1, <2>2 DEF Keys
  <2>4. WalAppend(log, pkt.entry) = log
    BY <2>3 DEF WalAppend
  <2> QED
    BY <2>4, <1>3, <1>4
<1>5. CASE pkt.index = Len(log)
  <2>1. DedupKey(pkt.entry) \notin Keys(log)
    <3> SUFFICES ASSUME NEW i \in 1..Len(log), DedupKey(log[i]) = DedupKey(pkt.entry)
                 PROVE  FALSE
      BY DEF Keys
    <3>1. /\ i \in 1..Len(of) /\ pkt.index + 1 \in 1..Len(of)
          /\ i # pkt.index + 1
      BY <1>1, <1>2, <1>3, <1>5
    <3>2. DedupKey(of[i]) = DedupKey(of[pkt.index + 1])
      BY <1>2 DEF PrefixOf
    <3> QED
      BY <3>1, <3>2
  <2> DEFINE log2 == Append(log, pkt.entry)
  <2>2. WalAppend(log, pkt.entry) = log2
    BY <2>1 DEF WalAppend
  <2>3. /\ Len(log2) = Len(log) + 1
        /\ log2[Len(log) + 1] = pkt.entry
        /\ \A i \in 1..Len(log) : log2[i] = log[i]
    BY <1>1
  <2> HIDE DEF log2
  <2>4. PrefixOf(log2, of)
    BY <2>3, <1>2, <1>3, <1>5 DEF PrefixOf
  <2> QED
    BY <2>2, <2>3, <2>4, <1>3, <1>5
<1> QED
  BY <1>1, <1>3, <1>4, <1>5

\* The two queues of client c satisfy Pipe.
PipeOf(c) ==
    Pipe(Len(cwal[c]), uplinkIn[c], s2c[cur[c]], walIndex[cur[c]],
         srv[cur[c]] # "closed")

PrefixInv == ReplicaPrefix /\ GapFree

\* The types of what Pipe is about, for a connected client.
LEMMA PipeTypes ==
    ASSUME TypeInv, NEW c \in Client, cur[c] # NoConn
    PROVE  /\ cur[c] \in Conn
           /\ Len(cwal[c]) \in Nat
           /\ uplinkIn[c] \in Seq(Packet)
           /\ s2c[cur[c]] \in Seq(Packet)
           /\ walIndex[cur[c]] \in Nat
           /\ (srv[cur[c]] # "closed") \in BOOLEAN
BY DEF TypeInv, TypeOK

\* The head of uplinkIn is true, and not ahead of the log.
LEMMA HeadInOrder ==
    ASSUME TypeInv, LinkOK, CommitInv, PrefixInv, NEW c \in Client,
           phase[c] = "up", uplinkIn[c] # <<>>, Head(uplinkIn[c]).op = "wal"
    PROVE  LET log == WalAppend(cwal[c], Head(uplinkIn[c]).entry)
           IN  /\ PrefixOf(log, swal)
               /\ Len(log) \in Nat
               /\ Len(cwal[c]) <= Len(log)
               /\ Head(uplinkIn[c]).index < Len(log)
<1>1. cur[c] # NoConn
  BY DEF LinkOK
<1>2. Pipe(Len(cwal[c]), uplinkIn[c], s2c[cur[c]], walIndex[cur[c]],
           srv[cur[c]] # "closed")
  BY <1>1 DEF PrefixInv, GapFree
<1>3. Head(uplinkIn[c]).index <= Len(cwal[c])
  BY <1>1, <1>2, PipeTypes, PipeHead
<1>4. /\ uplinkIn[c] \in Seq(Packet) /\ Head(uplinkIn[c]) \in Packet
      /\ cwal[c] \in Seq(Entry) /\ swal \in Seq(Entry)
  BY DEF TypeInv, TypeOK
<1>5. AllTold(swal, uplinkIn[c])
  BY CommittedForm DEF CommitInv, Committed
<1>6. Told(swal, Head(uplinkIn[c]))
  BY <1>4, <1>5, AllToldTail
<1>7. PrefixOf(cwal[c], swal)
  BY DEF PrefixInv, ReplicaPrefix, PrefixOf
<1>8. \A i, j \in 1..Len(swal) : DedupKey(swal[i]) = DedupKey(swal[j]) => i = j
  BY DEF CommitInv, UniqueKeys
<1> QED
  BY <1>3, <1>4, <1>6, <1>7, <1>8, LearnNext

\* ReplicaPrefix is kept.
LEMMA PrefixStep ==
    TypeInv /\ LinkOK /\ CommitInv /\ PrefixInv /\ [Next]_vars => ReplicaPrefix'
<1> SUFFICES ASSUME TypeInv, LinkOK, CommitInv, PrefixInv, [Next]_vars
             PROVE  ReplicaPrefix'
  OBVIOUS
<1>0. \A c \in Client : PrefixOf(cwal[c], swal)
  BY DEF PrefixInv, ReplicaPrefix, PrefixOf
<1>1. ASSUME \A c \in Client : PrefixOf(cwal'[c], swal')
      PROVE  ReplicaPrefix'
  BY <1>1 DEF ReplicaPrefix, PrefixOf
<1>2. CASE UNCHANGED <<cwal, swal>>
  BY <1>0, <1>1, <1>2
<1>3. ASSUME NEW c \in Client, phase[c] = "up", uplinkIn[c] # <<>>,
             Head(uplinkIn[c]).op = "wal", swal' = swal,
             cwal' = [cwal EXCEPT ![c] = WalAppend(@, Head(uplinkIn[c]).entry)]
      PROVE  ReplicaPrefix'
  <2>1. PrefixOf(WalAppend(cwal[c], Head(uplinkIn[c]).entry), swal)
    BY <1>3, HeadInOrder
  <2>2. cwal \in [Client -> Seq(Entry)]
    BY DEF TypeInv, TypeOK
  <2> QED
    BY <2>1, <2>2, <1>0, <1>1, <1>3
<1>4. ASSUME NEW c \in Client, ClientNext(c) PROVE ReplicaPrefix'
  <2>1. CASE HandleServerWal(c)
    BY <2>1, <1>3 DEF HandleServerWal, serverVars
  <2>2. CASE CrashBeforeAck(c)
    BY <2>2, <1>3 DEF CrashBeforeAck, LoseMemory, serverVars
  <2> QED
    BY <1>2, <1>4, <2>1, <2>2 DEF ClientNext, NewWalEntry, AckGame,
       TakePending, SendPending, Dial, HelloReply, PumpOut, PumpIn, HandleServerAck,
       HandleServerWalFails, LinkLost, LinkClosed, Restart, LoseMemory,
       clientVars, serverVars
<1>5. ASSUME NEW x \in Conn, ServerNext(x) PROVE ReplicaPrefix'
  <2>1. CASE HandleWal(x)
    <3>1. /\ Head(c2s[x]) \in Entry /\ swal \in Seq(Entry)
          /\ \A c \in Client : cwal[c] \in Seq(Entry)
          /\ swal' = WalAppend(swal, Head(c2s[x]))
          /\ cwal' = cwal
      BY <2>1 DEF HandleWal, clientVars, TypeInv, TypeOK
    <3>2. /\ Len(swal') \in {Len(swal), Len(swal) + 1}
          /\ \A i \in 1..Len(swal) : swal'[i] = swal[i]
      BY <3>1, WalAppendGrows
    <3>3. \A c \in Client : PrefixOf(cwal'[c], swal')
      BY <3>1, <3>2, <1>0 DEF PrefixOf
    <3> QED
      BY <3>3, <1>1
  <2> QED
    BY <1>2, <1>5, <2>1 DEF ServerNext, Join, StreamNext, SendAck, PlayerLost,
       PlayerGone, clientVars
<1>6. CASE ServerRestart
  BY <1>2, <1>6 DEF ServerRestart, clientVars
<1>7. CASE UNCHANGED vars
  BY <1>2, <1>7 DEF vars
<1> QED
  BY <1>4, <1>5, <1>6, <1>7 DEF Next

\* A client whose link, queues and log do not change.
LEMMA PipeSame ==
    ASSUME NEW d \in Client, PipeOf(d),
           cur'[d] = cur[d], Len(cwal'[d]) = Len(cwal[d]),
           uplinkIn'[d] = uplinkIn[d], s2c'[cur[d]] = s2c[cur[d]],
           walIndex'[cur[d]] = walIndex[cur[d]],
           srv'[cur[d]] # "closed" <=> srv[cur[d]] # "closed"
    PROVE  PipeOf(d)'
<1>1. (srv'[cur[d]] # "closed") = (srv[cur[d]] # "closed")
  OBVIOUS
<1> QED
  BY <1>1 DEF PipeOf

\* The steps of a client on its own queues; those of the others are not
\* touched, because no two clients share a connection.
LEMMA ClientGaps ==
    ASSUME TypeInv, LinkOK, CommitInv, PrefixInv, NEW c \in Client, ClientNext(c)
    PROVE  GapFree'
<1>0. /\ \A d \in Client : cur[d] # NoConn => PipeOf(d)
      /\ \A d \in Client : cur[d] # NoConn /\ d # c => cur[d] # cur[c]
      /\ cwal \in [Client -> Seq(Entry)]
      /\ uplinkIn \in [Client -> Seq(Packet)]
      /\ s2c \in [Conn -> Seq(Packet)]
      /\ walIndex \in [Conn -> Nat]
      /\ srv \in [Conn -> ServerState]
      /\ phase \in [Client -> Phase]
      /\ cur \in [Client -> Conn \cup {NoConn}]
      /\ NoConn \notin Conn
      /\ phase[c] # "idle" => cur[c] \in Conn /\ cur[c] # NoConn
  BY ConstantsAssumption DEF PrefixInv, GapFree, PipeOf, LinkOK, TypeInv, TypeOK
<1>1. ASSUME \A d \in Client : cur'[d] # NoConn => PipeOf(d)' PROVE GapFree'
  BY <1>1 DEF GapFree, PipeOf
<1>2. CASE UNCHANGED <<cwal, uplinkIn, s2c, walIndex, srv, cur>>
  BY <1>0, <1>1, <1>2, PipeSame
<1>3. ASSUME \A d \in Client \ {c} : /\ cur'[d] = cur[d]
                                     /\ cwal'[d] = cwal[d]
                                     /\ uplinkIn'[d] = uplinkIn[d],
             \A x \in Conn : x # cur[c] => s2c'[x] = s2c[x],
             UNCHANGED <<walIndex, srv>>,
             cur'[c] # NoConn => PipeOf(c)'
      PROVE  GapFree'
  <2>1. ASSUME NEW d \in Client, cur'[d] # NoConn PROVE PipeOf(d)'
    <3>1. CASE d = c
      BY <3>1, <2>1, <1>3
    <3>2. CASE d # c
      <4>1. /\ cur[d] \in Conn /\ cur[d] # cur[c] /\ PipeOf(d)
            /\ cur'[d] = cur[d] /\ cwal'[d] = cwal[d]
            /\ uplinkIn'[d] = uplinkIn[d]
        BY <3>2, <2>1, <1>0, <1>3
      <4>2. s2c'[cur[d]] = s2c[cur[d]]
        BY <4>1, <1>3
      <4> QED
        BY <4>1, <4>2, <1>3, PipeSame
    <3> QED
      BY <3>1, <3>2
  <2> QED
    BY <1>1, <2>1
<1>4. CASE \E x \in Conn : Dial(c, x)
  <2>1. PICK x \in Conn : Dial(c, x)
    BY <1>4
  <2>2. /\ cur' = [cur EXCEPT ![c] = x]
        /\ uplinkIn' = [uplinkIn EXCEPT ![c] = <<>>]
        /\ srv' = [srv EXCEPT ![x] = "accepted"]
        /\ walIndex' = [walIndex EXCEPT ![x] = Len(cwal[c])]
        /\ UNCHANGED <<cwal, s2c>>
        /\ \A d \in Client : cur[d] # x
    BY <2>1 DEF Dial
  <2>3. s2c[x] = <<>>
    BY <2>2 DEF LinkOK
  <2>4. PipeOf(c)'
    <3>1. /\ cur'[c] = x /\ uplinkIn'[c] = <<>> /\ srv'[x] # "closed"
          /\ walIndex'[x] = Len(cwal[c]) /\ s2c'[x] = <<>>
          /\ cwal'[c] = cwal[c] /\ Len(cwal[c]) \in Nat
      BY <2>2, <2>3, <1>0
    <3>2. (srv'[x] # "closed") = TRUE
      BY <3>1
    <3> QED
      BY <3>1, <3>2, PipeStart DEF PipeOf
  <2>5. ASSUME NEW d \in Client, d # c, cur'[d] # NoConn PROVE PipeOf(d)'
    <3>1. cur'[d] = cur[d] /\ cur[d] \in Conn /\ cur[d] # x /\ PipeOf(d)
      BY <2>2, <2>5, <1>0
    <3>2. /\ uplinkIn'[d] = uplinkIn[d]
          /\ srv'[cur[d]] = srv[cur[d]]
          /\ walIndex'[cur[d]] = walIndex[cur[d]]
      BY <2>2, <2>5, <3>1, <1>0
    <3> QED
      BY <3>1, <3>2, <2>2, PipeSame
  <2> QED
    BY <2>4, <2>5, <1>1
<1>5. CASE HelloReply(c)
  <2>1. /\ cur[c] \in Conn /\ cur[c] # NoConn
        /\ s2c[cur[c]] # <<>> /\ Head(s2c[cur[c]]).op # "wal"
        /\ s2c' = [s2c EXCEPT ![cur[c]] = Tail(@)]
        /\ UNCHANGED <<cwal, uplinkIn, cur, srv, walIndex>>
    BY <1>5, <1>0 DEF HelloReply, clientVars, serverVars
  <2>2. Pipe(Len(cwal[c]), uplinkIn[c], Tail(s2c[cur[c]]), walIndex[cur[c]],
             srv[cur[c]] # "closed")
    BY <2>1, <1>0, PipeTypes, PipeSkip DEF PipeOf
  <2>3. s2c'[cur[c]] = Tail(s2c[cur[c]])
    BY <2>1, <1>0
  <2>4. PipeOf(c)'
    BY <2>1, <2>2, <2>3 DEF PipeOf
  <2> QED
    BY <2>1, <2>4, <1>0, <1>3
<1>6. CASE PumpIn(c)
  <2>1. /\ cur[c] \in Conn /\ cur[c] # NoConn
        /\ s2c[cur[c]] # <<>>
        /\ s2c' = [s2c EXCEPT ![cur[c]] = Tail(@)]
        /\ uplinkIn' = [uplinkIn EXCEPT ![c] = Append(@, Head(s2c[cur[c]]))]
        /\ UNCHANGED <<cwal, cur, srv, walIndex>>
    BY <1>6, <1>0 DEF PumpIn, linkVars, serverVars
  <2>2. Pipe(Len(cwal[c]), Append(uplinkIn[c], Head(s2c[cur[c]])),
             Tail(s2c[cur[c]]), walIndex[cur[c]], srv[cur[c]] # "closed")
    BY <2>1, <1>0, PipeTypes, PipePump DEF PipeOf
  <2>3. /\ s2c'[cur[c]] = Tail(s2c[cur[c]])
        /\ uplinkIn'[c] = Append(uplinkIn[c], Head(s2c[cur[c]]))
    BY <2>1, <1>0
  <2>4. PipeOf(c)'
    BY <2>1, <2>2, <2>3 DEF PipeOf
  <2> QED
    BY <2>1, <2>4, <1>0, <1>3
<1>7. CASE HandleServerWal(c)
  <2> DEFINE log == WalAppend(cwal[c], Head(uplinkIn[c]).entry)
  <2>1. /\ phase[c] = "up" /\ cur[c] # NoConn
        /\ uplinkIn[c] # <<>> /\ Head(uplinkIn[c]).op = "wal"
        /\ cwal' = [cwal EXCEPT ![c] = log]
        /\ uplinkIn' = [uplinkIn EXCEPT ![c] = Tail(@)]
        /\ UNCHANGED <<s2c, cur, srv, walIndex>>
    BY <1>7, <1>0 DEF HandleServerWal, linkVars, serverVars
  <2>2. /\ Len(log) \in Nat
        /\ Len(cwal[c]) <= Len(log)
        /\ Head(uplinkIn[c]).index < Len(log)
    BY <2>1, HeadInOrder
  <2> HIDE DEF log
  <2>3. Pipe(Len(log), Tail(uplinkIn[c]), s2c[cur[c]], walIndex[cur[c]],
             srv[cur[c]] # "closed")
    BY <2>1, <2>2, <1>0, PipeTypes, PipeConsume DEF PipeOf
  <2>4. cwal'[c] = log /\ uplinkIn'[c] = Tail(uplinkIn[c])
    BY <2>1, <1>0
  <2>5. PipeOf(c)'
    BY <2>1, <2>3, <2>4 DEF PipeOf
  <2> QED
    BY <2>1, <2>5, <1>0, <1>3
<1>8. CASE HandleServerAck(c)
  <2>1. /\ cur[c] # NoConn
        /\ uplinkIn[c] # <<>> /\ Head(uplinkIn[c]).op # "wal"
        /\ uplinkIn' = [uplinkIn EXCEPT ![c] = Tail(@)]
        /\ UNCHANGED <<cwal, s2c, cur, srv, walIndex>>
    BY <1>8, <1>0 DEF HandleServerAck, linkVars, serverVars
  <2>2. Len(cwal[c]) \in Nat /\ Len(cwal[c]) <= Len(cwal[c])
    BY <1>0
  <2>3. Pipe(Len(cwal[c]), Tail(uplinkIn[c]), s2c[cur[c]], walIndex[cur[c]],
             srv[cur[c]] # "closed")
    BY <2>1, <2>2, <1>0, PipeTypes, PipeConsume DEF PipeOf
  <2>4. uplinkIn'[c] = Tail(uplinkIn[c])
    BY <2>1, <1>0
  <2>5. PipeOf(c)'
    BY <2>1, <2>3, <2>4 DEF PipeOf
  <2> QED
    BY <2>1, <2>5, <1>0, <1>3
<1>9. CASE HandleServerWalFails(c) \/ LinkLost(c) \/ LinkClosed(c) \/ Restart(c)
           \/ CrashBeforeAck(c)
  <2>1. /\ Disconnect(c) /\ UNCHANGED <<srv, walIndex>>
        /\ \A d \in Client \ {c} : cwal'[d] = cwal[d] /\ uplinkIn'[d] = uplinkIn[d]
    <3>1. CASE HandleServerWalFails(c)
      BY <3>1, <1>0 DEF HandleServerWalFails, serverVars
    <3>2. CASE LinkLost(c) \/ LinkClosed(c)
      BY <3>2 DEF LinkLost, LinkClosed, clientVars, serverVars
    <3>3. CASE Restart(c)
      BY <3>3, <1>0 DEF Restart, LoseMemory, serverVars
    <3>4. CASE CrashBeforeAck(c)
      BY <3>4, <1>0 DEF CrashBeforeAck, LoseMemory, serverVars
    <3> QED
      BY <1>9, <3>1, <3>2, <3>3, <3>4
  <2>2. /\ cur'[c] = NoConn
        /\ \A d \in Client \ {c} : cur'[d] = cur[d]
        /\ \A x \in Conn : x # cur[c] => s2c'[x] = s2c[x]
    BY <2>1, <1>0 DEF Disconnect
  <2> QED
    BY <2>1, <2>2, <1>3
<1>10. CASE (\E k \in GameKeys[c] : NewWalEntry(c, k)) \/ AckGame(c)
            \/ TakePending(c) \/ SendPending(c) \/ PumpOut(c)
  BY <1>10, <1>2 DEF NewWalEntry, AckGame, TakePending, SendPending, PumpOut,
     linkVars, serverVars
<1> QED
  BY <1>4, <1>5, <1>6, <1>7, <1>8, <1>9, <1>10 DEF ClientNext

\* The steps of the server on the queues of the client that is connected, if
\* there is one.
LEMMA ServerGaps ==
    ASSUME TypeInv, LinkOK, CommitInv, PrefixInv,
           (\E x \in Conn : ServerNext(x)) \/ ServerRestart
    PROVE  GapFree'
<1>0. /\ \A d \in Client : cur[d] # NoConn => PipeOf(d) /\ cur[d] \in Conn
      /\ s2c \in [Conn -> Seq(Packet)]
      /\ walIndex \in [Conn -> Nat]
      /\ srv \in [Conn -> ServerState]
      /\ swal \in Seq(Entry)
  BY DEF PrefixInv, GapFree, PipeOf, TypeInv, TypeOK
<1>1. ASSUME \A d \in Client : cur'[d] # NoConn => PipeOf(d)' PROVE GapFree'
  BY <1>1 DEF GapFree, PipeOf
<1>2. UNCHANGED <<cwal, uplinkIn, cur>>
  BY DEF ServerNext, Join, StreamNext, HandleWal, SendAck, PlayerLost, PlayerGone,
     ServerRestart, clientVars, linkVars
<1>3. ASSUME NEW x \in Conn,
             \A y \in Conn \ {x} : /\ s2c'[y] = s2c[y]
                                   /\ walIndex'[y] = walIndex[y]
                                   /\ srv'[y] = srv[y],
             \A d \in Client : cur[d] = x => PipeOf(d)'
      PROVE  GapFree'
  <2>1. ASSUME NEW d \in Client, cur'[d] # NoConn PROVE PipeOf(d)'
    <3>1. cur'[d] = cur[d] /\ PipeOf(d) /\ cur[d] \in Conn
      BY <2>1, <1>0, <1>2
    <3>2. CASE cur[d] = x
      BY <3>2, <1>3
    <3>3. CASE cur[d] # x
      BY <3>1, <3>3, <1>2, <1>3, PipeSame
    <3> QED
      BY <3>2, <3>3
  <2> QED
    BY <1>1, <2>1
<1>4. ASSUME NEW x \in Conn, Join(x) PROVE GapFree'
  <2>1. ASSUME NEW d \in Client, cur[d] = x PROVE PipeOf(d)'
    <3>1. cur[d] # NoConn
      BY <2>1, ConstantsAssumption
    <3>2. HelloPacket \in Packet /\ HelloPacket.op # "wal"
      BY DEF HelloPacket, Packet
    <3>3. /\ s2c'[x] = Append(s2c[x], HelloPacket)
          /\ walIndex' = walIndex
          /\ srv[x] # "closed" /\ srv'[x] # "closed"
      BY <1>4, <2>1, <1>0 DEF Join, Write
    <3>4. Pipe(Len(cwal[d]), uplinkIn[d], Append(s2c[x], HelloPacket), walIndex[x],
               srv[x] # "closed")
      BY <2>1, <3>1, <3>2, <1>0, PipeTypes, PipeWrite DEF PipeOf
    <3>5. (srv'[x] # "closed") = (srv[x] # "closed")
      BY <3>3
    <3> QED
      BY <2>1, <3>3, <3>4, <3>5, <1>2 DEF PipeOf
  <2>2. \A y \in Conn \ {x} : s2c'[y] = s2c[y] /\ walIndex'[y] = walIndex[y]
                              /\ srv'[y] = srv[y]
    BY <1>4, <1>0 DEF Join, Write
  <2> QED
    BY <2>1, <2>2, <1>3
<1>5. ASSUME NEW x \in Conn, StreamNext(x) PROVE GapFree'
  <2> DEFINE e == swal[walIndex[x] + 1]
  <2> DEFINE pkt == WalPacket(walIndex[x], e)
  <2>0. /\ Write(x, pkt) /\ walIndex' = [walIndex EXCEPT ![x] = @ + 1]
        /\ srv' = srv /\ srv[x] = "joined" /\ e \in Entry
    BY <1>5, <1>0 DEF StreamNext
  <2> HIDE DEF e
  <2>1. ASSUME NEW d \in Client, cur[d] = x PROVE PipeOf(d)'
    <3>1. cur[d] # NoConn
      BY <2>1, ConstantsAssumption
    <3>3. /\ s2c'[x] = Append(s2c[x], WalPacket(walIndex[x], e))
          /\ walIndex'[x] = walIndex[x] + 1
          /\ (srv[x] # "closed") = TRUE /\ (srv'[x] # "closed") = TRUE
      BY <2>0, <2>1, <1>0 DEF Write
    <3>4. Pipe(Len(cwal[d]), uplinkIn[d], s2c[x], walIndex[x], TRUE)
      BY <2>1, <3>1, <3>3, <1>0 DEF PipeOf
    <3>5. Pipe(Len(cwal[d]), uplinkIn[d], Append(s2c[x], WalPacket(walIndex[x], e)),
               walIndex[x] + 1, TRUE)
      BY <2>0, <2>1, <3>1, <3>4, PipeTypes, PipeStream
    <3> QED
      BY <2>1, <3>3, <3>5, <1>2 DEF PipeOf
  <2>2. \A y \in Conn \ {x} : s2c'[y] = s2c[y] /\ walIndex'[y] = walIndex[y]
                              /\ srv'[y] = srv[y]
    BY <2>0, <1>0 DEF Write
  <2> QED
    BY <2>1, <2>2, <1>3
<1>6. ASSUME NEW x \in Conn, HandleWal(x) PROVE GapFree'
  <2>1. UNCHANGED <<s2c, walIndex, srv>>
    BY <1>6 DEF HandleWal
  <2> QED
    BY <2>1, <1>0, <1>1, <1>2, PipeSame
<1>7. ASSUME NEW x \in Conn, SendAck(x) PROVE GapFree'
  <2> DEFINE pkt == AckPacket(ackDue[x])
  <2>0. /\ Write(x, pkt) /\ UNCHANGED <<walIndex, srv>>
        /\ pkt \in Packet /\ pkt.op # "wal"
    BY <1>7 DEF SendAck, AckPacket, Packet, TypeInv, TypeOK
  <2> HIDE DEF pkt
  <2>1. ASSUME NEW d \in Client, cur[d] = x PROVE PipeOf(d)'
    <3>1. cur[d] # NoConn
      BY <2>1, ConstantsAssumption
    <3>3. s2c'[x] = Append(s2c[x], pkt)
      BY <2>0, <2>1, <1>0 DEF Write
    <3>4. Pipe(Len(cwal[d]), uplinkIn[d], Append(s2c[x], pkt), walIndex[x],
               srv[x] # "closed")
      BY <2>0, <2>1, <3>1, <1>0, PipeTypes, PipeWrite DEF PipeOf
    <3> QED
      BY <2>0, <2>1, <3>3, <3>4, <1>2 DEF PipeOf
  <2>2. \A y \in Conn \ {x} : s2c'[y] = s2c[y]
    BY <2>0, <1>0 DEF Write
  <2> QED
    BY <2>0, <2>1, <2>2, <1>3
<1>8. ASSUME NEW d \in Client, cur[d] # NoConn, s2c' = s2c,
             srv'[cur[d]] = "closed"
      PROVE  PipeOf(d)'
  <2>1. /\ Pipe(Len(cwal[d]), uplinkIn[d], s2c[cur[d]], walIndex'[cur[d]], FALSE)
        /\ (srv'[cur[d]] # "closed") = FALSE
    BY <1>8, <1>0, PipeStop DEF PipeOf
  <2> QED
    BY <2>1, <1>2, <1>8 DEF PipeOf
<1>9. ASSUME NEW x \in Conn, PlayerLost(x) \/ PlayerGone(x) PROVE GapFree'
  <2>1. /\ s2c' = s2c /\ srv'[x] = "closed"
        /\ \A y \in Conn \ {x} : walIndex'[y] = walIndex[y] /\ srv'[y] = srv[y]
    BY <1>9, <1>0 DEF PlayerLost, PlayerGone, ServerClose
  <2>2. x # NoConn
    BY ConstantsAssumption
  <2> QED
    BY <2>1, <2>2, <1>3, <1>8
<1>10. CASE ServerRestart
  <2>1. s2c' = s2c /\ \A y \in Conn : srv'[y] = "closed"
    BY <1>10 DEF ServerRestart
  <2> QED
    BY <2>1, <1>0, <1>1, <1>2, <1>8
<1> QED
  BY <1>4, <1>5, <1>6, <1>7, <1>9, <1>10 DEF ServerNext

-----------------------------------------------------------------------------
(***************************************************************************)
(* The inductive invariant, and the theorems.                              *)
(***************************************************************************)
IndInv == TypeInv /\ LinkOK /\ CommitInv /\ PrefixInv

LEMMA InitInv == Init => IndInv
<1> SUFFICES ASSUME Init PROVE IndInv
  OBVIOUS
<1>1. TypeInv
  BY ConstantsAssumption
     DEF Init, TypeInv, LinkType, TypeOK, Phase, ServerState
<1>2. LinkOK
  BY DEF Init, LinkOK
<1>3. CommitInv
  BY DEF Init, CommitInv, UniqueKeys, PacketsTellCommitted
<1>4. PrefixInv
  BY DEF Init, PrefixInv, ReplicaPrefix, GapFree
<1> QED
  BY <1>1, <1>2, <1>3, <1>4 DEF IndInv

LEMMA StepInv == IndInv /\ [Next]_vars => IndInv'
<1> SUFFICES ASSUME IndInv, [Next]_vars PROVE IndInv'
  OBVIOUS
<1>0. TypeInv /\ LinkOK /\ CommitInv /\ PrefixInv
  BY DEF IndInv
<1>1. TypeInv'
  BY <1>0, TypeStep
<1>2. LinkOK'
  BY <1>0, LinkStep
<1>3. CommitInv'
  BY <1>0, CommitStep
<1>4. ReplicaPrefix'
  BY <1>0, PrefixStep
<1>5. GapFree'
  <2>1. CASE UNCHANGED vars
    BY <2>1, <1>0 DEF vars, PrefixInv, GapFree
  <2> QED
    BY <2>1, <1>0, ClientGaps, ServerGaps DEF Next
<1> QED
  BY <1>1, <1>2, <1>3, <1>4, <1>5 DEF IndInv, PrefixInv

LEMMA Invariance == Spec => []IndInv
BY InitInv, StepInv, PTL DEF Spec

\* The WAL of every client is a prefix of the server's, whatever connections
\* break, packets are lost and processes restart, although handleUplinkPacket
\* does not look at the index of the packets it appends.
THEOREM PrefixCorrect == Spec => []ReplicaPrefix
<1>1. IndInv => ReplicaPrefix
  BY DEF IndInv, PrefixInv
<1> QED
  BY <1>1, Invariance, PTL

\* No packet outruns the append it reports.
THEOREM CommittedCorrect == Spec => []PacketsTellCommitted
<1>1. IndInv => PacketsTellCommitted
  BY DEF IndInv, CommitInv
<1> QED
  BY <1>1, Invariance, PTL

\* No entry can arrive before its predecessor.
THEOREM GapFreeCorrect == Spec => []GapFree
<1>1. IndInv => GapFree
  BY DEF IndInv, PrefixInv
<1> QED
  BY <1>1, Invariance, PTL

-----------------------------------------------------------------------------
(***************************************************************************)
(* Third part: no entry acknowledged to a game is lost, as long as         *)
(* SendQueue.Add does not fail.                                            *)
(***************************************************************************)

(***************************************************************************)
(* QueueCovers for one client: its queue q, the file f of the queue, and   *)
(* the keys ks it has accepted.                                            *)
(***************************************************************************)
Covers(log, q, f, ks) ==
    /\ q \subseteq f
    /\ \A e \in f : e \in q \/ DedupKey(e) \in Keys(log)
    /\ \A k \in ks : k = NoKey \/ k \in Keys(log) \/ \E e \in q : DedupKey(e) = k

CoversOf(c) == Covers(swal, sendQ[c], sqFile[c], acked[c] \cup {unacked[c]})

LEMMA CoversForm == QueueCovers <=> \A c \in Client : CoversOf(c)
BY DEF QueueCovers, CoversOf, Covers

LEMMA CoversForm2 == QueueCovers' <=> \A c \in Client : CoversOf(c)'
BY DEF QueueCovers, CoversOf, Covers

\* SendQueue.Ack for a committed key.
LEMMA CoversAck ==
    ASSUME NEW log, NEW q, NEW f, NEW ks, Covers(log, q, f, ks),
           NEW k \in Keys(log), NEW f2,
           f2 = IF q # {} /\ AckedQueue(q, k) = {} THEN {} ELSE f
    PROVE  Covers(log, AckedQueue(q, k), f2, ks)
<1> DEFINE q2 == AckedQueue(q, k)
<1>1. \A e : e \in q2 <=> e \in q /\ DedupKey(e) # k
  BY DEF AckedQueue
<1>2. q2 \subseteq f2 /\ f2 \subseteq f
  BY <1>1 DEF Covers
<1>3. \A e \in f2 : e \in q2 \/ DedupKey(e) \in Keys(log)
  BY <1>1, <1>2 DEF Covers
<1>4. ASSUME NEW j \in ks
      PROVE  j = NoKey \/ j \in Keys(log) \/ \E e \in q2 : DedupKey(e) = j
  <2>1. CASE j = NoKey \/ j \in Keys(log)
    BY <2>1
  <2>2. CASE \E e \in q : DedupKey(e) = j
    BY <2>2, <1>1
  <2> QED
    BY <2>1, <2>2 DEF Covers
<1> HIDE DEF q2
<1>5. Covers(log, q2, f2, ks)
  BY <1>2, <1>3, <1>4 DEF Covers
<1> QED
  BY <1>5 DEF q2

\* The WAL of the server grows.
LEMMA CoversGrows ==
    ASSUME NEW log, NEW log2, Keys(log) \subseteq Keys(log2),
           NEW q, NEW f, NEW ks, Covers(log, q, f, ks)
    PROVE  Covers(log2, q, f, ks)
BY DEF Covers

\* The queue is loaded from its file.
LEMMA CoversReload ==
    ASSUME NEW log, NEW q, NEW f, NEW ks, NEW ks2, Covers(log, q, f, ks),
           ks2 \subseteq ks \cup {NoKey}
    PROVE  Covers(log, f, f, ks2)
BY DEF Covers

\* SendQueue.Add, of an entry with key k.
LEMMA CoversAdd ==
    ASSUME NEW log, NEW q, NEW f, NEW ks, NEW ks2, Covers(log, q, f, ks),
           NEW e, NEW q2, NEW f2, ks2 \subseteq ks \cup {DedupKey(e)},
           \/ /\ \E d \in q : DedupKey(d) = DedupKey(e)
              /\ q2 = q /\ f2 = f
           \/ q2 = q \cup {e} /\ f2 = f \cup {e}
    PROVE  Covers(log, q2, f2, ks2)
<1>1. q2 \subseteq f2
  BY DEF Covers
<1>2. \A g \in f2 : g \in q2 \/ DedupKey(g) \in Keys(log)
  BY DEF Covers
<1>3. \E d \in q2 : DedupKey(d) = DedupKey(e)
  OBVIOUS
<1>4. q \subseteq q2
  OBVIOUS
<1>5. ASSUME NEW k \in ks2
      PROVE  k = NoKey \/ k \in Keys(log) \/ \E d \in q2 : DedupKey(d) = k
  <2>1. CASE k = DedupKey(e)
    BY <2>1, <1>3
  <2>2. CASE k \in ks
    BY <2>2, <1>4 DEF Covers
  <2> QED
    BY <2>1, <2>2
<1> QED
  BY <1>1, <1>2, <1>5 DEF Covers

\* One client whose queue, file and keys do not change.
LEMMA CoversSame ==
    ASSUME NEW c \in Client, CoversOf(c), swal' = swal, sendQ'[c] = sendQ[c],
           sqFile'[c] = sqFile[c], acked'[c] \cup {unacked'[c]}
              \subseteq acked[c] \cup {unacked[c], NoKey}
    PROVE  CoversOf(c)'
<1>1. ASSUME NEW k \in acked'[c] \cup {unacked'[c]}
      PROVE  k = NoKey \/ k \in Keys(swal) \/ \E e \in sendQ[c] : DedupKey(e) = k
  BY DEF CoversOf, Covers
<1> QED
  BY <1>1 DEF CoversOf, Covers

\* The steps of a client keep its queue and its file in order.
LEMMA ClientCovers ==
    ASSUME ~AddMayFail, IndInv, QueueCovers, NEW c \in Client, ClientNext(c)
    PROVE  QueueCovers'
<1>0. /\ sendQ \in [Client -> SUBSET Entry]
      /\ sqFile \in [Client -> SUBSET Entry]
      /\ acked \in [Client -> SUBSET Key]
      /\ unacked \in [Client -> Key \cup {NoKey}]
      /\ uplinkIn \in [Client -> Seq(Packet)]
      /\ \A d \in Client : CoversOf(d)
  BY CoversForm DEF IndInv, TypeInv, TypeOK
<1>1. swal' = swal
  BY DEF ClientNext, NewWalEntry, AckGame, TakePending, SendPending, Dial,
     HelloReply, PumpOut, PumpIn, HandleServerWal, HandleServerAck,
     HandleServerWalFails, LinkLost, LinkClosed, Restart, LoseMemory,
     CrashBeforeAck, serverVars
<1>2. CASE UNCHANGED <<sendQ, sqFile, acked, unacked>>
  BY <1>0, <1>1, <1>2, CoversSame, CoversForm2
<1>3. ASSUME \A d \in Client \ {c} : /\ sendQ'[d] = sendQ[d]
                                     /\ sqFile'[d] = sqFile[d]
                                     /\ acked'[d] = acked[d]
                                     /\ unacked'[d] = unacked[d],
             CoversOf(c)'
      PROVE  QueueCovers'
  <2>1. ASSUME NEW d \in Client, d # c PROVE CoversOf(d)'
    BY <2>1, <1>0, <1>1, <1>3, CoversSame
  <2> QED
    BY <2>1, <1>3, CoversForm2
<1>4. CASE \E k \in GameKeys[c] : NewWalEntry(c, k)
  <2>1. PICK k \in GameKeys[c] : NewWalEntry(c, k)
    BY <1>4
  <2> DEFINE e == [key |-> k, player |-> c]
  <2>2. /\ SendQueueAdd(c, e)
        /\ unacked' = [unacked EXCEPT ![c] = k]
        /\ acked' = acked
        /\ DedupKey(e) = k
    BY <2>1 DEF NewWalEntry, SendQueueAddFails, DedupKey
  <2> HIDE DEF e
  <2>3. \/ /\ \E d \in sendQ[c] : DedupKey(d) = DedupKey(e)
           /\ sendQ' = sendQ /\ sqFile' = sqFile
        \/ /\ sendQ' = [sendQ EXCEPT ![c] = @ \cup {e}]
           /\ sqFile' = [sqFile EXCEPT ![c] = @ \cup {e}]
    BY <2>2 DEF SendQueueAdd
  <2>4. \A d \in Client \ {c} : /\ sendQ'[d] = sendQ[d]
                                /\ sqFile'[d] = sqFile[d]
                                /\ acked'[d] = acked[d]
                                /\ unacked'[d] = unacked[d]
    BY <2>2, <2>3, <1>0
  <2>5. /\ \/ /\ \E d \in sendQ[c] : DedupKey(d) = DedupKey(e)
              /\ sendQ'[c] = sendQ[c] /\ sqFile'[c] = sqFile[c]
           \/ sendQ'[c] = sendQ[c] \cup {e} /\ sqFile'[c] = sqFile[c] \cup {e}
        /\ acked'[c] \cup {unacked'[c]}
             \subseteq (acked[c] \cup {unacked[c]}) \cup {DedupKey(e)}
    BY <2>2, <2>3, <1>0
  <2>6. CoversOf(c)'
    <3>1. Covers(swal, sendQ[c], sqFile[c], acked[c] \cup {unacked[c]})
      BY <1>0 DEF CoversOf
    <3>2. Covers(swal, sendQ'[c], sqFile'[c], acked'[c] \cup {unacked'[c]})
      BY <3>1, <2>5, CoversAdd
    <3> QED
      BY <1>1, <3>2 DEF CoversOf
  <2> QED
    BY <2>4, <2>6, <1>3
<1>5. CASE AckGame(c)
  <2>1. /\ UNCHANGED <<sendQ, sqFile>>
        /\ \A d \in Client : acked'[d] \cup {unacked'[d]}
                               \subseteq acked[d] \cup {unacked[d], NoKey}
    BY <1>5, <1>0 DEF AckGame
  <2> QED
    BY <2>1, <1>0, <1>1, CoversSame, CoversForm2
<1>6. ASSUME NEW k \in Keys(swal), SendQueueAck(c, k), UNCHANGED <<acked, unacked>>
      PROVE  QueueCovers'
  <2>1. /\ sendQ'[c] = AckedQueue(sendQ[c], k)
        /\ sqFile'[c] = IF sendQ[c] # {} /\ AckedQueue(sendQ[c], k) = {}
                        THEN {} ELSE sqFile[c]
        /\ \A d \in Client \ {c} : sendQ'[d] = sendQ[d] /\ sqFile'[d] = sqFile[d]
    BY <1>6, <1>0 DEF SendQueueAck
  <2>2. CoversOf(c)'
    <3>1. Covers(swal, sendQ[c], sqFile[c], acked[c] \cup {unacked[c]})
      BY <1>0 DEF CoversOf
    <3>2. Covers(swal, sendQ'[c], sqFile'[c], acked'[c] \cup {unacked'[c]})
      BY <3>1, <2>1, <1>6, CoversAck
    <3> QED
      BY <1>1, <3>2 DEF CoversOf
  <2> QED
    BY <2>1, <2>2, <1>3, <1>6
<1>7. CASE HandleServerWal(c) \/ HandleServerAck(c)
  <2>1. /\ uplinkIn[c] # <<>>
        /\ UNCHANGED <<acked, unacked>>
    BY <1>7 DEF HandleServerWal, HandleServerAck, history
  <2>2. /\ AllTold(swal, uplinkIn[c])
        /\ swal \in Seq(Entry)
        /\ Head(uplinkIn[c]) \in Packet
    BY <2>1, <1>0, CommittedForm DEF IndInv, CommitInv, Committed, TypeInv, TypeOK
  <2>3. Told(swal, Head(uplinkIn[c]))
    BY <2>1, <2>2, <1>0, AllToldTail
  <2>4. CASE HandleServerAck(c)
    <3>1. Head(uplinkIn[c]).key \in Keys(swal)
      BY <2>3, <2>4 DEF HandleServerAck, Told
    <3> QED
      BY <3>1, <2>1, <2>4, <1>6 DEF HandleServerAck
  <2>5. CASE HandleServerWal(c)
    <3>1. /\ Head(uplinkIn[c]).index \in Nat
          /\ Head(uplinkIn[c]).index < Len(swal)
          /\ Head(uplinkIn[c]).entry = swal[Head(uplinkIn[c]).index + 1]
      BY <2>2, <2>3, <2>5 DEF HandleServerWal, Told, Packet, HelloPacket
    <3>2. DedupKey(Head(uplinkIn[c]).entry) \in Keys(swal)
      BY <3>1, <2>2 DEF Keys
    <3> QED
      BY <3>2, <2>1, <2>5, <1>6 DEF HandleServerWal
  <2> QED
    BY <1>7, <2>4, <2>5
<1>8. CASE Restart(c) \/ CrashBeforeAck(c)
  <2>1. /\ sendQ' = [sendQ EXCEPT ![c] = sqFile[c]]
        /\ unacked' = [unacked EXCEPT ![c] = NoKey]
        /\ UNCHANGED <<sqFile, acked>>
    BY <1>8 DEF Restart, CrashBeforeAck, LoseMemory, history
  <2>2. /\ sendQ'[c] = sqFile[c] /\ sqFile'[c] = sqFile[c]
        /\ acked'[c] \cup {unacked'[c]}
             \subseteq (acked[c] \cup {unacked[c]}) \cup {NoKey}
        /\ \A d \in Client \ {c} : sendQ'[d] = sendQ[d] /\ unacked'[d] = unacked[d]
    BY <2>1, <1>0
  <2>3. CoversOf(c)'
    <3>1. Covers(swal, sendQ[c], sqFile[c], acked[c] \cup {unacked[c]})
      BY <1>0 DEF CoversOf
    <3>2. Covers(swal, sendQ'[c], sqFile'[c], acked'[c] \cup {unacked'[c]})
      BY <3>1, <2>2, CoversReload
    <3> QED
      BY <1>1, <3>2 DEF CoversOf
  <2> QED
    BY <2>1, <2>2, <2>3, <1>3
<1>9. CASE TakePending(c) \/ SendPending(c) \/ (\E x \in Conn : Dial(c, x))
           \/ HelloReply(c) \/ PumpOut(c) \/ PumpIn(c) \/ HandleServerWalFails(c)
           \/ LinkLost(c) \/ LinkClosed(c)
  BY <1>9, <1>2 DEF TakePending, SendPending, Dial, HelloReply, PumpOut, PumpIn,
     HandleServerWalFails, LinkLost, LinkClosed, clientVars, history
<1> QED
  BY <1>4, <1>5, <1>7, <1>8, <1>9 DEF ClientNext

\* The server only adds keys to its WAL.
LEMMA ServerCovers ==
    ASSUME IndInv, QueueCovers,
           (\E x \in Conn : ServerNext(x)) \/ ServerRestart \/ UNCHANGED vars
    PROVE  QueueCovers'
<1>1. UNCHANGED <<sendQ, sqFile, acked, unacked>>
  BY DEF ServerNext, Join, StreamNext, HandleWal, SendAck, PlayerLost, PlayerGone,
     ServerRestart, vars, clientVars, history
<1>2. Keys(swal) \subseteq Keys(swal')
  <2>1. CASE swal' = swal
    BY <2>1
  <2>2. CASE \E x \in Conn : HandleWal(x)
    <3>1. PICK x \in Conn : HandleWal(x)
      BY <2>2
    <3>2. Head(c2s[x]) \in Entry /\ swal \in Seq(Entry)
          /\ swal' = WalAppend(swal, Head(c2s[x]))
      BY <3>1 DEF HandleWal, IndInv, TypeInv, TypeOK
    <3> QED
      BY <3>2, WalAppendGrows
  <2> QED
    BY <2>1, <2>2 DEF ServerNext, Join, StreamNext, SendAck, PlayerLost, PlayerGone,
       ServerRestart, vars
<1>3. \A c \in Client : CoversOf(c)'
  BY <1>1, <1>2, CoversForm, CoversGrows DEF CoversOf
<1> QED
  BY <1>3, CoversForm2

-----------------------------------------------------------------------------
\* An entry that was acknowledged to its game is in the server's WAL, or in
\* the send queue and its file, provided SendQueue.Add never fails: newWalEntry
\* does not look at its result.
THEOREM NoLostEntryCorrect ==
    ASSUME ~AddMayFail
    PROVE  Spec => []NoLostEntry
<1>1. Init => QueueCovers
  BY DEF Init, QueueCovers
<1>2. IndInv /\ QueueCovers /\ [Next]_vars => QueueCovers'
  BY ClientCovers, ServerCovers DEF Next
<1>3. IndInv /\ QueueCovers => NoLostEntry
  <2> SUFFICES ASSUME IndInv, QueueCovers, NEW c \in Client, NEW k \in acked[c]
               PROVE  \/ k \in Keys(swal)
                      \/ \E e \in sendQ[c] \cap sqFile[c] : DedupKey(e) = k
    BY DEF NoLostEntry
  <2>1. k # NoKey
    BY ConstantsAssumption DEF IndInv, TypeInv, TypeOK
  <2> QED
    BY <2>1 DEF QueueCovers
<1> QED
  BY <1>1, <1>2, <1>3, Invariance, PTL DEF Spec

-----------------------------------------------------------------------------
(***************************************************************************)
(* Fourth part: Replication implements SharedLog.                          *)
(*                                                                         *)
(* The second part says that what a client appends is the next entry of    *)
(* the server's log.  What is left is that nothing makes up an entry:      *)
(* whatever is on its way to the server was handed over by a game.         *)
(***************************************************************************)

\* The queues and files between a game and the server's log hold entries the
\* game handed over.
Sourced ==
    /\ \A c \in Client :
         /\ sendQ[c] \subseteq submitted
         /\ sqFile[c] \subseteq submitted
         /\ pending[c] \subseteq submitted
         /\ uplinkOut[c] \in Seq(submitted)
         /\ unacked[c] # NoKey => [key |-> unacked[c], player |-> c] \in submitted
    /\ \A x \in Conn : c2s[x] \in Seq(submitted)

\* A longer history keeps a queue.
LEMMA SeqGrows ==
    ASSUME NEW S, NEW T, S \subseteq T, NEW q \in Seq(S)
    PROVE  q \in Seq(T)
<1>1. Len(q) \in Nat /\ q \in [1..Len(q) -> S]
  OBVIOUS
<1>2. q \in [1..Len(q) -> T]
  BY <1>1
<1> QED
  BY <1>1, <1>2

\* The head and the tail of a queue, the empty one, and one with an entry more.
LEMMA SeqParts ==
    ASSUME NEW S, NEW q \in Seq(S)
    PROVE  /\ q # <<>> => Head(q) \in S /\ Tail(q) \in Seq(S)
           /\ <<>> \in Seq(S)
OBVIOUS

LEMMA SeqAppend ==
    ASSUME NEW S, NEW q \in Seq(S), NEW e \in S
    PROVE  Append(q, e) \in Seq(S)
OBVIOUS

\* The parts of Sourced, for variables that shrink or stay: how every action
\* but NewWalEntry keeps it.
LEMMA SourcedKept ==
    ASSUME TypeInv, Sourced, submitted' = submitted,
           \A c \in Client :
               /\ sendQ'[c] \subseteq sendQ[c] \cup sqFile[c]
               /\ sqFile'[c] \subseteq sqFile[c]
               /\ pending'[c] \subseteq pending[c] \cup sendQ[c]
               /\ uplinkOut'[c] \in Seq(submitted)
               /\ unacked'[c] \in {unacked[c], NoKey},
           \A x \in Conn : c2s'[x] \in Seq(submitted)
    PROVE  Sourced'
BY DEF Sourced

\* The client side hands on what it was given.
LEMMA ClientSourced ==
    ASSUME TypeInv, Sourced, NEW c \in Client, ClientNext(c)
    PROVE  Sourced'
<1> USE ConstantsAssumption
<1>0. /\ sendQ \in [Client -> SUBSET Entry] /\ sqFile \in [Client -> SUBSET Entry]
      /\ pending \in [Client -> SUBSET Entry]
      /\ uplinkOut \in [Client -> Seq(Entry)]
      /\ unacked \in [Client -> Key \cup {NoKey}]
      /\ cur \in [Client -> Conn \cup {NoConn}]
      /\ c2s \in [Conn -> Seq(Entry)]
      /\ phase[c] # "idle" => cur[c] \in Conn
  BY DEF TypeInv, TypeOK, LinkType
<1>1. CASE \E k \in GameKeys[c] : NewWalEntry(c, k)
  <2>1. PICK k \in GameKeys[c] : NewWalEntry(c, k)
    BY <1>1
  <2> DEFINE e == [key |-> k, player |-> c]
  <2>2. /\ SendQueueAdd(c, e) \/ SendQueueAddFails(c, e)
        /\ TrySendUplink(c, e)
        /\ submitted' = submitted \cup {e}
        /\ unacked' = [unacked EXCEPT ![c] = k]
        /\ UNCHANGED <<pending, c2s>>
    BY <2>1 DEF NewWalEntry
  <2>3. e.key = k /\ e.player = c
    OBVIOUS
  <2> HIDE DEF e
  <2>4. \A d \in Client : /\ sendQ'[d] \subseteq submitted'
                          /\ sqFile'[d] \subseteq submitted'
                          /\ pending'[d] \subseteq submitted'
    <3>1. \A d \in Client : /\ sendQ'[d] \subseteq sendQ[d] \cup {e}
                            /\ sqFile'[d] \subseteq sqFile[d] \cup {e}
                            /\ pending'[d] = pending[d]
      BY <1>0, <2>2 DEF SendQueueAdd, SendQueueAddFails
    <3> QED
      BY <3>1, <2>2 DEF Sourced
  <2>5. \A d \in Client : uplinkOut'[d] \in Seq(submitted')
    <3>1. \A d \in Client : uplinkOut[d] \in Seq(submitted')
      BY <2>2, SeqGrows DEF Sourced
    <3>2. \A d \in Client : uplinkOut'[d] \in {uplinkOut[d], Append(uplinkOut[d], e)}
      BY <1>0, <2>2 DEF TrySendUplink
    <3>3. e \in submitted'
      BY <2>2
    <3>4. \A d \in Client : Append(uplinkOut[d], e) \in Seq(submitted')
      BY <3>1, <3>3, SeqAppend
    <3> QED
      BY <3>1, <3>2, <3>4
  <2>6. \A x \in Conn : c2s'[x] \in Seq(submitted')
    BY <2>2, SeqGrows DEF Sourced
  <2>7. \A d \in Client : unacked'[d] # NoKey =>
            [key |-> unacked'[d], player |-> d] \in submitted'
    <3>1. CASE TRUE
      <4> TAKE d \in Client
      <4>1. CASE d = c
        BY <4>1, <1>0, <2>2 DEF e
      <4>2. CASE d # c
        BY <4>2, <1>0, <2>2 DEF Sourced
      <4> QED
        BY <4>1, <4>2
    <3> QED
      BY <3>1
  <2> QED
    BY <2>4, <2>5, <2>6, <2>7 DEF Sourced
<1>2. CASE AckGame(c)
  BY <1>2, <1>0, SourcedKept DEF AckGame, Sourced
<1>3. CASE TakePending(c) \/ SendPending(c)
  <2>1. /\ UNCHANGED <<submitted, sendQ, sqFile, unacked, c2s>>
        /\ \A d \in Client : pending'[d] \subseteq pending[d] \cup sendQ[d]
    <3>1. CASE TakePending(c)
      BY <3>1, <1>0 DEF TakePending, history
    <3>2. CASE SendPending(c)
      BY <3>2, <1>0 DEF SendPending, history
    <3> QED
      BY <1>3, <3>1, <3>2
  <2>2. \A d \in Client : uplinkOut'[d] \in Seq(submitted)
    <3>1. CASE TakePending(c)
      BY <3>1 DEF TakePending, Sourced
    <3>2. CASE SendPending(c)
      <4>1. PICK e \in pending[c] : uplinkOut' = [uplinkOut EXCEPT ![c] = Append(@, e)]
        BY <3>2 DEF SendPending
      <4>2. e \in submitted
        BY <4>1 DEF Sourced
      <4> QED
        BY <4>1, <4>2, <1>0, SeqAppend DEF Sourced
    <3> QED
      BY <1>3, <3>1, <3>2
  <2> QED
    BY <2>1, <2>2, SourcedKept DEF Sourced
<1>4. CASE (\E x \in Conn : Dial(c, x)) \/ HelloReply(c)
  <2>1. /\ UNCHANGED <<submitted, sendQ, sqFile, unacked, pending, c2s>>
        /\ \A d \in Client : uplinkOut'[d] \in {uplinkOut[d], <<>>}
    BY <1>4, <1>0 DEF Dial, HelloReply, clientVars, history
  <2>2. \A d \in Client : uplinkOut'[d] \in Seq(submitted)
    BY <2>1, SeqParts DEF Sourced
  <2> QED
    BY <2>1, <2>2, SourcedKept DEF Sourced
<1>5. CASE PumpOut(c)
  <2>1. /\ UNCHANGED <<submitted, sendQ, sqFile, unacked, pending>>
        /\ uplinkOut' = [uplinkOut EXCEPT ![c] = Tail(@)]
        /\ uplinkOut[c] # <<>>
        /\ phase[c] # "idle"
        /\ \/ c2s' = [c2s EXCEPT ![cur[c]] = Append(@, Head(uplinkOut[c]))]
           \/ UNCHANGED c2s
    BY <1>5 DEF PumpOut, history
  <2>2. /\ Head(uplinkOut[c]) \in submitted
        /\ Tail(uplinkOut[c]) \in Seq(submitted)
    BY <2>1, SeqParts DEF Sourced
  <2>3. \A d \in Client : uplinkOut'[d] \in Seq(submitted)
    BY <2>1, <2>2, <1>0 DEF Sourced
  <2>4. \A x \in Conn : c2s'[x] \in {c2s[x], Append(c2s[x], Head(uplinkOut[c]))}
    BY <2>1, <1>0
  <2>5. \A x \in Conn : c2s'[x] \in Seq(submitted)
    <3>1. \A x \in Conn : /\ c2s[x] \in Seq(submitted)
                          /\ Append(c2s[x], Head(uplinkOut[c])) \in Seq(submitted)
      BY <2>2, SeqAppend DEF Sourced
    <3> QED
      BY <3>1, <2>4
  <2> QED
    BY <2>1, <2>3, <2>5, SourcedKept
<1>6. CASE PumpIn(c)
  BY <1>6, SourcedKept DEF PumpIn, history, Sourced
<1>7. CASE HandleServerWal(c) \/ HandleServerAck(c)
  <2>1. /\ UNCHANGED <<submitted, unacked, pending, uplinkOut, c2s>>
        /\ \E k : SendQueueAck(c, k)
    BY <1>7 DEF HandleServerWal, HandleServerAck, history
  <2>2. \A d \in Client : sendQ'[d] \subseteq sendQ[d] /\ sqFile'[d] \subseteq sqFile[d]
    BY <2>1, <1>0 DEF SendQueueAck, AckedQueue
  <2> QED
    BY <2>1, <2>2, SourcedKept DEF Sourced
<1>8. CASE HandleServerWalFails(c) \/ LinkLost(c) \/ LinkClosed(c)
  <2>1. UNCHANGED <<submitted, unacked, sendQ, sqFile, pending, uplinkOut, c2s>>
    BY <1>8 DEF HandleServerWalFails, LinkLost, LinkClosed, clientVars, history
  <2> QED
    BY <2>1, SourcedKept DEF Sourced
<1>9. CASE Restart(c) \/ CrashBeforeAck(c)
  <2>1. /\ UNCHANGED <<submitted, sqFile, c2s>>
        /\ sendQ' = [sendQ EXCEPT ![c] = sqFile[c]]
        /\ pending' = [pending EXCEPT ![c] = {}]
        /\ unacked' = [unacked EXCEPT ![c] = NoKey]
        /\ uplinkOut' = [uplinkOut EXCEPT ![c] = <<>>]
    BY <1>9 DEF Restart, CrashBeforeAck, LoseMemory, history
  <2>2. \A d \in Client : /\ uplinkOut'[d] \in {uplinkOut[d], <<>>}
                          /\ sendQ'[d] \subseteq sendQ[d] \cup sqFile[d]
                          /\ pending'[d] \subseteq pending[d]
                          /\ unacked'[d] \in {unacked[d], NoKey}
    BY <2>1, <1>0
  <2>3. \A d \in Client : uplinkOut'[d] \in Seq(submitted)
    BY <2>2, SeqParts DEF Sourced
  <2> QED
    BY <2>1, <2>2, <2>3, SourcedKept DEF Sourced
<1> QED
  BY <1>1, <1>2, <1>3, <1>4, <1>5, <1>6, <1>7, <1>8, <1>9 DEF ClientNext

\* The server side only takes from the connections.
LEMMA SourcedStep == TypeInv /\ Sourced /\ [Next]_vars => Sourced'
<1> SUFFICES ASSUME TypeInv, Sourced, [Next]_vars
             PROVE  Sourced'
  OBVIOUS
<1>0. \A x \in Conn : c2s[x] \in Seq(submitted) /\ c2s \in [Conn -> Seq(Entry)]
  BY DEF Sourced, TypeInv, TypeOK
<1>1. ASSUME UNCHANGED <<submitted, sendQ, sqFile, pending, uplinkOut, unacked>>,
             \A x \in Conn : c2s'[x] \in Seq(submitted)
      PROVE  Sourced'
  BY <1>1, SourcedKept DEF Sourced
<1>2. ASSUME NEW c \in Client, ClientNext(c) PROVE Sourced'
  BY <1>2, ClientSourced
<1>3. ASSUME NEW x \in Conn, ServerNext(x) PROVE Sourced'
  <2>1. UNCHANGED <<submitted, sendQ, sqFile, pending, uplinkOut, unacked>>
    BY <1>3 DEF ServerNext, Join, StreamNext, HandleWal, SendAck, PlayerLost,
       PlayerGone, clientVars, history
  <2>2. CASE HandleWal(x)
    <3>1. Tail(c2s[x]) \in Seq(submitted)
      BY <2>2, <1>0, SeqParts DEF HandleWal
    <3>2. \A y \in Conn : c2s'[y] \in Seq(submitted)
      BY <2>2, <3>1, <1>0 DEF HandleWal
    <3> QED
      BY <3>2, <2>1, <1>1
  <2>3. CASE PlayerLost(x) \/ PlayerGone(x)
    <3>1. c2s' = [c2s EXCEPT ![x] = <<>>]
      BY <2>3 DEF PlayerLost, PlayerGone, ServerClose
    <3>2. \A y \in Conn : c2s'[y] \in Seq(submitted)
      BY <3>1, <1>0, SeqParts
    <3> QED
      BY <3>2, <2>1, <1>1
  <2>4. CASE Join(x) \/ StreamNext(x) \/ SendAck(x)
    BY <2>4, <2>1, <1>0, <1>1 DEF Join, StreamNext, SendAck
  <2> QED
    BY <1>3, <2>2, <2>3, <2>4 DEF ServerNext
<1>4. CASE ServerRestart
  <2>1. \A x \in Conn : c2s'[x] \in Seq(submitted)
    BY <1>4, <1>0, SeqParts DEF ServerRestart
  <2> QED
    BY <2>1, <1>4, <1>1 DEF ServerRestart, clientVars, history
<1>5. CASE UNCHANGED vars
  BY <1>0, <1>1, <1>5 DEF vars
<1> QED
  BY <1>2, <1>3, <1>4, <1>5 DEF Next

-----------------------------------------------------------------------------
\* The variables of SharedLog, under the refinement mapping.
sharedState == <<swal, cwal, submitted, acked>>

\* WAL.Append by a client: nothing, or the next entry of the server's log.
LEMMA LearnStep ==
    ASSUME IndInv, NEW c \in Client, phase[c] = "up", uplinkIn[c] # <<>>,
           Head(uplinkIn[c]).op = "wal",
           cwal' = [cwal EXCEPT ![c] = WalAppend(@, Head(uplinkIn[c]).entry)],
           UNCHANGED <<swal, submitted, acked>>
    PROVE  Shared!Learn(c) \/ UNCHANGED sharedState
<1> DEFINE e == Head(uplinkIn[c]).entry
<1>1. /\ cwal \in [Client -> Seq(Entry)] /\ swal \in Seq(Entry)
      /\ Head(uplinkIn[c]) \in Packet
  BY DEF IndInv, TypeInv, TypeOK
<1>2. e \in Entry
  BY <1>1 DEF Packet, HelloPacket
<1>3. PrefixOf(WalAppend(cwal[c], e), swal)
  BY HeadInOrder DEF IndInv
<1> HIDE DEF e
<1>4. CASE DedupKey(e) \in Keys(cwal[c])
  BY <1>4, <1>1 DEF WalAppend, sharedState, e
<1>5. CASE DedupKey(e) \notin Keys(cwal[c])
  <2>1. WalAppend(cwal[c], e) = Append(cwal[c], e)
    BY <1>5 DEF WalAppend
  <2>2. /\ Len(Append(cwal[c], e)) = Len(cwal[c]) + 1
        /\ Append(cwal[c], e)[Len(cwal[c]) + 1] = e
        /\ Len(cwal[c]) \in Nat /\ Len(swal) \in Nat
    BY <1>1, <1>2
  <2>3. Len(cwal[c]) < Len(swal) /\ e = swal[Len(cwal[c]) + 1]
    BY <1>3, <2>1, <2>2 DEF PrefixOf
  <2>4. cwal' = [cwal EXCEPT ![c] = Append(cwal[c], swal[Len(cwal[c]) + 1])]
    BY <2>1, <2>3, <1>1 DEF e
  <2> QED
    BY <2>3, <2>4 DEF Shared!Learn
<1> QED
  BY <1>4, <1>5

\* WAL.Append by the server: nothing, or an entry of a game with a new key.
LEMMA CommitStepShared ==
    ASSUME TypeInv, Sourced, NEW x \in Conn, HandleWal(x)
    PROVE  Shared!Commit \/ UNCHANGED sharedState
<1>1. /\ Head(c2s[x]) \in submitted
      /\ swal' = WalAppend(swal, Head(c2s[x]))
      /\ UNCHANGED <<cwal, submitted, acked>>
  <2>1. c2s[x] \in Seq(submitted) /\ c2s[x] # <<>>
    BY DEF Sourced, HandleWal
  <2> QED
    BY <2>1, SeqParts DEF HandleWal, clientVars, history
<1>2. Shared!LogKeys = Keys(swal)
  BY DEF Shared!LogKeys, Keys, DedupKey
<1> QED
  BY <1>1, <1>2 DEF WalAppend, DedupKey, Shared!Commit, sharedState

\* Every step of Replication is one of SharedLog, or leaves its variables.
LEMMA SharedStep ==
    IndInv /\ Sourced /\ [Next]_vars => Shared!Next \/ UNCHANGED sharedState
<1> SUFFICES ASSUME IndInv, Sourced, [Next]_vars
             PROVE  Shared!Next \/ UNCHANGED sharedState
  OBVIOUS
<1> USE ConstantsAssumption
<1>1. ASSUME NEW c \in Client, ClientNext(c)
      PROVE  Shared!Next \/ UNCHANGED sharedState
  <2>1. CASE \E k \in GameKeys[c] : NewWalEntry(c, k)
    <3>1. PICK k \in GameKeys[c] : NewWalEntry(c, k)
      BY <2>1
    <3>2. k \in Key
      OBVIOUS
    <3>3. Shared!Submit(c, k)
      BY <3>1 DEF NewWalEntry, Shared!Submit
    <3> QED
      BY <3>2, <3>3 DEF Shared!Next
  <2>2. CASE AckGame(c)
    <3>1. unacked[c] \in Key
      BY <2>2 DEF AckGame, IndInv, TypeInv, TypeOK
    <3>2. Shared!Acknowledge(c, unacked[c])
      BY <2>2 DEF AckGame, Sourced, Shared!Acknowledge
    <3> QED
      BY <3>1, <3>2 DEF Shared!Next
  <2>3. CASE HandleServerWal(c)
    <3>1. Shared!Learn(c) \/ UNCHANGED sharedState
      BY <2>3, LearnStep DEF HandleServerWal, serverVars, history
    <3> QED
      BY <3>1 DEF Shared!Next
  <2>4. CASE CrashBeforeAck(c)
    <3>1. Shared!Learn(c) \/ UNCHANGED sharedState
      BY <2>4, LearnStep DEF CrashBeforeAck, LoseMemory, serverVars, history
    <3> QED
      BY <3>1 DEF Shared!Next
  <2>5. CASE \/ TakePending(c) \/ SendPending(c) \/ PumpOut(c) \/ PumpIn(c)
             \/ (\E x \in Conn : Dial(c, x)) \/ HelloReply(c)
    BY <2>5 DEF TakePending, SendPending, PumpOut, PumpIn, Dial, HelloReply,
       clientVars, serverVars, history, sharedState
  <2>6. CASE \/ HandleServerAck(c) \/ HandleServerWalFails(c) \/ LinkLost(c)
             \/ LinkClosed(c) \/ Restart(c)
    BY <2>6 DEF HandleServerAck, HandleServerWalFails, LinkLost, LinkClosed,
       Restart, LoseMemory, clientVars, serverVars, history, sharedState
  <2> QED
    BY <1>1, <2>1, <2>2, <2>3, <2>4, <2>5, <2>6 DEF ClientNext
<1>2. ASSUME NEW x \in Conn, ServerNext(x)
      PROVE  Shared!Next \/ UNCHANGED sharedState
  <2>1. CASE HandleWal(x)
    BY <2>1, CommitStepShared DEF IndInv, Shared!Next
  <2> QED
    BY <1>2, <2>1 DEF ServerNext, Join, StreamNext, SendAck, PlayerLost,
       PlayerGone, clientVars, history, sharedState
<1>3. CASE ServerRestart
  BY <1>3 DEF ServerRestart, clientVars, history, sharedState
<1>4. CASE UNCHANGED vars
  BY <1>4 DEF vars, sharedState
<1> QED
  BY <1>1, <1>2, <1>3, <1>4 DEF Next

\* Replication implements SharedLog, for every number of clients, connections
\* and faults, whether SendQueue.Add fails or not: the server appends exactly
\* entries the games handed over, each key once, and a client exactly the next
\* entry of the server's log, whatever connections, crashes and retries do to
\* the packets in between.
THEOREM SharedLogImplemented == Spec => ImplementsSharedLog
<1>1. Init => Shared!Init /\ Sourced
  <2> SUFFICES ASSUME Init PROVE Shared!Init /\ Sourced
    OBVIOUS
  <2>1. Shared!Init
    BY DEF Init, Shared!Init
  <2>2. Sourced
    BY SeqParts DEF Init, Sourced
  <2> QED
    BY <2>1, <2>2
<1>2. TypeInv /\ Sourced /\ [Next]_vars => Sourced'
  BY SourcedStep
<1>3. IndInv => TypeInv
  BY DEF IndInv
<1>4. Spec => []IndInv
  BY Invariance
<1>5. IndInv /\ Sourced /\ [Next]_vars => [Shared!Next]_(Shared!sharedVars)
  BY SharedStep DEF sharedState, Shared!sharedVars
<1> QED
  BY <1>1, <1>2, <1>3, <1>4, <1>5, PTL DEF Spec, ImplementsSharedLog, Shared!Spec
=============================================================================
