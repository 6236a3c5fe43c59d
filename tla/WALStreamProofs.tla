-------------------------- MODULE WALStreamProofs --------------------------
(***************************************************************************)
(* The streams of a WAL: the proofs.                                       *)
(*                                                                         *)
(* SentInOrder looks back at what went into Player.out.  It is inductive   *)
(* together with where the stream stands: between two packets its index is *)
(* the one after the last entry sent, and a packet that waits for room in  *)
(* Player.out is the entry just before the index.                          *)
(***************************************************************************)
EXTENDS WALStream, TLAPS

\* Where a stream stands: its index and Player.WalIndex agree, so that the
\* check of handleWalStream never drops an entry.
Standing(s) ==
    /\ index[s] <= Len(entries)
    /\ pc[s] = "off" => sent[s] = <<>>
    /\ pc[s] # "off" => walIndex[s] = index[s]
    /\ pc[s] \in {"notify", "get", "select"} => start[s] + Len(sent[s]) = index[s]
    /\ pc[s] = "send" =>
         /\ start[s] + Len(sent[s]) + 1 = index[s]
         /\ packet[s] = <<index[s] - 1, entries[index[s]]>>

\* SentInOrder for one stream.
SentOK(s) ==
    \A n \in 1..Len(sent[s]) :
        /\ start[s] + n <= Len(entries)
        /\ sent[s][n] = <<start[s] + n - 1, entries[start[s] + n]>>

StreamInv == TypeOK /\ \A s \in Stream : Standing(s) /\ SentOK(s)

-----------------------------------------------------------------------------
(***************************************************************************)
(* The types.                                                              *)
(***************************************************************************)

\* A packet that waits is a packet.
LEMMA PacketType ==
    ASSUME StreamInv, NEW s \in Stream, pc[s] = "send"
    PROVE  packet[s] \in Nat \X Entry
<1>1. index[s] \in 1..Len(entries) /\ packet[s] = <<index[s] - 1, entries[index[s]]>>
  BY DEF StreamInv, TypeOK, Standing
<1>2. entries[index[s]] \in Entry /\ index[s] - 1 \in Nat
  BY <1>1 DEF StreamInv, TypeOK
<1> QED
  BY <1>1, <1>2

\* An index before the end of the log moves on by one and stays in the log.
LEMMA NextIndex ==
    ASSUME TypeOK, NEW s \in Stream, index[s] < Len(entries)
    PROVE  [index EXCEPT ![s] = @ + 1] \in [Stream -> 0..Len(entries)]
<1>1. /\ index \in [Stream -> 0..Len(entries)]
      /\ Len(entries) \in Nat
  BY DEF TypeOK
<1>2. index[s] + 1 \in 0..Len(entries)
  BY <1>1
<1> QED
  BY <1>1, <1>2

LEMMA GotoStep == Goto("notify") = "get" /\ Goto("miss") = "select" /\ Goto("wake") = "notify"
BY DEF Goto

LEMMA StreamTypes ==
    ASSUME StreamInv, NEW s \in Stream, StreamStep(s) PROVE TypeOK'
<1> USE StreamAssumption DEF TypeOK, Step
<1>0. TypeOK
  BY DEF StreamInv
<1>1. CASE ReadNotify(s)
  BY <1>0, <1>1, GotoStep DEF ReadNotify
<1>2. CASE GetEntry(s)
  <2>1. CASE index[s] < Len(entries) /\ index[s] >= walIndex[s]
    <3>1. <<index[s], entries[index[s] + 1]>> \in Nat \X Entry
      BY <1>0, <2>1
    <3>2. /\ index' = [index EXCEPT ![s] = @ + 1]
          /\ walIndex' = [walIndex EXCEPT ![s] = index[s] + 1]
          /\ packet' = [packet EXCEPT ![s] = <<index[s], entries[index[s] + 1]>>]
          /\ pc' = [pc EXCEPT ![s] = "send"]
          /\ UNCHANGED <<entries, notify, ended, ch, start, out, sent, cancelled>>
      BY <1>0, <1>2, <2>1 DEF GetEntry
    <3>3. packet' \in [Stream -> {<<>>} \cup (Nat \X Entry)]
      <4> DEFINE P == {<<>>} \cup (Nat \X Entry)
                 v == <<index[s], entries[index[s] + 1]>>
      <4>1. packet \in [Stream -> P] /\ v \in P
        BY <1>0, <3>1
      <4>2. packet' = [packet EXCEPT ![s] = v]
        BY <3>2
      <4> HIDE DEF P, v
      <4>3. packet' \in [Stream -> P]
        BY <4>1, <4>2
      <4> QED
        BY <4>3 DEF P
    <3>4. index' \in [Stream -> 0..Len(entries')] /\ walIndex' \in [Stream -> Nat]
      <4>1. index' \in [Stream -> 0..Len(entries)]
        BY <1>0, <2>1, <3>2, NextIndex
      <4>2. walIndex' \in [Stream -> Nat]
        BY <1>0, <2>1, <3>2
      <4> QED
        BY <3>2, <4>1, <4>2
    <3>5. pc' \in [Stream -> {"off", "notify", "get", "select", "send", "done"}]
      BY <1>0, <3>2
    <3> QED
      BY <1>0, <3>2, <3>3, <3>4, <3>5
  <2>2. CASE index[s] < Len(entries) /\ index[s] < walIndex[s]
    <3>0. index' = [index EXCEPT ![s] = @ + 1]
      BY <1>2, <2>2 DEF GetEntry
    <3>1. index' \in [Stream -> 0..Len(entries)]
      BY <1>0, <2>2, <3>0, NextIndex
    <3>2. pc' \in [Stream -> {"off", "notify", "get", "select", "send", "done"}]
      BY <1>0, <1>2, <2>2 DEF GetEntry
    <3>3. UNCHANGED <<walIndex, packet, entries, notify, ended, ch, start, out, sent, cancelled>>
      BY <1>0, <1>2, <2>2 DEF GetEntry
    <3> QED
      BY <1>0, <3>1, <3>2, <3>3
  <2>3. CASE ~(index[s] < Len(entries))
    BY <1>0, <1>2, <2>3, GotoStep DEF GetEntry
  <2>4. index[s] \in Nat /\ walIndex[s] \in Nat
    BY <1>0
  <2>5. \/ index[s] < Len(entries) /\ index[s] >= walIndex[s]
        \/ index[s] < Len(entries) /\ index[s] < walIndex[s]
        \/ ~(index[s] < Len(entries))
    BY <2>4
  <2> QED
    BY <2>1, <2>2, <2>3, <2>5
<1>3. CASE Wake(s)
  BY <1>0, <1>3, GotoStep DEF Wake
<1>4. CASE EndStream(s)
  BY <1>0, <1>4 DEF EndStream
<1>5. CASE Send(s)
  <2>1. Append(sent[s], packet[s]) \in Seq(Nat \X Entry)
    BY <1>0, <1>5, PacketType DEF Send
  <2>2. sent' \in [Stream -> Seq(Nat \X Entry)]
    BY <1>0, <1>5, <2>1 DEF Send
  <2>3. out' \in [Stream -> 0..OutCap]
    BY <1>0, <1>5 DEF Send
  <2> QED
    BY <1>0, <1>5, <2>2, <2>3 DEF Send
<1>6. CASE SendAbandoned(s)
  BY <1>0, <1>6 DEF SendAbandoned
<1> QED
  BY <1>1, <1>2, <1>3, <1>4, <1>5, <1>6 DEF StreamStep

LEMMA TypeStep == StreamInv /\ [Next]_streamVars => TypeOK'
<1> SUFFICES ASSUME StreamInv, [Next]_streamVars PROVE TypeOK'
  OBVIOUS
<1> USE StreamAssumption DEF TypeOK, Step
<1>0. TypeOK
  BY DEF StreamInv
<1>1. ASSUME NEW e \in Entry, AppendEntry(e) PROVE TypeOK'
  <2>1. Append(entries, e) \in Seq(Entry) /\ notify + 1 \in Nat
    BY <1>0
  <2>2. entries' = Append(entries, e) /\ notify' = notify + 1
    BY <1>1 DEF AppendEntry
  <2>3. UNCHANGED <<ended, pc, ch, index, start, walIndex, packet, out, sent, cancelled>>
    BY <1>1 DEF AppendEntry
  <2>4. index' \in [Stream -> 0..Len(entries')]
    <3>1. Len(entries') = Len(entries) + 1 /\ Len(entries) \in Nat
      BY <1>0, <2>2
    <3>2. 0..Len(entries) \subseteq 0..Len(entries')
      BY <3>1
    <3> QED
      BY <1>0, <2>3, <3>2
  <2> QED
    BY <1>0, <2>1, <2>2, <2>3, <2>4
<1>2. ASSUME NEW s \in Stream, NEW i \in 0..Len(entries), Subscribe(s, i) PROVE TypeOK'
  <2>1. /\ index' = [index EXCEPT ![s] = i] /\ start' = [start EXCEPT ![s] = i]
        /\ walIndex' = [walIndex EXCEPT ![s] = i] /\ i \in Nat
    BY <1>2 DEF Subscribe
  <2>2. /\ index' \in [Stream -> 0..Len(entries)] /\ start' \in [Stream -> Nat]
        /\ walIndex' \in [Stream -> Nat]
    BY <1>0, <2>1
  <2>3. pc' \in [Stream -> {"off", "notify", "get", "select", "send", "done"}]
    BY <1>0, <1>2 DEF Subscribe
  <2>4. UNCHANGED <<entries, notify, ended, ch, packet, out, sent, cancelled>>
    BY <1>2 DEF Subscribe
  <2> QED
    BY <1>0, <2>2, <2>3, <2>4
<1>3. ASSUME NEW s \in Stream, TakeOut(s) PROVE TypeOK'
  <2>1. out' \in [Stream -> 0..OutCap]
    BY <1>0, <1>3 DEF TakeOut
  <2>2. UNCHANGED <<entries, notify, ended, pc, ch, index, start, walIndex, packet, sent, cancelled>>
    BY <1>3 DEF TakeOut
  <2> QED
    BY <1>0, <2>1, <2>2
<1>4. ASSUME NEW s \in Stream, CancelPlayer(s) PROVE TypeOK'
  BY <1>0, <1>4 DEF CancelPlayer
<1>5. CASE EndSession
  BY <1>0, <1>5 DEF EndSession
<1>6. CASE UNCHANGED streamVars
  BY <1>0, <1>6 DEF streamVars
<1> QED
  BY <1>1, <1>2, <1>3, <1>4, <1>5, <1>6, StreamTypes DEF Next

-----------------------------------------------------------------------------
(***************************************************************************)
(* What is sent.                                                           *)
(***************************************************************************)

\* A log that grows leaves a stream where it stands.
LEMMA GrowStep ==
    ASSUME StreamInv, NEW e \in Entry, AppendEntry(e), NEW s \in Stream
    PROVE  Standing(s)' /\ SentOK(s)'
<1>1. /\ Len(entries') = Len(entries) + 1
      /\ \A i \in 1..Len(entries) : entries'[i] = entries[i]
      /\ Len(entries) \in Nat
  BY DEF StreamInv, TypeOK, AppendEntry
<1>2. UNCHANGED <<pc, index, start, walIndex, packet, sent>>
  BY DEF AppendEntry
<1>3. index[s] \in Nat /\ start[s] \in Nat /\ Len(sent[s]) \in Nat
  BY DEF StreamInv, TypeOK
<1>4. Standing(s) /\ SentOK(s)
  BY DEF StreamInv
<1>5. Standing(s)'
  <2>1. pc[s] = "send" => index[s] \in 1..Len(entries)
    BY <1>1, <1>3, <1>4 DEF Standing
  <2>2. pc[s] = "send" => entries'[index[s]] = entries[index[s]]
    BY <1>1, <2>1
  <2>3. index[s] <= Len(entries')
    BY <1>1, <1>3, <1>4 DEF Standing
  <2> QED
    BY <1>2, <1>4, <2>2, <2>3 DEF Standing
<1>6. ASSUME NEW n \in 1..Len(sent[s])
      PROVE  /\ start[s] + n <= Len(entries')
             /\ sent[s][n] = <<start[s] + n - 1, entries'[start[s] + n]>>
  <2>1. start[s] + n <= Len(entries) /\ sent[s][n] = <<start[s] + n - 1, entries[start[s] + n]>>
    BY <1>4 DEF SentOK
  <2>2. start[s] + n \in 1..Len(entries)
    BY <1>1, <1>3, <2>1
  <2>3. start[s] + n <= Len(entries') /\ entries'[start[s] + n] = entries[start[s] + n]
    BY <1>1, <2>2
  <2> QED
    BY <2>1, <2>3
<1>7. SentOK(s)'
  BY <1>2, <1>6 DEF SentOK
<1> QED
  BY <1>5, <1>7

\* What Append leaves in a sequence.
LEMMA Appended ==
    ASSUME NEW S, NEW q \in Seq(S), NEW v \in S
    PROVE  /\ Len(Append(q, v)) = Len(q) + 1
           /\ \A n \in 1..Len(q) : Append(q, v)[n] = q[n]
           /\ Append(q, v)[Len(q) + 1] = v
OBVIOUS

\* Player.Send puts the entry after the last one into Player.out.
LEMMA SendStep ==
    ASSUME StreamInv, NEW s \in Stream, Send(s)
    PROVE  Standing(s)' /\ SentOK(s)'
<1> DEFINE len == Len(sent[s])
           i == index[s]
<1>1. sent[s] \in Seq(Nat \X Entry) /\ packet[s] \in Nat \X Entry
  BY PacketType DEF StreamInv, TypeOK, Send
<1>2. i \in Nat /\ start[s] \in Nat /\ Len(entries) \in Nat /\ len \in Nat
  BY <1>1 DEF StreamInv, TypeOK
<1>3. start[s] + len + 1 = i /\ i <= Len(entries) /\ walIndex[s] = i
  BY DEF StreamInv, Standing, Send
<1>4. packet[s] = <<i - 1, entries[i]>>
  BY DEF StreamInv, Standing, Send
<1>5. /\ sent'[s] = Append(sent[s], packet[s])
      /\ pc'[s] \in {"done", "notify"}
      /\ UNCHANGED <<entries, index, start, walIndex>>
  BY DEF StreamInv, TypeOK, Send
<1>6. /\ Len(sent'[s]) = len + 1
      /\ \A n \in 1..len : sent'[s][n] = sent[s][n]
      /\ sent'[s][len + 1] = packet[s]
  BY <1>1, <1>5, Appended
<1>7. Standing(s)'
  <2>1. start[s] + Len(sent'[s]) = i
    BY <1>2, <1>3, <1>6
  <2> QED
    BY <1>3, <1>5, <2>1 DEF Standing
<1>8. ASSUME NEW n \in 1..(len + 1)
      PROVE  /\ start[s] + n <= Len(entries)
             /\ sent'[s][n] = <<start[s] + n - 1, entries[start[s] + n]>>
  <2>1. CASE n \in 1..len
    <3>1. SentOK(s)
      BY DEF StreamInv
    <3> QED
      BY <1>6, <2>1, <3>1 DEF SentOK
  <2>2. CASE n = len + 1
    <3>1. start[s] + n = i
      BY <1>2, <1>3, <2>2
    <3>2. sent'[s][n] = <<i - 1, entries[i]>>
      BY <1>4, <1>6, <2>2
    <3>3. i <= Len(entries)
      BY <1>3
    <3>4. start[s] + n <= Len(entries)
      BY <3>1, <3>3
    <3>5. <<start[s] + n - 1, entries[start[s] + n]>> = <<i - 1, entries[i]>>
      <4>1. start[s] + n - 1 = i - 1
        BY <1>2, <2>2, <3>1
      <4>2. entries[start[s] + n] = entries[i]
        BY <3>1
      <4> QED
        BY <4>1, <4>2, Zenon
    <3> QED
      BY <3>2, <3>4, <3>5
  <2> QED
    BY <1>2, <2>1, <2>2
<1>9. SentOK(s)'
  BY <1>5, <1>6, <1>8 DEF SentOK
<1> QED
  BY <1>7, <1>9

\* The other steps of a stream send nothing.
LEMMA QuietStep ==
    ASSUME StreamInv, NEW s \in Stream,
           \/ \E i \in 0..Len(entries) : Subscribe(s, i)
           \/ ReadNotify(s) \/ GetEntry(s) \/ Wake(s) \/ EndStream(s) \/ SendAbandoned(s)
    PROVE  Standing(s)' /\ SentOK(s)'
<1>0. /\ TypeOK
      /\ index[s] \in Nat /\ start[s] \in Nat /\ walIndex[s] \in Nat
      /\ Len(sent[s]) \in Nat /\ Len(entries) \in Nat
      /\ Standing(s) /\ SentOK(s)
  <2>1. TypeOK /\ Standing(s) /\ SentOK(s)
    BY DEF StreamInv
  <2>2. /\ index[s] \in Nat /\ start[s] \in Nat /\ walIndex[s] \in Nat
        /\ sent[s] \in Seq(Nat \X Entry) /\ Len(entries) \in Nat
    BY <2>1 DEF TypeOK
  <2> QED
    BY <2>1, <2>2
<1>1. CASE \E i \in 0..Len(entries) : Subscribe(s, i)
  <2>1. PICK i \in 0..Len(entries) : Subscribe(s, i)
    BY <1>1
  <2>2. /\ index'[s] = i /\ start'[s] = i /\ walIndex'[s] = i
        /\ pc'[s] = "notify" /\ sent'[s] = <<>> /\ entries' = entries
    BY <1>0, <2>1 DEF Subscribe, TypeOK, Standing
  <2>3. Len(sent'[s]) = 0
    BY <2>2
  <2> QED
    BY <1>0, <2>2, <2>3 DEF Standing, SentOK
<1>2. CASE ReadNotify(s) \/ Wake(s)
  <2>1. /\ pc[s] \in {"notify", "select"} /\ pc'[s] \in {"get", "notify"}
        /\ UNCHANGED <<entries, index, start, walIndex, packet, sent>>
    BY <1>0, <1>2, GotoStep DEF ReadNotify, Wake, TypeOK
  <2> QED
    BY <1>0, <2>1 DEF Standing, SentOK
<1>3. CASE EndStream(s) \/ SendAbandoned(s)
  <2>1. /\ pc[s] \in {"select", "send"} /\ pc'[s] = "done"
        /\ UNCHANGED <<entries, index, start, walIndex, sent>>
    BY <1>0, <1>3 DEF EndStream, SendAbandoned, TypeOK
  <2> QED
    BY <1>0, <2>1 DEF Standing, SentOK
<1>4. CASE GetEntry(s)
  <2>1. pc[s] = "get" /\ walIndex[s] = index[s] /\ start[s] + Len(sent[s]) = index[s]
        /\ UNCHANGED <<entries, start, sent>>
    BY <1>0, <1>4 DEF GetEntry, Standing
  <2>2. SentOK(s)'
    BY <1>0, <2>1 DEF SentOK
  <2>3. CASE index[s] < Len(entries)
    <3>1. /\ index'[s] = index[s] + 1 /\ walIndex'[s] = index[s] + 1
          /\ packet'[s] = <<index[s], entries[index[s] + 1]>>
          /\ pc'[s] = "send"
      BY <1>0, <1>4, <2>1, <2>3 DEF GetEntry, TypeOK
    <3>2. index'[s] - 1 = index[s] /\ index'[s] <= Len(entries)
      BY <1>0, <2>3, <3>1
    <3>3. packet'[s] = <<index'[s] - 1, entries[index'[s]]>>
      BY <3>1, <3>2
    <3>4. start[s] + Len(sent[s]) + 1 = index'[s]
      BY <1>0, <2>1, <3>1
    <3> QED
      BY <2>1, <2>2, <3>1, <3>2, <3>3, <3>4 DEF Standing
  <2>4. CASE ~(index[s] < Len(entries))
    <3>1. pc'[s] = "select" /\ UNCHANGED <<index, walIndex, packet>>
      BY <1>0, <1>4, <2>4, GotoStep DEF GetEntry, TypeOK
    <3> QED
      BY <1>0, <2>1, <2>2, <3>1 DEF Standing
  <2> QED
    BY <2>3, <2>4
<1> QED
  BY <1>1, <1>2, <1>3, <1>4

\* The steps of one stream leave the others alone.
LEMMA OtherStream ==
    ASSUME StreamInv, NEW s \in Stream, NEW r \in Stream, r # s,
           (\E i \in 0..Len(entries) : Subscribe(s, i)) \/ StreamStep(s)
    PROVE  Standing(r)' /\ SentOK(r)'
<1>1. /\ pc'[r] = pc[r] /\ index'[r] = index[r] /\ start'[r] = start[r]
      /\ walIndex'[r] = walIndex[r] /\ packet'[r] = packet[r] /\ sent'[r] = sent[r]
      /\ entries' = entries
  BY DEF StreamInv, TypeOK, Subscribe, StreamStep, ReadNotify, GetEntry, Wake, EndStream,
     Send, SendAbandoned
<1>2. Standing(r) /\ SentOK(r)
  BY DEF StreamInv
<1> QED
  BY <1>1, <1>2 DEF Standing, SentOK

LEMMA InitInv == Init => StreamInv
<1> SUFFICES ASSUME Init PROVE StreamInv
  OBVIOUS
<1>1. TypeOK
  <2>1. <<>> \in Seq(Entry) /\ <<>> \in Seq(Nat \X Entry)
    OBVIOUS
  <2>2. 0 \in 0..OutCap
    BY StreamAssumption
  <2>3. <<>> \in {<<>>} \cup (Nat \X Entry)
    OBVIOUS
  <2>4. index \in [Stream -> 0..Len(entries)]
    <3>1. Len(entries) = 0 /\ 0 \in 0..0
      BY DEF Init
    <3> QED
      BY <3>1 DEF Init
  <2> QED
    BY <2>1, <2>2, <2>3, <2>4 DEF Init, TypeOK, Step
<1>2. \A s \in Stream : Standing(s) /\ SentOK(s)
  <2> TAKE s \in Stream
  <2>1. sent[s] = <<>> /\ pc[s] = "off" /\ index[s] = 0 /\ entries = <<>>
    BY DEF Init
  <2>2. Len(sent[s]) = 0 /\ Len(entries) = 0
    BY <2>1
  <2> QED
    BY <2>1, <2>2 DEF Standing, SentOK
<1> QED
  BY <1>1, <1>2 DEF StreamInv

LEMMA InvStep == StreamInv /\ [Next]_streamVars => StreamInv'
<1> SUFFICES ASSUME StreamInv, [Next]_streamVars PROVE StreamInv'
  OBVIOUS
<1>1. TypeOK'
  BY TypeStep
<1>2. ASSUME NEW r \in Stream PROVE Standing(r)' /\ SentOK(r)'
  <2>1. CASE UNCHANGED <<entries, pc, index, start, walIndex, packet, sent>>
    BY <2>1 DEF StreamInv, Standing, SentOK
  <2>2. ASSUME NEW s \in Stream,
               (\E i \in 0..Len(entries) : Subscribe(s, i)) \/ StreamStep(s)
        PROVE  Standing(r)' /\ SentOK(r)'
    <3>1. CASE r = s
      BY <2>2, <3>1, SendStep, QuietStep DEF StreamStep
    <3> QED
      BY <2>2, <3>1, OtherStream
  <2>3. ASSUME NEW s \in Stream, TakeOut(s) \/ CancelPlayer(s)
        PROVE  Standing(r)' /\ SentOK(r)'
    BY <2>1, <2>3 DEF TakeOut, CancelPlayer
  <2>4. CASE EndSession \/ UNCHANGED streamVars
    BY <2>1, <2>4 DEF EndSession, streamVars
  <2> QED
    BY <2>2, <2>3, <2>4, GrowStep DEF Next
<1> QED
  BY <1>1, <1>2 DEF StreamInv

-----------------------------------------------------------------------------
\* The types, for any number of streams and any capacity of Player.out.
THEOREM StreamTypesCorrect == Spec => []TypeOK
<1>1. StreamInv => TypeOK
  BY DEF StreamInv
<1> QED
  BY <1>1, InitInv, InvStep, PTL DEF Spec

\* Every player is sent the entries of the log from the index it asked for,
\* each once, without a gap and with its index, for any number of players and
\* any length of the log, however the appends, the ends of contexts and a full
\* Player.out fall between the locks of Next.
THEOREM SentInOrderCorrect == Spec => []SentInOrder
<1>1. StreamInv => SentInOrder
  BY DEF StreamInv, SentOK, SentInOrder
<1> QED
  BY <1>1, InitInv, InvStep, PTL DEF Spec
=============================================================================
