----------------------------- MODULE WALStream -----------------------------
(***************************************************************************)
(* The streams of one WAL: WALStream.Next, and handleWalStream, which      *)
(* calls it and sends every entry to its player.                           *)
(*                                                                         *)
(* Append replaces the notify channel and closes the old one; a stream     *)
(* that found nothing to read waits for its channel to be closed.  Next    *)
(* takes the lock twice, once for the channel and once for the entry, and  *)
(* appends can come between the two.  The channels are numbered: the one   *)
(* with number n is closed once notify has gone past n.                    *)
(***************************************************************************)
EXTENDS Integers, Sequences

CONSTANTS
    Stream,      \* streams: one per player
    Entry,       \* entries
    OutCap,      \* capacity of Player.out
    MaxLen       \* bound on the length of the log

ASSUME StreamAssumption == OutCap \in Nat \ {0} /\ MaxLen \in Nat

VARIABLES
    entries,     \* WAL.entries
    notify,      \* the number of WAL.notify
    ended,       \* is the WAL's context done (session closed, server stops)?
    pc,          \* where the goroutine of each stream stands
    ch,          \* the channel Next has read
    index,       \* WALStream.index
    start,       \* the index the stream was subscribed with
    walIndex,    \* Player.WalIndex
    packet,      \* what handleWalStream is about to send: <<>> or <<index, entry>>
    out,         \* how many packets are in Player.out
    sent,        \* history: what went into Player.out
    cancelled    \* is the player's context done?

streamVars == <<entries, notify, ended, pc, ch, index, start, walIndex, packet,
                out, sent, cancelled>>

Step == {"off", "notify", "get", "select", "send", "done"}

TypeOK ==
    /\ entries \in Seq(Entry)
    /\ notify \in Nat
    /\ ended \in BOOLEAN
    /\ pc \in [Stream -> Step]
    /\ ch \in [Stream -> Nat]
    /\ index \in [Stream -> 0..Len(entries)]
    /\ start \in [Stream -> Nat]
    /\ walIndex \in [Stream -> Nat]
    /\ packet \in [Stream -> {<<>>} \cup (Nat \X Entry)]
    /\ out \in [Stream -> 0..OutCap]
    /\ sent \in [Stream -> Seq(Nat \X Entry)]
    /\ cancelled \in [Stream -> BOOLEAN]

Init ==
    /\ entries = <<>>
    /\ notify = 0
    /\ ended = FALSE
    /\ pc = [s \in Stream |-> "off"]
    /\ ch = [s \in Stream |-> 0]
    /\ index = [s \in Stream |-> 0]
    /\ start = [s \in Stream |-> 0]
    /\ walIndex = [s \in Stream |-> 0]
    /\ packet = [s \in Stream |-> <<>>]
    /\ out = [s \in Stream |-> 0]
    /\ sent = [s \in Stream |-> <<>>]
    /\ cancelled = [s \in Stream |-> FALSE]

\* Variant: the entry is looked for first, the channel is read when there is
\* none.
GotoGetFirst(after) ==
    CASE after = "notify" -> "select"
      [] after = "miss" -> "notify"
      [] after = "wake" -> "get"

\* The order of the loop in Next: channel, entry, wait.
Goto(after) ==
    CASE after = "notify" -> "get"
      [] after = "miss" -> "select"
      [] after = "wake" -> "notify"

-----------------------------------------------------------------------------
\* WAL.Append, which holds the lock (module WAL takes it apart).
AppendEntry(e) ==
    /\ ~ended
    /\ Len(entries) < MaxLen
    /\ entries' = Append(entries, e)
    /\ notify' = notify + 1
    /\ UNCHANGED <<ended, pc, ch, index, start, walIndex, packet, out, sent,
                   cancelled>>

\* Join and Subscribe, at an index the client has counted in its own WAL.
Subscribe(s, i) ==
    /\ ~ended
    /\ pc[s] = "off"
    /\ pc' = [pc EXCEPT ![s] = "notify"]
    /\ index' = [index EXCEPT ![s] = i]
    /\ start' = [start EXCEPT ![s] = i]
    /\ walIndex' = [walIndex EXCEPT ![s] = i]
    /\ UNCHANGED <<entries, notify, ended, ch, packet, out, sent, cancelled>>

\* Next, under the first lock.
ReadNotify(s) ==
    /\ pc[s] = "notify"
    /\ ch' = [ch EXCEPT ![s] = notify]
    /\ pc' = [pc EXCEPT ![s] = Goto("notify")]
    /\ UNCHANGED <<entries, notify, ended, index, start, walIndex, packet, out,
                   sent, cancelled>>

\* Variant: the stream's index is incremented before the entry is read.
GetEntryAfterIncrement(s) ==
    /\ pc[s] = "get"
    /\ index' = [index EXCEPT ![s] = @ + 1]
    /\ IF index[s] + 1 < Len(entries)
       THEN /\ walIndex' = [walIndex EXCEPT ![s] = index[s] + 2]
            /\ packet' = [packet EXCEPT ![s] = <<index[s] + 1, entries[index[s] + 2]>>]
            /\ pc' = [pc EXCEPT ![s] = "send"]
       ELSE /\ pc' = [pc EXCEPT ![s] = Goto("miss")]
            /\ UNCHANGED <<walIndex, packet>>
    /\ UNCHANGED <<entries, notify, ended, ch, start, out, sent, cancelled>>

\* Variant: the stream's index is incremented whether or not there is an entry.
GetEntryCountsMiss(s) ==
    /\ pc[s] = "get"
    /\ index' = [index EXCEPT ![s] = @ + 1]
    /\ IF index[s] < Len(entries)
       THEN /\ walIndex' = [walIndex EXCEPT ![s] = index[s] + 1]
            /\ packet' = [packet EXCEPT ![s] = <<index[s], entries[index[s] + 1]>>]
            /\ pc' = [pc EXCEPT ![s] = "send"]
       ELSE /\ pc' = [pc EXCEPT ![s] = Goto("miss")]
            /\ UNCHANGED <<walIndex, packet>>
    /\ UNCHANGED <<entries, notify, ended, ch, start, out, sent, cancelled>>

\* Next, Get under the second lock; when there is an entry, Next returns it
\* and handleWalStream checks the player's context and index.
GetEntry(s) ==
    /\ pc[s] = "get"
    /\ IF index[s] < Len(entries)
       THEN /\ index' = [index EXCEPT ![s] = @ + 1]
            /\ IF index[s] < walIndex[s]
               THEN /\ pc' = [pc EXCEPT ![s] = "notify"]
                    /\ UNCHANGED <<walIndex, packet>>
               ELSE /\ walIndex' = [walIndex EXCEPT ![s] = index[s] + 1]
                    /\ packet' = [packet EXCEPT ![s] = <<index[s], entries[index[s] + 1]>>]
                    /\ pc' = [pc EXCEPT ![s] = "send"]
       ELSE /\ pc' = [pc EXCEPT ![s] = Goto("miss")]
            /\ UNCHANGED <<index, walIndex, packet>>
    /\ UNCHANGED <<entries, notify, ended, ch, start, out, sent, cancelled>>

\* Next, the select: woken by a closed channel, or by the end of a context.
Wake(s) ==
    /\ pc[s] = "select"
    /\ ch[s] < notify
    /\ pc' = [pc EXCEPT ![s] = Goto("wake")]
    /\ UNCHANGED <<entries, notify, ended, ch, index, start, walIndex, packet,
                   out, sent, cancelled>>

EndStream(s) ==
    /\ pc[s] = "select"
    /\ ended \/ cancelled[s]
    /\ pc' = [pc EXCEPT ![s] = "done"]
    /\ cancelled' = [cancelled EXCEPT ![s] = TRUE]
    /\ UNCHANGED <<entries, notify, ended, ch, index, start, walIndex, packet,
                   out, sent>>

\* Player.Send, then the loop's check of the player's context.
Send(s) ==
    /\ pc[s] = "send"
    /\ out[s] < OutCap
    /\ out' = [out EXCEPT ![s] = @ + 1]
    /\ sent' = [sent EXCEPT ![s] = Append(@, packet[s])]
    /\ packet' = [packet EXCEPT ![s] = <<>>]
    /\ pc' = [pc EXCEPT ![s] = IF cancelled[s] THEN "done" ELSE "notify"]
    /\ UNCHANGED <<entries, notify, ended, ch, index, start, walIndex, cancelled>>

\* Variant: Send waits for room only.
SendAbandonedNever(s) == FALSE /\ Send(s)

SendAbandoned(s) ==
    /\ pc[s] = "send"
    /\ cancelled[s]
    /\ packet' = [packet EXCEPT ![s] = <<>>]
    /\ pc' = [pc EXCEPT ![s] = "done"]
    /\ UNCHANGED <<entries, notify, ended, ch, index, start, walIndex, out,
                   sent, cancelled>>

\* handleMsgOut takes a packet; it stops with its context.
TakeOut(s) ==
    /\ out[s] > 0
    /\ ~cancelled[s]
    /\ out' = [out EXCEPT ![s] = @ - 1]
    /\ UNCHANGED <<entries, notify, ended, pc, ch, index, start, walIndex,
                   packet, sent, cancelled>>

\* Any goroutine of the player returns: the connection broke, a write timed
\* out.
CancelPlayer(s) ==
    /\ pc[s] # "off"
    /\ ~cancelled[s]
    /\ cancelled' = [cancelled EXCEPT ![s] = TRUE]
    /\ UNCHANGED <<entries, notify, ended, pc, ch, index, start, walIndex,
                   packet, out, sent>>

\* The session's context ends, and with it the WAL's and every player's.
EndSession ==
    /\ ~ended
    /\ ended' = TRUE
    /\ cancelled' = [s \in Stream |-> TRUE]
    /\ UNCHANGED <<entries, notify, pc, ch, index, start, walIndex, packet,
                   out, sent>>

\* The goroutine of the stream.
StreamStep(s) ==
    \/ ReadNotify(s)
    \/ GetEntry(s)
    \/ Wake(s)
    \/ EndStream(s)
    \/ Send(s)
    \/ SendAbandoned(s)

Next ==
    \/ \E e \in Entry : AppendEntry(e)
    \/ \E s \in Stream :
         \/ \E i \in 0..Len(entries) : Subscribe(s, i)
         \/ StreamStep(s)
         \/ TakeOut(s)
         \/ CancelPlayer(s)
    \/ EndSession

Spec == Init /\ [][Next]_streamVars

\* The goroutines of the stream and of handleMsgOut run; nobody has to
\* append, to leave or to stop the server.
FairSpec ==
    /\ Spec
    /\ \A s \in Stream : WF_streamVars(StreamStep(s)) /\ WF_streamVars(TakeOut(s))

-----------------------------------------------------------------------------
\* A player is sent the entries of the log from the index it asked for, each
\* once, without a gap and with its index, however appends fall between the
\* two locks of Next.
SentInOrder ==
    \A s \in Stream : \A n \in 1..Len(sent[s]) :
        /\ start[s] + n <= Len(entries)
        /\ sent[s][n] = <<start[s] + n - 1, entries[start[s] + n]>>

\* No append is slept through: every entry of the log is sent to every player
\* that stays connected, whether or not another append follows.
EveryEntrySent ==
    \A s \in Stream, n \in 1..MaxLen :
        (pc[s] # "off" /\ Len(entries) >= n)
            ~> (start[s] + Len(sent[s]) >= n \/ cancelled[s])

\* A player whose context has ended does not keep its stream goroutine, full
\* channel or not: Join can return from wg.Wait.
StreamEnds == \A s \in Stream : (pc[s] # "off" /\ cancelled[s]) ~> pc[s] = "done"
=============================================================================
