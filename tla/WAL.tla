-------------------------------- MODULE WAL --------------------------------
(***************************************************************************)
(* One write-ahead log: its memory, its file, and the disk.                *)
(*                                                                         *)
(* Append holds the mutex from the duplicate check to the publication, so  *)
(* one append is under way at a time; it is taken apart here because each  *)
(* of its calls on the file can fail, and the process or the machine can   *)
(* stop between two of them.                                               *)
(***************************************************************************)
EXTENDS Naturals, Sequences, FiniteSets, RecordFile

CONSTANTS
    Entry,       \* entries (an entry stands for its deduplication key)
    NoEntry,     \* not an entry
    CrashKinds,  \* "process": the page cache survives; "power": it does not
    MaxFaults    \* bound on failed calls and crashes

ASSUME WALAssumption ==
    /\ NoEntry \notin Entry
    /\ CrashKinds \subseteq {"process", "power"}
    /\ MaxFaults \in Nat

\* An entry is written as its length and its data.
HeaderEnd == 2
RecordLen == 4

VARIABLES
    mode,        \* "open", "down" (nobody has it open), "broken" (load failed)
    file,        \* the cells of the file, as the operating system shows them
    offset,      \* the offset of the open file (0 when it is not open)
    synced,      \* how many cells are on the disk
    entries,     \* WAL.entries, in memory
    pc,          \* the next call of Append on the file
    arg,         \* the entry Append works on
    reported,    \* history: entries for which Append returned nil
    seen,        \* history: the longest log readers could see and the disk had
    adopted,     \* history: entries OpenWAL loaded that were not on the disk
    faults

walVars == <<mode, file, offset, synced, entries, pc, arg, reported, seen, adopted,
             faults>>

ToSetOf(s) == {s[i] : i \in 1..Len(s)}

Cell == [rec : Entry, part : 1..RecordLen]

TypeOK ==
    /\ mode \in {"open", "down", "broken"}
    /\ file \in Seq(Cell)
    /\ offset \in 0..Len(file)
    /\ synced \in 0..Len(file)
    /\ entries \in Seq(Entry)
    /\ pc \in {"idle", "header", "data", "sync", "publish"}
    /\ arg \in Entry \cup {NoEntry}
    /\ reported \subseteq Entry
    /\ seen \in Seq(Entry)
    /\ adopted \subseteq Entry
    /\ faults \in 0..MaxFaults

Init ==
    /\ mode = "down"
    /\ file = <<>>
    /\ offset = 0
    /\ synced = 0
    /\ entries = <<>>
    /\ pc = "idle"
    /\ arg = NoEntry
    /\ reported = {}
    /\ seen = <<>>
    /\ adopted = {}
    /\ faults = 0

Fault == faults < MaxFaults /\ faults' = faults + 1

\* What readers have seen grows only with a log that extends it.
Longer(log, new) == IF Len(new) > Len(log) /\ SubSeq(new, 1, Len(log)) = log
                    THEN new
                    ELSE log

\* The records a power failure would leave.
OnDisk == Records(SubSeq(file, 1, synced), RecordLen)

\* OpenWAL: load reads the file to its end, and leaves the offset there.
\* An error closes the file; every later attempt meets the same error.
OpenWAL ==
    /\ mode # "open"
    /\ IF Loads(file, RecordLen)
       THEN /\ mode' = "open"
            /\ entries' = Records(file, RecordLen)
            /\ offset' = Len(file)
            /\ seen' = Longer(seen, OnDisk)
            /\ adopted' = adopted \cup (ToSetOf(entries') \ ToSetOf(OnDisk))
       ELSE /\ mode' = "broken"
            /\ UNCHANGED <<entries, offset, seen, adopted>>
    /\ UNCHANGED <<file, synced, pc, arg, reported, faults>>

\* WAL.Close waits for the mutex.
Close ==
    /\ mode = "open"
    /\ pc = "idle"
    /\ mode' = "down"
    /\ entries' = <<>>
    /\ offset' = 0
    /\ UNCHANGED <<file, synced, pc, arg, reported, seen, adopted, faults>>

\* Append for an entry whose key is known: success, and nothing is written.
AppendDuplicate(e) ==
    /\ mode = "open"
    /\ pc = "idle"
    /\ e \in ToSetOf(entries)
    /\ reported' = reported \cup {e}
    /\ UNCHANGED <<mode, file, offset, synced, entries, pc, arg, seen, adopted, faults>>

\* Append takes the mutex for a new entry.
AppendBegin(e) ==
    /\ mode = "open"
    /\ pc = "idle"
    /\ e \notin ToSetOf(entries)
    /\ pc' = "header"
    /\ arg' = e
    /\ UNCHANGED <<mode, file, offset, synced, entries, reported, seen, adopted, faults>>

\* Write at the offset.  What the file has beyond it is overwritten.
Written(cells) ==
    /\ file' = SubSeq(file, 1, offset) \o cells
                   \o SubSeq(file, offset + Len(cells) + 1, Len(file))
    /\ offset' = offset + Len(cells)

\* The offset Append noted before it wrote.
StartPos ==
    CASE pc = "header" -> offset
      [] pc = "data" -> offset - HeaderEnd
      [] pc = "sync" -> offset - RecordLen

WriteHeader ==
    /\ pc = "header"
    /\ Written(Cells(arg, 1, HeaderEnd))
    /\ pc' = "data"
    /\ UNCHANGED <<mode, synced, entries, arg, reported, seen, adopted, faults>>

WriteData ==
    /\ pc = "data"
    /\ Written(Cells(arg, HeaderEnd + 1, RecordLen))
    /\ pc' = "sync"
    /\ UNCHANGED <<mode, synced, entries, arg, reported, seen, adopted, faults>>

\* Variant: the sync is forgotten.
SyncFileForgotten ==
    /\ pc = "sync"
    /\ pc' = "publish"
    /\ UNCHANGED <<mode, file, offset, synced, entries, arg, reported, seen, adopted, faults>>

SyncFile ==
    /\ pc = "sync"
    /\ synced' = Len(file)
    /\ adopted' = adopted \ ToSetOf(Records(file, RecordLen))
    /\ pc' = "publish"
    /\ UNCHANGED <<mode, file, offset, entries, arg, reported, seen, faults>>

\* The entry becomes visible, the streams are notified, Append returns nil.
Publish ==
    /\ pc = "publish"
    /\ entries' = Append(entries, arg)
    /\ seen' = Longer(seen, entries')
    /\ reported' = reported \cup {arg}
    /\ pc' = "idle"
    /\ arg' = NoEntry
    /\ UNCHANGED <<mode, file, offset, synced, adopted, faults>>

\* Variant: the file is truncated, and the offset stays where it is.
FailAndRollbackNoSeek ==
    /\ pc \in {"header", "data", "sync"}
    /\ file' = SubSeq(file, 1, StartPos)
    /\ UNCHANGED offset
    /\ synced' = IF synced > StartPos THEN StartPos ELSE synced
    /\ pc' = "idle"
    /\ arg' = NoEntry
    /\ Fault
    /\ UNCHANGED <<mode, entries, reported, seen, adopted>>

\* Variant: nothing is taken back.
FailAndRollbackNot ==
    /\ pc \in {"header", "data", "sync"}
    /\ pc' = "idle"
    /\ arg' = NoEntry
    /\ Fault
    /\ UNCHANGED <<mode, file, offset, synced, entries, reported, seen, adopted>>

\* A call fails, after writing all, a part or nothing of its cells; Append
\* truncates the file to where it began, seeks there, and returns an error.
\* (The results of the truncate and of the seek are not looked at; that
\* these two work on a file whose write failed is assumed here.)
FailAndRollback ==
    /\ pc \in {"header", "data", "sync"}
    /\ file' = SubSeq(file, 1, StartPos)
    /\ offset' = StartPos
    /\ synced' = IF synced > StartPos THEN StartPos ELSE synced
    /\ pc' = "idle"
    /\ arg' = NoEntry
    /\ Fault
    /\ UNCHANGED <<mode, entries, reported, seen, adopted>>

\* The process, or the machine, stops at any point.  A stop in the middle of
\* a call leaves a part of what the call writes.  With the page cache goes
\* any tail of the file that was not synced; what is found on the disk
\* afterwards is on the disk.
Crash(kind) ==
    LET inFlight == CASE pc = "header" -> Cells(arg, 1, HeaderEnd)
                      [] pc = "data" -> Cells(arg, HeaderEnd + 1, RecordLen)
                      [] OTHER -> <<>>
        left == SubSeq(file, 1, offset) \o inFlight
    IN  /\ mode = "open"
        /\ \E n \in 0..Len(left) :
             /\ n >= (IF kind = "power" THEN synced ELSE offset)
             /\ file' = SubSeq(left, 1, n)
             /\ synced' = IF kind = "power" THEN n ELSE synced
        /\ mode' = "down"
        /\ entries' = <<>>
        /\ offset' = 0
        /\ pc' = "idle"
        /\ arg' = NoEntry
        /\ Fault
        /\ UNCHANGED <<reported, seen, adopted>>

Next ==
    \/ OpenWAL
    \/ Close
    \/ \E e \in Entry : AppendDuplicate(e) \/ AppendBegin(e)
    \/ WriteHeader
    \/ WriteData
    \/ SyncFile
    \/ Publish
    \/ FailAndRollback
    \/ \E kind \in CrashKinds : Crash(kind)

Spec == Init /\ [][Next]_walVars

-----------------------------------------------------------------------------
\* What Append reported as appended is on the disk, in a record that can be
\* read: it is there after a power failure at any later time.  The server
\* acknowledges an entry, and the client forgets it, on the strength of this.
\* The exception are entries that an earlier process wrote and did not live to
\* sync: OpenWAL takes them over as they are, and Append reports a duplicate
\* of one without a sync.  The next sync covers them.
ReportedDurable == reported \ adopted \subseteq ToSetOf(OnDisk)

\* What readers of the log saw at an index, and the disk had, is there, at that
\* index, whenever the log is open, also after rollbacks and crashes: of such
\* entries a client never holds one that the server's log lacks or has another
\* entry for.  It says nothing of an entry that OpenWAL took over unsynced and
\* that was streamed before the next sync: a power failure can take that one
\* from the log after clients have copied it.
SeenStays ==
    mode = "open" =>
        /\ Len(seen) <= Len(entries)
        /\ \A i \in 1..Len(seen) : entries[i] = seen[i]

\* Between two appends the file is the memory, also after appends that failed
\* half-way: a clean close and a new OpenWAL give the same log.
FileIsMemory ==
    mode = "open" /\ pc = "idle" =>
        /\ Loads(file, RecordLen)
        /\ Records(file, RecordLen) = entries
        /\ offset = Len(file)

\* Append syncs the file "to ensure durability": whoever opens the log again
\* finds every entry Append reported.
ReadableAfterOpen ==
    mode \in {"open", "broken"} => reported \subseteq ToSetOf(entries)
=============================================================================
