----------------------------- MODULE SendQueue -----------------------------
(***************************************************************************)
(* The send queue of a client: the map of what it still has to send, and   *)
(* the file that gives the map back after a crash.                         *)
(*                                                                         *)
(* Add writes a record at the end of the file; Ack removes an entry from   *)
(* the map only, and truncates the file when the map becomes empty.  Both  *)
(* hold the mutex, so one of them is under way at a time; they are taken   *)
(* apart because the calls on the file can fail, and because the process   *)
(* or the machine can stop between two of them.                            *)
(***************************************************************************)
EXTENDS Naturals, Sequences, RecordFile

CONSTANTS
    Id,          \* deduplication keys
    NoId,        \* not a key
    FailKinds,   \* the calls that may fail: "write", "sync", "truncate"
    CrashKinds,  \* "process": the page cache survives; "power": it does not
    MaxRecords,  \* bound on the records in the file
    MaxFaults    \* bound on failed calls and crashes

ASSUME SendQueueAssumption ==
    /\ NoId \notin Id
    /\ FailKinds \subseteq {"write", "sync", "truncate"}
    /\ CrashKinds \subseteq {"process", "power"}
    /\ MaxRecords \in Nat
    /\ MaxFaults \in Nat

\* A record is the id, the length of the data, and the data.
IdEnd == 2
LengthEnd == 4
RecordLen == 6

VARIABLES
    mode,        \* "open", "down" (not running), "broken" (load failed)
    file,        \* the cells of the file
    synced,      \* how many cells are on the disk
    queue,       \* SendQueue.entries
    pc,          \* the next call of Add or Ack on the file
    arg,         \* the id Add works on
    owed,        \* history: ids Add returned nil for, not acknowledged since
    adopted,     \* history: ids loaded from records that were not on the disk
    cut,         \* history: a record was cut short, and the file not truncated since
    faults

queueVars == <<mode, file, synced, queue, pc, arg, owed, adopted, cut, faults>>

ToSetOf(s) == {s[i] : i \in 1..Len(s)}

Cell == [rec : Id, part : 1..RecordLen]

\* The queue has no entry of which the file has nothing.
TypeOK ==
    /\ mode \in {"open", "down", "broken"}
    /\ file \in Seq(Cell)
    /\ synced \in 0..Len(file)
    /\ queue \subseteq {file[i].rec : i \in 1..Len(file)}
    /\ pc \in {"idle", "id", "length", "data", "sync", "truncate", "ackSync"}
    /\ arg \in IF pc \in {"id", "length", "data", "sync"} THEN Id ELSE {NoId}
    /\ owed \subseteq Id
    /\ adopted \subseteq Id
    /\ cut \in BOOLEAN
    /\ faults \in 0..MaxFaults

Init ==
    /\ mode = "down"
    /\ file = <<>>
    /\ synced = 0
    /\ queue = {}
    /\ pc = "idle"
    /\ arg = NoId
    /\ owed = {}
    /\ adopted = {}
    /\ cut = FALSE
    /\ faults = 0

Fault == faults < MaxFaults /\ faults' = faults + 1

\* The ids a power failure would leave.
OnDisk == ToSetOf(Records(SubSeq(file, 1, synced), RecordLen))

\* OpenSendQueue and loadSendQueue.  An error ends the session, and so does
\* every later attempt.
OpenSendQueue ==
    /\ mode # "open"
    /\ IF Loads(file, RecordLen)
       THEN /\ mode' = "open"
            /\ queue' = ToSetOf(Records(file, RecordLen))
            /\ adopted' = (adopted \cup queue') \ OnDisk
       ELSE /\ mode' = "broken"
            /\ UNCHANGED <<queue, adopted>>
    /\ UNCHANGED <<file, synced, pc, arg, owed, cut, faults>>

\* Variant: Close does not take the mutex, and closes the file under an Add.
CloseUnlocked ==
    /\ mode = "open"
    /\ mode' = "down"
    /\ queue' = {}
    /\ pc' = "idle"
    /\ arg' = NoId
    /\ UNCHANGED <<file, synced, owed, adopted, cut, faults>>

\* The session ends.
Close ==
    /\ mode = "open"
    /\ pc = "idle"
    /\ mode' = "down"
    /\ queue' = {}
    /\ UNCHANGED <<file, synced, pc, arg, owed, adopted, cut, faults>>

\* Add for an id that is queued returns nil at once, and nothing is written.
AddDuplicate(id) ==
    /\ mode = "open"
    /\ pc = "idle"
    /\ id \in queue
    /\ owed' = owed \cup {id}
    /\ UNCHANGED <<mode, file, synced, queue, pc, arg, adopted, cut, faults>>

\* Add takes the mutex for another id.
AddBegin(id) ==
    /\ mode = "open"
    /\ pc = "idle"
    /\ id \notin queue
    /\ Len(file) < MaxRecords * RecordLen
    /\ pc' = "id"
    /\ arg' = id
    /\ UNCHANGED <<mode, file, synced, queue, owed, adopted, cut, faults>>

\* One of the three writes of Add, each at the end of the file.
Field(at) ==
    CASE at = "id" -> Cells(arg, 1, IdEnd)
      [] at = "length" -> Cells(arg, IdEnd + 1, LengthEnd)
      [] at = "data" -> Cells(arg, LengthEnd + 1, RecordLen)
      [] OTHER -> <<>>

WriteField(at, next) ==
    /\ pc = at
    /\ file' = file \o Field(at)
    /\ pc' = next
    /\ UNCHANGED <<mode, synced, queue, arg, owed, adopted, cut, faults>>

\* Variant: the entry is stored, and the file is not synced.
SyncAndStoreUnsynced ==
    /\ pc = "sync"
    /\ queue' = queue \cup {arg}
    /\ owed' = owed \cup {arg}
    /\ pc' = "idle"
    /\ arg' = NoId
    /\ UNCHANGED <<mode, file, synced, adopted, cut, faults>>

\* The sync of Add, which covers all that is in the map, and the new entry in
\* the map.
SyncAndStore ==
    /\ pc = "sync"
    /\ synced' = Len(file)
    /\ queue' = queue \cup {arg}
    /\ adopted' = adopted \ queue'
    /\ owed' = owed \cup {arg}
    /\ pc' = "idle"
    /\ arg' = NoId
    /\ UNCHANGED <<mode, file, cut, faults>>

\* Variant: the entry is put into the map before it is written, and stays there
\* when a call fails.
AddFailsStored(kind) ==
    /\ kind \in FailKinds
    /\ \/ kind = "write" /\ pc \in {"id", "length", "data"}
       \/ kind = "sync" /\ pc = "sync"
    /\ \E n \in 0..(Len(Field(pc)) \div 2) : file' = file \o SubSeq(Field(pc), 1, n)
    /\ queue' = queue \cup {arg}
    /\ pc' = "idle"
    /\ arg' = NoId
    /\ cut' = (cut \/ kind = "write")
    /\ Fault
    /\ UNCHANGED <<mode, synced, owed, adopted>>

\* A call of Add fails.  What the call, and the calls before it, have written
\* stays in the file; the map does not get the entry.
AddFails(kind) ==
    /\ kind \in FailKinds
    /\ \/ kind = "write" /\ pc \in {"id", "length", "data"}
       \/ kind = "sync" /\ pc = "sync"
    /\ \E n \in 0..(Len(Field(pc)) \div 2) : file' = file \o SubSeq(Field(pc), 1, n)
    /\ pc' = "idle"
    /\ arg' = NoId
    /\ cut' = (cut \/ kind = "write")
    /\ Fault
    /\ UNCHANGED <<mode, synced, queue, owed, adopted>>

\* Variant: the file is truncated by every Ack.
AckTruncatesAlways(id) ==
    /\ mode = "open"
    /\ pc = "idle"
    /\ queue # {}
    /\ queue' = queue \ {id}
    /\ owed' = owed \ {id}
    /\ pc' = "truncate"
    /\ UNCHANGED <<mode, file, synced, arg, adopted, cut, faults>>

\* Ack, under the mutex, up to its first call on the file.  Nothing happens
\* when the map is empty.
Ack(id) ==
    /\ mode = "open"
    /\ pc = "idle"
    /\ queue # {}
    /\ queue' = queue \ {id}
    /\ owed' = owed \ {id}
    /\ pc' = IF queue' = {} THEN "truncate" ELSE "ackSync"
    /\ UNCHANGED <<mode, file, synced, arg, adopted, cut, faults>>

\* The truncate of Ack; when it fails the file stays as it is.
Truncate ==
    /\ pc = "truncate"
    /\ \/ file' = <<>> /\ synced' = 0 /\ cut' = FALSE /\ UNCHANGED faults
       \/ "truncate" \in FailKinds /\ Fault /\ UNCHANGED <<file, synced, cut>>
    /\ pc' = "ackSync"
    /\ UNCHANGED <<mode, queue, arg, owed, adopted>>

\* The sync of Ack; an error is logged, no more.
AckSync ==
    /\ pc = "ackSync"
    /\ \/ synced' = Len(file) /\ adopted' = adopted \ queue /\ UNCHANGED faults
       \/ "sync" \in FailKinds /\ Fault /\ UNCHANGED <<synced, adopted>>
    /\ pc' = "idle"
    /\ UNCHANGED <<mode, file, queue, arg, owed, cut>>

\* The process, or the machine, stops, in the middle of a call too.  With the
\* machine goes any tail of the file that was not synced, and what is found
\* afterwards is on the disk.
Crash(kind) ==
    LET left == file \o Field(pc) IN
    /\ mode = "open"
    /\ \E n \in 0..Len(left) :
         /\ n >= (IF kind = "power" THEN synced ELSE Len(file))
         /\ file' = SubSeq(left, 1, n)
         /\ synced' = IF kind = "power" THEN n ELSE synced
    /\ cut' = (cut \/ pc \in {"id", "length", "data"} \/ (kind = "power" /\ synced < Len(file)))
    /\ mode' = "down"
    /\ queue' = {}
    /\ pc' = "idle"
    /\ arg' = NoId
    /\ Fault
    /\ UNCHANGED <<owed, adopted>>

Next ==
    \/ OpenSendQueue
    \/ Close
    \/ \E id \in Id : AddDuplicate(id) \/ AddBegin(id) \/ Ack(id)
    \/ WriteField("id", "length")
    \/ WriteField("length", "data")
    \/ WriteField("data", "sync")
    \/ SyncAndStore
    \/ \E kind \in FailKinds : AddFails(kind)
    \/ Truncate
    \/ AckSync
    \/ \E kind \in CrashKinds : Crash(kind)

Spec == Init /\ [][Next]_queueVars

-----------------------------------------------------------------------------
\* An entry for which Add returned nil, and that was not acknowledged, is on the
\* disk in a record that can be read, also when records before it have been
\* acknowledged or were written by an Add whose sync failed.  There are two
\* exceptions.  In a file in which a failed write of Add has left a part of a
\* record with others behind it, what follows the part cannot be read until Ack
\* truncates the file.  And a record that was not synced when the process ended
\* is loaded as it is: Add returns nil for its id without a sync, and until the
\* next sync a power failure can take it.
OwedDurable == InStep(file, RecordLen) => owed \ adopted \subseteq OnDisk

\* An entry for which Add returned nil is in the queue of every later session
\* that opens, until it is acknowledged: no crash and no failed call makes a
\* session start without it, but for the loss of a record that was adopted
\* unsynced.  It says nothing of a session that does not open: a file that ends
\* within a record is refused for good, and what is owed stays on the disk
\* (OwedDurable) and is not sent (see OnlyCutsRefused).
OwedKept == mode = "open" => owed \ adopted \subseteq queue

\* OpenSendQueue refuses a file for good, with all that is owed in it.  That
\* happens only if a record was cut short: by a failed write of Add, by a crash
\* in one, or by a power failure that met cells whose sync had failed.  Failed
\* syncs and truncates, ends of the session and other crashes, in any order and
\* while records of other Adds are in the file, leave whole records; and after
\* a truncate by Ack, what was cut short before does no more harm.
OnlyCutsRefused == mode = "broken" => cut
=============================================================================
