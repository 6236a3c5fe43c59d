-------------------------- MODULE SendQueueProofs --------------------------
(***************************************************************************)
(* The send queue of a client: the proofs.                                 *)
(*                                                                         *)
(* OwedDurable looks at the whole file, and a crash may cut off the part   *)
(* that a failed write has put out of step.  What is inductive looks at    *)
(* the disk only: as long as the synced part of the file is in step, it    *)
(* has a record of every entry that is owed (Stored).  That goes for every *)
(* entry of the queue as well, since Add reports one that is queued as     *)
(* stored; and so that a sync covers what was adopted unsynced, the file   *)
(* has a record of every entry of the queue (Held).  Nothing is owed when  *)
(* Ack truncates the file, because what is owed is in the queue.           *)
(* OnlyCutsRefused is a matter of where records begin: a file in which     *)
(* nothing was cut short is whole records and the cells Add has written of *)
(* one more (Whole).                                                       *)
(***************************************************************************)
EXTENDS SendQueue, SequenceTheorems, TLAPS

-----------------------------------------------------------------------------
(***************************************************************************)
(* The file.                                                               *)
(***************************************************************************)

\* The record that starts where the j-th one is looked for.
RecAt(f, j) == f[(j - 1) * RecordLen + 1].rec

\* The ids of which the file f has a cell.
IdsIn(f) == {f[i].rec : i \in 1..Len(f)}

\* The ids on a disk that keeps n cells of the file f.
Disk(f, n) == ToSetOf(Records(SubSeq(f, 1, n), RecordLen))

\* The last k cells of the file are the beginning of a record of e.
Ends(f, e, k) ==
    /\ k <= Len(f)
    /\ f[Len(f) - k + 1] = [rec |-> e, part |-> 1]

LEMMA Beginning ==
    ASSUME NEW f \in Seq(Cell), NEW n \in 0..Len(f)
    PROVE  /\ SubSeq(f, 1, n) \in Seq(Cell)
           /\ Len(SubSeq(f, 1, n)) = n
           /\ \A i \in 1..n : SubSeq(f, 1, n)[i] = f[i]
OBVIOUS

LEMMA Extended ==
    ASSUME NEW f \in Seq(Cell), NEW g \in Seq(Cell)
    PROVE  /\ f \o g \in Seq(Cell)
           /\ Len(f \o g) = Len(f) + Len(g)
           /\ \A i \in 1..Len(f) : (f \o g)[i] = f[i]
           /\ \A i \in 1..Len(g) : (f \o g)[Len(f) + i] = g[i]
OBVIOUS

LEMMA CellSeq ==
    ASSUME NEW k \in Nat, NEW c \in [1..k -> Cell]
    PROVE  c \in Seq(Cell) /\ Len(c) = k
OBVIOUS

\* The cells of one of the writes of Add.
LEMMA FieldCells ==
    ASSUME NEW e \in Id, NEW a \in {0, 2, 4}
    PROVE  /\ Cells(e, a + 1, a + 2) \in Seq(Cell)
           /\ Len(Cells(e, a + 1, a + 2)) = 2
           /\ Cells(e, a + 1, a + 2)[1] = [rec |-> e, part |-> a + 1]
<1>1. Cells(e, a + 1, a + 2) = [i \in 1..2 |-> [rec |-> e, part |-> a + i]]
  <2>1. (a + 2) + 1 - (a + 1) = 2
    OBVIOUS
  <2>2. \A i \in 1..2 : a + 1 + i - 1 = a + i
    OBVIOUS
  <2> QED
    BY <2>1, <2>2 DEF Cells
<1>2. \A i \in 1..2 : [rec |-> e, part |-> a + i] \in Cell
  BY DEF Cell, RecordLen
<1>3. Cells(e, a + 1, a + 2) \in [1..2 -> Cell]
  BY <1>1, <1>2
<1>4. Cells(e, a + 1, a + 2)[1] = [rec |-> e, part |-> a + 1]
  BY <1>1
<1> QED
  BY <1>3, <1>4, CellSeq

\* A file cut short at any cell is in step.
LEMMA CutInStep ==
    ASSUME NEW f \in Seq(Cell), NEW g \in Seq(Cell), InStep(f, RecordLen),
           Len(g) <= Len(f), \A i \in 1..Len(g) : g[i] = f[i]
    PROVE  InStep(g, RecordLen)
<1>1. ASSUME NEW i \in 1..Len(g)
      PROVE  /\ g[i].part = ((i - 1) % RecordLen) + 1
             /\ g[i].rec = g[i - ((i - 1) % RecordLen)].rec
  <2>1. i \in 1..Len(f) /\ i - ((i - 1) % RecordLen) \in 1..Len(g)
    BY DEF RecordLen
  <2>2. g[i] = f[i] /\ g[i - ((i - 1) % RecordLen)] = f[i - ((i - 1) % RecordLen)]
    BY <2>1
  <2> QED
    BY <2>1, <2>2 DEF InStep
<1> QED
  BY <1>1 DEF InStep

\* Records, record by record.
LEMMA RecordsOf ==
    ASSUME NEW f \in Seq(Cell)
    PROVE  /\ Records(f, RecordLen) \in Seq(Id)
           /\ \A j \in Nat \ {0} : j \in 1..Len(Records(f, RecordLen)) <=> RecordLen * j <= Len(f)
           /\ \A j \in 1..Len(Records(f, RecordLen)) : Records(f, RecordLen)[j] = RecAt(f, j)
<1> DEFINE k == Len(f) \div 6
           r == [j \in 1..k |-> f[(j - 1) * 6 + 1].rec]
<1>1. Records(f, RecordLen) = r
  BY DEF Records, RecordLen
<1>2. k \in Nat
  OBVIOUS
<1>3. ASSUME NEW j \in 1..k PROVE f[(j - 1) * 6 + 1].rec \in Id
  <2>1. (j - 1) * 6 + 1 \in 1..Len(f)
    OBVIOUS
  <2>2. f[(j - 1) * 6 + 1] \in Cell
    BY <2>1
  <2> QED
    BY <2>2 DEF Cell
<1>4. \A j \in Nat \ {0} : j \in 1..k <=> 6 * j <= Len(f)
  OBVIOUS
<1> HIDE DEF k
<1>5. r \in Seq(Id) /\ Len(r) = k
  BY <1>2, <1>3
<1>6. \A j \in 1..k : r[j] = RecAt(f, j)
  BY DEF RecAt, RecordLen
<1> QED
  BY <1>1, <1>4, <1>5, <1>6 DEF k, RecordLen

LEMMA DiskIds ==
    ASSUME NEW f \in Seq(Cell), NEW n \in 0..Len(f), NEW e
    PROVE  e \in Disk(f, n) <=> \E j \in Nat \ {0} : RecordLen * j <= n /\ e = RecAt(f, j)
<1> DEFINE g == SubSeq(f, 1, n)
           r == Records(g, RecordLen)
<1>1. g \in Seq(Cell) /\ Len(g) = n /\ \A i \in 1..n : g[i] = f[i]
  BY Beginning
<1> HIDE DEF g
<1>2. /\ Len(r) \in Nat
      /\ \A j \in Nat \ {0} : j \in 1..Len(r) <=> RecordLen * j <= n
      /\ \A j \in 1..Len(r) : r[j] = RecAt(g, j)
  BY <1>1, RecordsOf
<1> HIDE DEF r
<1>3. ASSUME NEW j \in Nat \ {0}, RecordLen * j <= n PROVE RecAt(g, j) = RecAt(f, j)
  <2>1. (j - 1) * RecordLen + 1 \in 1..n
    BY <1>3 DEF RecordLen
  <2> QED
    BY <1>1, <2>1 DEF RecAt
<1>4. e \in Disk(f, n) <=> \E j \in 1..Len(r) : e = r[j]
  BY DEF Disk, ToSetOf, r, g
<1> QED
  BY <1>2, <1>3, <1>4

\* A file that keeps what is on the disk keeps the ids there.
LEMMA DiskGrows ==
    ASSUME NEW f \in Seq(Cell), NEW n \in 0..Len(f), NEW g \in Seq(Cell), NEW m \in 0..Len(g),
           n <= m, \A i \in 1..n : g[i] = f[i]
    PROVE  Disk(f, n) \subseteq Disk(g, m)
<1> SUFFICES ASSUME NEW e \in Disk(f, n) PROVE e \in Disk(g, m)
  OBVIOUS
<1>1. PICK j \in Nat \ {0} : RecordLen * j <= n /\ e = RecAt(f, j)
  BY DiskIds
<1>2. (j - 1) * RecordLen + 1 \in 1..n /\ RecordLen * j <= m
  BY <1>1 DEF RecordLen
<1>3. RecAt(g, j) = RecAt(f, j)
  BY <1>2 DEF RecAt
<1> QED
  BY <1>1, <1>2, <1>3, DiskIds

\* A record written at the end of a file that is in step can be read.
LEMMA LastRecord ==
    ASSUME NEW f \in Seq(Cell), InStep(f, RecordLen), NEW e \in Id, Ends(f, e, RecordLen)
    PROVE  e \in Disk(f, Len(f))
<1> DEFINE i == Len(f) - 5
           j == Len(f) \div 6
<1>1. Len(f) \in Nat /\ Len(f) >= 6 /\ Len(f) - RecordLen + 1 = i /\ i \in 1..Len(f)
  BY DEF Ends, RecordLen
<1>2. f[i].part = 1 /\ f[i].rec = e
  BY <1>1 DEF Ends
<1>3. f[i].part = ((i - 1) % 6) + 1
  BY <1>1 DEF InStep, RecordLen
<1>4. (i - 1) % 6 \in Nat
  BY <1>1
<1>5. (i - 1) % 6 = 0
  BY <1>2, <1>3, <1>4
<1>6. j \in Nat \ {0} /\ 6 * j = Len(f) /\ (j - 1) * 6 + 1 = i
  BY <1>1, <1>5
<1>7. RecordLen * j <= Len(f) /\ e = RecAt(f, j)
  BY <1>1, <1>2, <1>6 DEF RecAt, RecordLen
<1> QED
  BY <1>1, <1>6, <1>7, DiskIds

-----------------------------------------------------------------------------
(***************************************************************************)
(* The inductive invariant.                                                *)
(***************************************************************************)

\* How many cells of the record Add has written.
Filled(at) == IF at = "length" THEN IdEnd ELSE IF at = "data" THEN LengthEnd ELSE RecordLen

\* Where Add and Ack stand.
Standing ==
    /\ mode # "open" => pc = "idle"
    /\ pc \in {"length", "data", "sync"} => Ends(file, arg, Filled(pc))
    /\ pc = "truncate" => queue = {}

\* What is owed or queued is on the disk, as long as the disk can be read.
Stored ==
    InStep(SubSeq(file, 1, synced), RecordLen) =>
        (owed \cup queue) \ adopted \subseteq Disk(file, synced)

\* What is queued is in the file, as long as the file can be read.
Held == InStep(file, RecordLen) => queue \subseteq Disk(file, Len(file))

QueueInv == TypeOK /\ Standing /\ Stored /\ Held /\ OwedKept

\* A file that keeps what is on the disk, and a disk that does not shrink, keep
\* what is owed.
LEMMA StoredKept ==
    ASSUME TypeOK, Stored, file' \in Seq(Cell), synced' \in 0..Len(file'),
           synced <= synced', \A i \in 1..synced : file'[i] = file[i],
           (owed' \cup queue') \ adopted' \subseteq (owed \cup queue) \ adopted
    PROVE  Stored'
<1> DEFINE g == SubSeq(file, 1, synced)
           h == SubSeq(file', 1, synced')
<1>1. file \in Seq(Cell) /\ synced \in 0..Len(file)
  BY DEF TypeOK
<1>2. /\ g \in Seq(Cell) /\ Len(g) = synced /\ \A i \in 1..synced : g[i] = file[i]
      /\ h \in Seq(Cell) /\ Len(h) = synced' /\ \A i \in 1..synced' : h[i] = file'[i]
  BY <1>1, Beginning
<1>3. Disk(file, synced) \subseteq Disk(file', synced')
  BY <1>1, DiskGrows
<1>4. InStep(h, RecordLen) => InStep(g, RecordLen)
  <2> HIDE DEF g, h
  <2>1. synced \in Nat /\ synced' \in Nat
    BY <1>1
  <2>2. \A i \in 1..Len(g) : g[i] = h[i]
    BY <1>2, <2>1
  <2> QED
    BY <1>2, <2>2, CutInStep
<1> QED
  BY <1>3, <1>4 DEF Stored

\* A file that only grows holds what it held.
LEMMA HeldKept ==
    ASSUME TypeOK, Held, file' \in Seq(Cell), Len(file) <= Len(file'),
           \A i \in 1..Len(file) : file'[i] = file[i], queue' \subseteq queue
    PROVE  Held' /\ queue' \subseteq IdsIn(file')
<1>1. file \in Seq(Cell) /\ Len(file) \in Nat /\ Len(file') \in Nat
  BY DEF TypeOK
<1>2. Disk(file, Len(file)) \subseteq Disk(file', Len(file'))
  <2>1. Len(file) \in 0..Len(file) /\ Len(file') \in 0..Len(file')
    BY <1>1
  <2> QED
    BY <1>1, <2>1, DiskGrows
<1>3. InStep(file', RecordLen) => InStep(file, RecordLen)
  BY <1>1, CutInStep
<1>4. IdsIn(file) \subseteq IdsIn(file')
  <2> SUFFICES ASSUME NEW i \in 1..Len(file) PROVE file[i].rec \in IdsIn(file')
    BY DEF IdsIn
  <2>1. i \in 1..Len(file') /\ file'[i] = file[i]
    BY <1>1
  <2> QED
    BY <2>1 DEF IdsIn
<1>5. queue \subseteq IdsIn(file)
  BY DEF TypeOK, IdsIn
<1> QED
  BY <1>2, <1>3, <1>4, <1>5 DEF Held

LEMMA SyncedInStep ==
    ASSUME TypeOK, InStep(file, RecordLen) PROVE InStep(SubSeq(file, 1, synced), RecordLen)
<1> DEFINE g == SubSeq(file, 1, synced)
<1>1. file \in Seq(Cell) /\ synced \in 0..Len(file)
  BY DEF TypeOK
<1>2. g \in Seq(Cell) /\ Len(g) = synced /\ \A i \in 1..synced : g[i] = file[i]
  BY <1>1, Beginning
<1> HIDE DEF g
<1>3. Len(g) <= Len(file) /\ \A i \in 1..Len(g) : g[i] = file[i]
  BY <1>1, <1>2
<1>4. InStep(g, RecordLen)
  BY <1>1, <1>2, <1>3, CutInStep
<1> QED
  BY <1>4 DEF g

\* What a call of Add writes, and what it has written then.
LEMMA FieldOf ==
    ASSUME TypeOK
    PROVE  /\ Field(pc) \in Seq(Cell)
           /\ pc = "id" => Len(Field(pc)) = 2 /\ Field(pc)[1] = [rec |-> arg, part |-> 1]
           /\ pc \in {"length", "data"} => Len(Field(pc)) = 2
<1>1. CASE pc = "id"
  <2>1. arg \in Id /\ Field(pc) = Cells(arg, 0 + 1, 0 + 2) /\ 0 + 1 = 1
    BY <1>1 DEF TypeOK, Field, IdEnd
  <2> QED
    BY <1>1, <2>1, FieldCells
<1>2. CASE pc = "length"
  <2>1. arg \in Id /\ Field(pc) = Cells(arg, 2 + 1, 2 + 2)
    BY <1>2 DEF TypeOK, Field, IdEnd, LengthEnd
  <2> QED
    BY <1>2, <2>1, FieldCells
<1>3. CASE pc = "data"
  <2>1. arg \in Id /\ Field(pc) = Cells(arg, 4 + 1, 4 + 2)
    BY <1>3 DEF TypeOK, Field, LengthEnd, RecordLen
  <2> QED
    BY <1>3, <2>1, FieldCells
<1>4. CASE pc \notin {"id", "length", "data"}
  <2>1. Field(pc) = <<>>
    BY <1>4 DEF Field
  <2> QED
    BY <1>4, <2>1
<1> QED
  BY <1>1, <1>2, <1>3, <1>4

LEMMA QueueInit == Init => QueueInv
<1> SUFFICES ASSUME Init PROVE QueueInv
  OBVIOUS
<1>1. file \in Seq(Cell) /\ Len(file) = 0
  BY DEF Init
<1>2. TypeOK
  <2>1. cut \in BOOLEAN
    BY Zenon DEF Init
  <2> QED
    BY <1>1, <2>1, SendQueueAssumption DEF Init, TypeOK
<1> QED
  BY <1>2 DEF Init, QueueInv, Standing, Stored, Held, OwedKept

\* OpenSendQueue reads every record of a file it can read, those on the disk
\* included.
LEMMA OpenStep ==
    ASSUME QueueInv, OpenSendQueue PROVE QueueInv'
<1>0. TypeOK /\ Standing /\ Stored /\ Held /\ OwedKept
  BY DEF QueueInv
<1>1. mode # "open" /\ pc = "idle" /\ UNCHANGED <<file, synced, pc, arg, owed, cut, faults>>
  BY <1>0 DEF OpenSendQueue, Standing
<1>2. file \in Seq(Cell) /\ synced \in 0..Len(file) /\ Len(file) \in Nat
  BY <1>0 DEF TypeOK
<1>3. CASE Loads(file, RecordLen)
  <2>1. /\ mode' = "open" /\ queue' = ToSetOf(Records(file, RecordLen))
        /\ adopted' = (adopted \cup queue') \ Disk(file, synced)
    BY <1>3 DEF OpenSendQueue, OnDisk, Disk
  <2>2. SubSeq(file, 1, Len(file)) = file
    BY <1>2, SubSeqFull
  <2>3. queue' = Disk(file, Len(file))
    BY <2>1, <2>2 DEF Disk
  <2>4. Disk(file, synced) \subseteq queue'
    BY <1>2, <2>3, DiskGrows
  <2>5. InStep(SubSeq(file, 1, synced), RecordLen)
    BY <1>0, <1>3, SyncedInStep DEF Loads
  <2>6. owed \ adopted \subseteq Disk(file, synced)
    BY <1>0, <2>5 DEF Stored
  <2>7. OwedKept' /\ Stored' /\ Held'
    BY <1>1, <2>1, <2>3, <2>4, <2>6 DEF OwedKept, Stored, Held
  <2>8. queue' \subseteq IdsIn(file) /\ queue' \subseteq Id
    <3>1. ASSUME NEW e \in queue' PROVE e \in IdsIn(file) /\ e \in Id
      <4>1. PICK k \in Nat \ {0} : RecordLen * k <= Len(file) /\ e = RecAt(file, k)
        BY <1>2, <2>3, DiskIds
      <4>2. (k - 1) * RecordLen + 1 \in 1..Len(file)
        BY <1>2, <4>1 DEF RecordLen
      <4>3. file[(k - 1) * RecordLen + 1] \in Cell
        BY <1>2, <4>2
      <4> QED
        BY <4>1, <4>2, <4>3 DEF RecAt, IdsIn, Cell
    <3> QED
      BY <3>1
  <2>9. TypeOK'
    BY <1>0, <1>1, <2>1, <2>8 DEF TypeOK, IdsIn
  <2>10. Standing'
    BY <1>1, <2>1 DEF Standing
  <2> QED
    BY <2>7, <2>9, <2>10 DEF QueueInv
<1>4. CASE ~Loads(file, RecordLen)
  <2>1. mode' = "broken" /\ UNCHANGED <<queue, adopted>>
    BY <1>4 DEF OpenSendQueue
  <2>2. TypeOK'
    BY <1>0, <1>1, <2>1 DEF TypeOK
  <2>3. Standing' /\ Stored' /\ Held' /\ OwedKept'
    BY <1>0, <1>1, <2>1 DEF Standing, Stored, Held, OwedKept
  <2> QED
    BY <2>2, <2>3 DEF QueueInv
<1> QED
  BY <1>3, <1>4

\* The steps that leave the file alone.
LEMMA QuietStep ==
    ASSUME QueueInv, Close \/ \E id \in Id : AddDuplicate(id) \/ AddBegin(id) \/ Ack(id)
    PROVE  QueueInv'
<1>0. TypeOK /\ Standing /\ Stored /\ Held /\ OwedKept
  BY DEF QueueInv
<1>1. CASE Close
  <2>1. TypeOK'
    BY <1>0, <1>1 DEF Close, TypeOK
  <2>2. Standing' /\ Stored' /\ Held' /\ OwedKept'
    BY <1>0, <1>1 DEF Close, Standing, Stored, Held, OwedKept
  <2> QED
    BY <2>1, <2>2 DEF QueueInv
<1>2. ASSUME NEW id \in Id, AddDuplicate(id) PROVE QueueInv'
  <2>1. TypeOK'
    BY <1>0, <1>2 DEF AddDuplicate, TypeOK
  <2>2. Standing' /\ Stored' /\ Held' /\ OwedKept'
    BY <1>0, <1>2 DEF AddDuplicate, Standing, Stored, Held, OwedKept
  <2> QED
    BY <2>1, <2>2 DEF QueueInv
<1>3. ASSUME NEW id \in Id, AddBegin(id) PROVE QueueInv'
  <2>1. TypeOK'
    BY <1>0, <1>3 DEF AddBegin, TypeOK
  <2>2. Standing' /\ Stored' /\ Held' /\ OwedKept'
    BY <1>0, <1>3 DEF AddBegin, Standing, Stored, Held, OwedKept
  <2> QED
    BY <2>1, <2>2 DEF QueueInv
<1>4. ASSUME NEW id \in Id, Ack(id) PROVE QueueInv'
  <2>1. /\ mode = "open" /\ pc = "idle" /\ queue' = queue \ {id} /\ owed' = owed \ {id}
        /\ pc' = (IF queue' = {} THEN "truncate" ELSE "ackSync")
        /\ UNCHANGED <<mode, file, synced, arg, adopted, cut, faults>>
    BY <1>4 DEF Ack
  <2>2. TypeOK'
    BY <1>0, <2>1 DEF TypeOK
  <2>3. Standing' /\ Stored' /\ Held' /\ OwedKept'
    BY <1>0, <2>1 DEF Standing, Stored, Held, OwedKept
  <2> QED
    BY <2>2, <2>3 DEF QueueInv
<1> QED
  BY <1>1, <1>2, <1>3, <1>4

\* A write of Add appends to the file, and what Add has written is at its end.
LEMMA WriteStep ==
    ASSUME QueueInv,
           \/ WriteField("id", "length") \/ WriteField("length", "data")
           \/ WriteField("data", "sync")
    PROVE  QueueInv'
<1>0. TypeOK /\ Standing /\ Stored /\ Held /\ OwedKept
  BY DEF QueueInv
<1>1. /\ file' = file \o Field(pc)
      /\ UNCHANGED <<mode, synced, queue, arg, owed, adopted, cut, faults>>
      /\ \/ pc = "id" /\ pc' = "length"
         \/ pc = "length" /\ pc' = "data"
         \/ pc = "data" /\ pc' = "sync"
  BY DEF WriteField
<1>2. PICK c \in Seq(Cell) :
        /\ c = Field(pc) /\ Len(c) = 2
        /\ pc = "id" => c[1] = [rec |-> arg, part |-> 1]
  BY <1>0, <1>1, FieldOf
<1>3. /\ file \in Seq(Cell) /\ Len(file) \in Nat /\ synced \in Nat /\ synced <= Len(file)
      /\ mode = "open"
  BY <1>0, <1>1 DEF TypeOK, Standing
<1>4. /\ file' \in Seq(Cell) /\ Len(file') = Len(file) + 2
      /\ \A i \in 1..Len(file) : file'[i] = file[i]
      /\ file'[Len(file) + 1] = c[1]
  <2>1. /\ file \o c \in Seq(Cell) /\ Len(file \o c) = Len(file) + Len(c)
        /\ \A i \in 1..Len(file) : (file \o c)[i] = file[i]
        /\ \A i \in 1..Len(c) : (file \o c)[Len(file) + i] = c[i]
    BY <1>3, Extended
  <2> QED
    BY <1>1, <1>2, <2>1
<1>5. TypeOK' /\ Held'
  <2>1. synced' \in 0..Len(file') /\ Len(file) <= Len(file')
    BY <1>1, <1>3, <1>4
  <2>2. Held' /\ queue' \subseteq IdsIn(file')
    BY <1>0, <1>1, <1>4, <2>1, HeldKept
  <2> QED
    BY <1>0, <1>1, <1>4, <2>1, <2>2 DEF TypeOK, IdsIn
<1>6. Ends(file', arg, Filled(pc'))
  <2>1. CASE pc = "id"
    <3>1. Filled(pc') = 2 /\ Len(file') - 2 + 1 = Len(file) + 1 /\ 2 <= Len(file')
      BY <1>1, <1>3, <1>4, <2>1 DEF Filled, IdEnd
    <3> QED
      BY <1>2, <1>4, <2>1, <3>1 DEF Ends
  <2>2. CASE pc \in {"length", "data"}
    <3> DEFINE k == Filled(pc)
    <3>1. k \in {2, 4} /\ Filled(pc') = k + 2
      BY <1>1, <2>2 DEF Filled, IdEnd, LengthEnd, RecordLen
    <3>2. k <= Len(file) /\ file[Len(file) - k + 1] = [rec |-> arg, part |-> 1]
      BY <1>0, <2>2 DEF Standing, Ends
    <3> HIDE DEF k
    <3>3. /\ Len(file') - (k + 2) + 1 = Len(file) - k + 1 /\ k + 2 <= Len(file')
          /\ Len(file) - k + 1 \in 1..Len(file)
      BY <1>3, <1>4, <3>1, <3>2
    <3> QED
      BY <1>4, <3>1, <3>2, <3>3 DEF Ends
  <2> QED
    BY <1>1, <2>1, <2>2
<1>7. Standing'
  BY <1>1, <1>3, <1>6 DEF Standing
<1>8. Stored'
  BY <1>0, <1>1, <1>3, <1>4, <1>5, StoredKept DEF TypeOK
<1>9. OwedKept'
  BY <1>0, <1>1 DEF OwedKept
<1> QED
  BY <1>5, <1>7, <1>8, <1>9 DEF QueueInv

\* The sync of Add: the record is at the end of the file, and can be read if
\* the file can.
LEMMA StoreStep ==
    ASSUME QueueInv, SyncAndStore PROVE QueueInv'
<1>0. TypeOK /\ Standing /\ Stored /\ Held /\ OwedKept
  BY DEF QueueInv
<1>1. /\ pc = "sync" /\ pc' = "idle" /\ arg' = NoId /\ arg \in Id
      /\ synced' = Len(file) /\ queue' = queue \cup {arg} /\ owed' = owed \cup {arg}
      /\ adopted' = adopted \ queue' /\ UNCHANGED <<mode, file, cut, faults>>
  BY <1>0 DEF SyncAndStore, TypeOK
<1>2. /\ file \in Seq(Cell) /\ Len(file) \in Nat /\ synced \in 0..Len(file)
      /\ Len(file) \in 0..Len(file)
  BY <1>0 DEF TypeOK
<1>3. Ends(file, arg, RecordLen)
  BY <1>0, <1>1 DEF Standing, Filled
<1>4. TypeOK'
  <2>1. Len(file) - RecordLen + 1 \in 1..Len(file)
    BY <1>2, <1>3 DEF Ends, RecordLen
  <2>2. arg \in IdsIn(file)
    BY <1>3, <2>1 DEF Ends, IdsIn
  <2>3. queue' \subseteq IdsIn(file')
    BY <1>0, <1>1, <2>2 DEF TypeOK, IdsIn
  <2> QED
    BY <1>0, <1>1, <1>2, <2>3 DEF TypeOK, IdsIn
<1>5. Standing' /\ OwedKept'
  BY <1>0, <1>1 DEF Standing, OwedKept
<1>6. ASSUME InStep(file, RecordLen)
      PROVE  /\ queue' \subseteq Disk(file, Len(file))
             /\ (owed' \cup queue') \ adopted' \subseteq Disk(file, Len(file))
  <2>1. arg \in Disk(file, Len(file))
    BY <1>1, <1>2, <1>3, <1>6, LastRecord
  <2>2. queue \subseteq Disk(file, Len(file))
    BY <1>0, <1>6 DEF Held
  <2>3. owed \ adopted \subseteq Disk(file, synced)
    BY <1>0, <1>6, SyncedInStep DEF Stored
  <2>4. Disk(file, synced) \subseteq Disk(file, Len(file))
    BY <1>2, DiskGrows
  <2> QED
    BY <1>1, <2>1, <2>2, <2>3, <2>4
<1>7. SubSeq(file, 1, Len(file)) = file
  BY <1>2, SubSeqFull
<1>8. Stored' /\ Held'
  BY <1>1, <1>6, <1>7 DEF Stored, Held
<1> QED
  BY <1>4, <1>5, <1>8 DEF QueueInv

\* A failed call of Add leaves a part of a record at the end of the file.
LEMMA FailStep ==
    ASSUME QueueInv, NEW kind \in FailKinds, AddFails(kind) PROVE QueueInv'
<1>0. TypeOK /\ Standing /\ Stored /\ Held /\ OwedKept
  BY DEF QueueInv
<1>1. /\ pc' = "idle" /\ arg' = NoId /\ UNCHANGED <<mode, synced, queue, owed, adopted>>
  BY DEF AddFails
<1>2. faults' \in 0..MaxFaults /\ cut' \in BOOLEAN
  BY <1>0, SendQueueAssumption DEF AddFails, Fault, TypeOK
<1>3. /\ file \in Seq(Cell) /\ Len(file) \in Nat /\ synced \in Nat /\ synced <= Len(file)
      /\ Field(pc) \in Seq(Cell) /\ Len(Field(pc)) \in Nat
  BY <1>0, FieldOf DEF TypeOK
<1>4. PICK n \in 0..(Len(Field(pc)) \div 2) : file' = file \o SubSeq(Field(pc), 1, n)
  BY DEF AddFails
<1>5. n \in 0..Len(Field(pc))
  BY <1>3
<1>6. PICK c \in Seq(Cell) : c = SubSeq(Field(pc), 1, n)
  BY <1>3, <1>5, Beginning
<1>7. /\ file' \in Seq(Cell) /\ Len(file') >= Len(file) /\ Len(file') \in Nat
      /\ \A i \in 1..Len(file) : file'[i] = file[i]
  <2>1. /\ file \o c \in Seq(Cell) /\ Len(file \o c) = Len(file) + Len(c)
        /\ \A i \in 1..Len(file) : (file \o c)[i] = file[i] /\ Len(c) \in Nat
    BY <1>3, Extended
  <2>2. file' = file \o c /\ Len(c) \in Nat
    BY <1>4, <1>6
  <2> QED
    BY <1>3, <2>1, <2>2
<1>8. synced' \in 0..Len(file')
  BY <1>1, <1>3, <1>7
<1>9. TypeOK' /\ Held'
  <2>1. Held' /\ queue' \subseteq IdsIn(file')
    BY <1>0, <1>1, <1>7, HeldKept
  <2> QED
    BY <1>0, <1>1, <1>2, <1>7, <1>8, <2>1 DEF TypeOK, IdsIn
<1>10. Standing' /\ OwedKept'
  BY <1>0, <1>1 DEF Standing, OwedKept
<1>11. Stored'
  BY <1>0, <1>1, <1>3, <1>7, <1>8, StoredKept
<1> QED
  BY <1>9, <1>10, <1>11 DEF QueueInv

\* Ack: nothing is owed when the file is truncated.
LEMMA AckSteps ==
    ASSUME QueueInv, Truncate \/ AckSync PROVE QueueInv'
<1>0. TypeOK /\ Standing /\ Stored /\ Held /\ OwedKept
  BY DEF QueueInv
<1>1. /\ file \in Seq(Cell) /\ Len(file) \in Nat /\ synced \in Nat /\ synced <= Len(file)
      /\ pc \in {"truncate", "ackSync"} /\ mode = "open" /\ arg = NoId
  BY <1>0 DEF TypeOK, Standing, Truncate, AckSync
<1>2. faults' \in 0..MaxFaults /\ cut' \in BOOLEAN
  <2>1. faults' \in 0..MaxFaults
    BY <1>0, SendQueueAssumption DEF Truncate, AckSync, Fault, TypeOK
  <2>2. cut' = FALSE \/ cut' = cut
    BY Zenon DEF Truncate, AckSync
  <2>3. cut' \in BOOLEAN
    BY <1>0, <2>2, Zenon DEF TypeOK
  <2> QED
    BY <2>1, <2>3
<1>3. UNCHANGED <<mode, queue, arg, owed>> /\ pc' \in {"ackSync", "idle"}
  BY DEF Truncate, AckSync
<1>4. adopted' = adopted \/ adopted' = adopted \ queue
  BY DEF Truncate, AckSync
<1>5. Standing' /\ OwedKept'
  BY <1>0, <1>1, <1>3, <1>4 DEF Standing, OwedKept
<1>6. CASE file' = <<>> /\ synced' = 0 /\ adopted' = adopted /\ pc = "truncate"
  <2>1. queue' = {} /\ owed' \ adopted' = {}
    BY <1>0, <1>1, <1>3, <1>6 DEF Standing, OwedKept
  <2>2. file' \in Seq(Cell) /\ synced' \in 0..Len(file')
    BY <1>6
  <2>3. TypeOK'
    BY <1>0, <1>1, <1>2, <1>3, <1>6, <2>1, <2>2 DEF TypeOK
  <2>4. Stored' /\ Held'
    BY <2>1 DEF Stored, Held
  <2> QED
    BY <1>5, <2>3, <2>4 DEF QueueInv
<1>7. CASE file' = file /\ synced' = synced /\ adopted' = adopted
  <2>1. TypeOK'
    BY <1>0, <1>1, <1>2, <1>3, <1>7 DEF TypeOK
  <2>2. Stored' /\ Held'
    BY <1>0, <1>3, <1>7 DEF Stored, Held
  <2> QED
    BY <1>5, <2>1, <2>2 DEF QueueInv
<1>8. CASE file' = file /\ synced' = Len(file) /\ adopted' = adopted \ queue
  <2>1. TypeOK'
    <3>1. synced' \in 0..Len(file')
      BY <1>1, <1>8
    <3> QED
      BY <1>0, <1>1, <1>2, <1>3, <1>8, <3>1 DEF TypeOK
  <2>2. Held'
    BY <1>0, <1>3, <1>8 DEF Held
  <2>3. ASSUME InStep(file, RecordLen)
        PROVE  (owed \cup queue) \ adopted' \subseteq Disk(file, Len(file))
    <3>1. queue \subseteq Disk(file, Len(file))
      BY <1>0, <2>3 DEF Held
    <3>2. owed \ adopted \subseteq Disk(file, synced)
      BY <1>0, <2>3, SyncedInStep DEF Stored
    <3>3. Disk(file, synced) \subseteq Disk(file, Len(file))
      <4>1. synced \in 0..Len(file) /\ Len(file) \in 0..Len(file)
        BY <1>1
      <4> QED
        BY <1>1, <4>1, DiskGrows
    <3> QED
      BY <1>8, <3>1, <3>2, <3>3
  <2>4. SubSeq(file, 1, Len(file)) = file
    BY <1>1, SubSeqFull
  <2>5. Stored'
    BY <1>3, <1>8, <2>3, <2>4 DEF Stored
  <2> QED
    BY <1>5, <2>1, <2>2, <2>5 DEF QueueInv
<1> QED
  BY <1>6, <1>7, <1>8 DEF Truncate, AckSync

\* A crash keeps what is on the disk.
LEMMA CrashStep ==
    ASSUME QueueInv, NEW kind \in CrashKinds, Crash(kind) PROVE QueueInv'
<1> DEFINE left == file \o Field(pc)
<1>0. TypeOK /\ Standing /\ Stored /\ Held /\ OwedKept
  BY DEF QueueInv
<1>1. /\ mode' = "down" /\ queue' = {} /\ pc' = "idle" /\ arg' = NoId
      /\ owed' = owed /\ adopted' = adopted
  BY DEF Crash
<1>2. faults' \in 0..MaxFaults /\ cut' \in BOOLEAN
  BY <1>0, SendQueueAssumption DEF Crash, Fault, TypeOK
<1>3. /\ file \in Seq(Cell) /\ Len(file) \in Nat /\ synced \in Nat /\ synced <= Len(file)
      /\ Field(pc) \in Seq(Cell)
  BY <1>0, FieldOf DEF TypeOK
<1>4. PICK n \in 0..Len(left) :
        /\ n >= (IF kind = "power" THEN synced ELSE Len(file))
        /\ file' = SubSeq(left, 1, n)
        /\ synced' = IF kind = "power" THEN n ELSE synced
  BY DEF Crash
<1>5. left \in Seq(Cell) /\ \A i \in 1..Len(file) : left[i] = file[i]
  BY <1>3, Extended
<1> HIDE DEF left
<1>6. n \in Nat /\ synced <= n
  BY <1>3, <1>4, <1>5
<1>7. file' \in Seq(Cell) /\ Len(file') = n /\ \A i \in 1..n : file'[i] = left[i]
  BY <1>4, <1>5, <1>6, Beginning
<1>8. ASSUME NEW i \in 1..synced PROVE file'[i] = file[i]
  <2>1. i \in 1..n /\ i \in 1..Len(file)
    BY <1>3, <1>6
  <2> QED
    BY <1>5, <1>7, <2>1
<1>9. synced' \in 0..Len(file') /\ synced <= synced'
  BY <1>3, <1>4, <1>6, <1>7
<1>10. TypeOK'
  BY <1>0, <1>1, <1>2, <1>7, <1>9 DEF TypeOK
<1>11. Standing' /\ Held' /\ OwedKept'
  BY <1>1 DEF Standing, Held, OwedKept
<1>12. Stored'
  BY <1>0, <1>1, <1>7, <1>8, <1>9, StoredKept
<1> QED
  BY <1>10, <1>11, <1>12 DEF QueueInv

LEMMA QueueStep == QueueInv /\ [Next]_queueVars => QueueInv'
<1> SUFFICES ASSUME QueueInv, [Next]_queueVars PROVE QueueInv'
  OBVIOUS
<1>1. CASE UNCHANGED queueVars
  <2>1. TypeOK'
    BY <1>1 DEF QueueInv, TypeOK, queueVars
  <2>2. Standing' /\ Stored' /\ Held' /\ OwedKept'
    BY <1>1 DEF QueueInv, Standing, Stored, Held, OwedKept, queueVars
  <2> QED
    BY <2>1, <2>2 DEF QueueInv
<1> QED
  BY <1>1, OpenStep, QuietStep, WriteStep, StoreStep, FailStep, AckSteps, CrashStep DEF Next

LEMMA QueueInvariance == Spec => []QueueInv
BY QueueInit, QueueStep, PTL DEF Spec

-----------------------------------------------------------------------------
(***************************************************************************)
(* A file in which nothing was cut short.                                  *)
(***************************************************************************)

\* The cells of the last record, when it is not whole.
Begun(at) == IF at = "length" THEN IdEnd ELSE IF at = "data" THEN LengthEnd ELSE 0

\* The file is whole records, and what Add has written of another one.
Whole == InStep(file, RecordLen) /\ Len(file) % RecordLen = Begun(pc)

CutInv == (cut \/ Whole) /\ OnlyCutsRefused

\* The cells of one of the writes of Add, cell by cell.
LEMMA FieldParts ==
    ASSUME TypeOK, pc \in {"id", "length", "data"}
    PROVE  /\ Field(pc) \in Seq(Cell) /\ Len(Field(pc)) = 2
           /\ Begun(pc) \in {0, 2, 4}
           /\ \A i \in 1..2 : Field(pc)[i] = [rec |-> arg, part |-> Begun(pc) + i]
<1> DEFINE a == Begun(pc)
<1>1. a \in {0, 2, 4} /\ Field(pc) = Cells(arg, a + 1, a + 2)
  BY DEF Begun, Field, IdEnd, LengthEnd, RecordLen
<1> HIDE DEF a
<1>2. Cells(arg, a + 1, a + 2) = [i \in 1..2 |-> [rec |-> arg, part |-> a + i]]
  <2>1. (a + 2) + 1 - (a + 1) = 2
    BY <1>1
  <2>2. \A i \in 1..2 : a + 1 + i - 1 = a + i
    BY <1>1
  <2> QED
    BY <2>1, <2>2 DEF Cells
<1>3. Field(pc) \in Seq(Cell) /\ Len(Field(pc)) = 2
  BY FieldOf
<1> QED
  BY <1>1, <1>2, <1>3 DEF a

\* A write of Add goes on with the record the ones before it have begun.
LEMMA WriteWhole ==
    ASSUME QueueInv, Whole,
           \/ WriteField("id", "length") \/ WriteField("length", "data")
           \/ WriteField("data", "sync")
    PROVE  Whole'
<1> DEFINE a == Begun(pc)
           n == Len(file)
<1>1. /\ file' = file \o Field(pc)
      /\ \/ pc = "id" /\ pc' = "length"
         \/ pc = "length" /\ pc' = "data"
         \/ pc = "data" /\ pc' = "sync"
  BY DEF WriteField
<1>2. /\ Field(pc) \in Seq(Cell) /\ Len(Field(pc)) = 2 /\ a \in {0, 2, 4}
      /\ \A i \in 1..2 : Field(pc)[i] = [rec |-> arg, part |-> a + i]
  BY <1>1, FieldParts DEF QueueInv
<1>3. file \in Seq(Cell) /\ n \in Nat /\ n % 6 = a
  BY DEF QueueInv, TypeOK, Whole, RecordLen
<1>4. /\ Len(file') = n + 2
      /\ \A i \in 1..n : file'[i] = file[i]
      /\ \A i \in 1..2 : file'[n + i] = [rec |-> arg, part |-> a + i]
  <2> HIDE DEF a
  <2>1. PICK c \in Seq(Cell) :
          c = Field(pc) /\ Len(c) = 2 /\ \A i \in 1..2 : c[i] = [rec |-> arg, part |-> a + i]
    BY <1>2
  <2>2. /\ Len(file \o c) = n + Len(c)
        /\ \A i \in 1..n : (file \o c)[i] = file[i]
        /\ \A i \in 1..Len(c) : (file \o c)[n + i] = c[i]
    BY <1>3, Extended
  <2> QED
    BY <1>1, <2>1, <2>2
<1>5. a # 0 => n - a + 1 \in 1..n /\ file[n - a + 1].rec = arg
  <2>1. a # 0 => pc \in {"length", "data"} /\ Filled(pc) = a
    BY <1>1 DEF Begun, Filled, IdEnd, LengthEnd
  <2>2. a # 0 => Ends(file, arg, a)
    BY <2>1 DEF QueueInv, Standing
  <2> HIDE DEF a, n
  <2>3. a # 0 => a <= n /\ file[n - a + 1] = [rec |-> arg, part |-> 1]
    BY <2>2 DEF Ends, n
  <2>4. a # 0 /\ a <= n => n - a + 1 \in 1..n
    BY <1>2, <1>3
  <2> QED
    BY <2>3, <2>4
<1>6. (n + 2) % 6 = Begun(pc')
  <2>1. \/ a = 0 /\ Begun(pc') = 2
        \/ a = 2 /\ Begun(pc') = 4
        \/ a = 4 /\ Begun(pc') = 0
    BY <1>1 DEF Begun, IdEnd, LengthEnd
  <2> HIDE DEF a, n
  <2>2. /\ a = 0 => (n + 2) % 6 = 2
        /\ a = 2 => (n + 2) % 6 = 4
        /\ a = 4 => (n + 2) % 6 = 0
    BY <1>3
  <2> QED
    BY <2>1, <2>2
<1> HIDE DEF a, n
<1>7. file'[n - a + 1].rec = arg /\ n - a + 1 \in Nat
  <2>1. CASE a = 0
    <3>1. n - a + 1 = n + 1
      BY <1>3, <2>1
    <3>2. file'[n + 1].rec = arg
      BY <1>4
    <3> QED
      BY <1>3, <3>1, <3>2
  <2>2. CASE a # 0
    BY <1>4, <1>5, <2>2
  <2> QED
    BY <2>1, <2>2
<1>8. ASSUME NEW i \in 1..(n + 2)
      PROVE  /\ file'[i].part = ((i - 1) % 6) + 1
             /\ file'[i].rec = file'[i - ((i - 1) % 6)].rec
  <2>1. CASE i <= n
    <3>1. i \in 1..n /\ i - ((i - 1) % 6) \in 1..n
      BY <1>3, <2>1
    <3>2. file'[i] = file[i] /\ file'[i - ((i - 1) % 6)] = file[i - ((i - 1) % 6)]
      BY <1>4, <3>1
    <3>3. /\ file[i].part = ((i - 1) % 6) + 1
          /\ file[i].rec = file[i - ((i - 1) % 6)].rec
      BY <3>1 DEF Whole, InStep, RecordLen, n
    <3> QED
      BY <3>2, <3>3
  <2>2. CASE i > n
    <3>1. PICK k \in 1..2 : i = n + k
      BY <1>3, <2>2
    <3>2. (i - 1) % 6 = a + k - 1
      BY <1>2, <1>3, <3>1
    <3>3. i - ((i - 1) % 6) = n - a + 1 /\ ((i - 1) % 6) + 1 = a + k
      BY <1>2, <1>3, <3>1, <3>2
    <3>4. file'[i] = [rec |-> arg, part |-> a + k]
      BY <1>4, <3>1
    <3> QED
      BY <1>7, <3>3, <3>4
  <2> QED
    BY <1>3, <2>1, <2>2
<1>9. InStep(file', 6)
  BY <1>4, <1>8 DEF InStep
<1> QED
  BY <1>4, <1>6, <1>9 DEF Whole, RecordLen

\* The steps that leave the file alone, or empty it.
LEMMA OtherWhole ==
    ASSUME QueueInv, Whole,
           \/ Close \/ SyncAndStore \/ Truncate \/ AckSync \/ OpenSendQueue
           \/ \E id \in Id : AddDuplicate(id) \/ AddBegin(id) \/ Ack(id)
    PROVE  Whole'
<1>1. (file' = file \/ file' = <<>>) /\ Begun(pc') = 0 /\ Begun(pc) = 0
  BY DEF QueueInv, Standing, Close, SyncAndStore, Truncate, AckSync, OpenSendQueue,
     AddDuplicate, AddBegin, Ack, Begun
<1>2. CASE file' = file
  BY <1>1, <1>2 DEF Whole
<1>3. CASE file' = <<>>
  <2>1. Len(file') = 0 /\ 0 % 6 = 0
    BY <1>3
  <2> QED
    BY <1>1, <2>1 DEF Whole, InStep, RecordLen
<1> QED
  BY <1>1, <1>2, <1>3

\* A failed sync, and a crash that meets no cells on their way to the disk.
LEMMA FaultWhole ==
    ASSUME QueueInv, Whole, ~cut',
           \/ \E kind \in FailKinds : AddFails(kind)
           \/ \E kind \in CrashKinds : Crash(kind)
    PROVE  Whole'
<1>0. file \in Seq(Cell) /\ Len(file) \in Nat /\ synced \in 0..Len(file)
  BY DEF QueueInv, TypeOK
<1>1. pc' = "idle"
  BY DEF AddFails, Crash
<1>2. pc \notin {"id", "length", "data"}
  BY Zenon DEF AddFails, Crash
<1>3. Field(pc) = <<>>
  BY <1>2 DEF Field
<1>4. file' = file
  <2>1. ASSUME NEW kind \in FailKinds, AddFails(kind) PROVE file' = file
    <3>1. PICK n \in 0..(Len(<<>>) \div 2) : file' = file \o SubSeq(<<>>, 1, n)
      BY <1>3, <2>1 DEF AddFails
    <3>2. n = 0
      BY <3>1
    <3> QED
      BY <1>0, <3>1, <3>2
  <2>2. ASSUME NEW kind \in CrashKinds, Crash(kind) PROVE file' = file
    <3>1. file \o Field(pc) = file
      BY <1>0, <1>3
    <3>2. ~(kind = "power" /\ synced < Len(file))
      BY <2>2, Zenon DEF Crash
    <3>3. PICK n \in 0..Len(file) :
            /\ n >= (IF kind = "power" THEN synced ELSE Len(file))
            /\ file' = SubSeq(file, 1, n)
      BY <2>2, <3>1 DEF Crash
    <3>4. n = Len(file)
      BY <1>0, <3>2, <3>3
    <3> QED
      BY <1>0, <3>3, <3>4, SubSeqFull
  <2> QED
    BY <2>1, <2>2
<1> QED
  BY <1>1, <1>2, <1>4 DEF Whole, Begun

LEMMA CutStep == QueueInv /\ CutInv /\ [Next]_queueVars => CutInv'
<1> SUFFICES ASSUME QueueInv, CutInv, [Next]_queueVars PROVE CutInv'
  OBVIOUS
<1>1. ASSUME Whole PROVE cut' \/ Whole'
  <2>1. CASE UNCHANGED queueVars
    BY <1>1, <2>1 DEF Whole, queueVars
  <2> QED
    BY <1>1, <2>1, WriteWhole, OtherWhole, FaultWhole DEF Next
<1>2. ASSUME cut, ~cut' PROVE Whole'
  <2>1. Truncate /\ file' = <<>> /\ pc' = "ackSync"
    BY <1>2, Zenon DEF Next, queueVars, OpenSendQueue, Close, AddDuplicate, AddBegin, Ack,
       WriteField, SyncAndStore, AddFails, Truncate, AckSync, Crash
  <2>2. Len(file') = 0 /\ 0 % 6 = 0 /\ Begun(pc') = 0
    BY <2>1 DEF Begun
  <2> QED
    BY <2>2 DEF Whole, InStep, RecordLen
<1>3. OnlyCutsRefused'
  <2>1. CASE OpenSendQueue
    <3>1. pc = "idle" /\ cut' = cut
      BY <2>1 DEF QueueInv, Standing, OpenSendQueue
    <3>2. Whole => Loads(file, RecordLen)
      BY <3>1 DEF Whole, Begun, Loads
    <3>3. mode' = "broken" => ~Loads(file, RecordLen)
      BY <2>1 DEF OpenSendQueue
    <3> QED
      BY <3>1, <3>2, <3>3 DEF CutInv, OnlyCutsRefused
  <2>2. CASE ~OpenSendQueue
    <3>1. mode' = "broken" => mode = "broken" /\ cut' = cut
      BY <2>2 DEF QueueInv, Standing, Next, queueVars, Close, AddDuplicate, AddBegin, Ack,
         WriteField, SyncAndStore, AddFails, Truncate, AckSync, Crash
    <3> QED
      BY <3>1 DEF CutInv, OnlyCutsRefused
  <2> QED
    BY <2>1, <2>2
<1> QED
  BY <1>1, <1>2, <1>3, Zenon DEF CutInv

-----------------------------------------------------------------------------
\* The types, for any set of keys, any length of the file and any faults.
THEOREM QueueTypes == Spec => []TypeOK
<1>1. QueueInv => TypeOK
  BY DEF QueueInv
<1> QED
  BY <1>1, QueueInvariance, PTL

\* What Add reported as stored and nobody acknowledged is on the disk in a
\* record that can be read, but for what was adopted unsynced, as long as the
\* file is in step, whichever calls failed and whenever the process or the
\* machine stopped, for any number of entries and faults.
THEOREM OwedDurableCorrect == Spec => []OwedDurable
<1>1. QueueInv => OwedDurable
  BY SyncedInStep DEF QueueInv, Stored, OwedDurable, OnDisk, Disk
<1> QED
  BY <1>1, QueueInvariance, PTL

\* A session that opens the queue has every entry that an earlier one reported
\* as stored and that was not acknowledged: none is forgotten, but for one that
\* was adopted unsynced and lost with the power.
THEOREM OwedKeptCorrect == Spec => []OwedKept
<1>1. QueueInv => OwedKept
  BY DEF QueueInv
<1> QED
  BY <1>1, QueueInvariance, PTL

\* OpenSendQueue refuses a file only if a record in it was cut short by a failed
\* write, a crash in Add or the loss of cells that were not synced.
THEOREM OnlyCutsRefusedCorrect == Spec => []OnlyCutsRefused
<1>1. Init => CutInv
  <2> SUFFICES ASSUME Init PROVE CutInv
    OBVIOUS
  <2>1. Len(file) = 0 /\ 0 % 6 = 0 /\ Begun(pc) = 0 /\ mode # "broken"
    BY DEF Init, Begun
  <2>2. Whole
    BY <2>1 DEF Whole, InStep, RecordLen
  <2> QED
    BY <2>1, <2>2 DEF CutInv, OnlyCutsRefused
<1>2. CutInv => OnlyCutsRefused
  BY DEF CutInv
<1> QED
  BY <1>1, <1>2, CutStep, QueueInvariance, PTL DEF Spec
=============================================================================
