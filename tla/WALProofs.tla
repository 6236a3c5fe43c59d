----------------------------- MODULE WALProofs -----------------------------
(***************************************************************************)
(* One write-ahead log: the proofs.                                        *)
(*                                                                         *)
(* Everything follows from where the file stands (Layout): its records     *)
(* always begin where a reader looks for one, it is the memory followed by *)
(* what the Append under way has written, and a rollback never reaches     *)
(* below what is on the disk.  So no step takes anything from the disk     *)
(* (DiskKept), and the histories that are compared with it stay on it.     *)
(***************************************************************************)
EXTENDS WAL, SequenceTheorems, TLAPS

-----------------------------------------------------------------------------
(***************************************************************************)
(* Files of whole and broken records.                                      *)
(***************************************************************************)

\* The record that starts where the j-th one is looked for.
RecAt(f, j) == f[(j - 1) * RecordLen + 1].rec

LEMMA CellSeq ==
    ASSUME NEW k \in Nat, NEW c \in [1..k -> Cell]
    PROVE  c \in Seq(Cell) /\ Len(c) = k
OBVIOUS

\* The cells of one Write.
LEMMA HeaderCells ==
    ASSUME NEW e \in Entry
    PROVE  /\ Cells(e, 1, HeaderEnd) \in Seq(Cell)
           /\ Len(Cells(e, 1, HeaderEnd)) = 2
           /\ \A i \in 1..2 : Cells(e, 1, HeaderEnd)[i] = [rec |-> e, part |-> i]
<1>1. Cells(e, 1, HeaderEnd) = [i \in 1..2 |-> [rec |-> e, part |-> i]]
  BY DEF Cells, HeaderEnd
<1>2. \A i \in 1..2 : [rec |-> e, part |-> i] \in Cell
  BY DEF Cell, RecordLen
<1>3. Cells(e, 1, HeaderEnd) \in [1..2 -> Cell]
  BY <1>1, <1>2
<1>4. \A i \in 1..2 : Cells(e, 1, HeaderEnd)[i] = [rec |-> e, part |-> i]
  BY <1>1
<1> QED
  BY <1>3, <1>4, CellSeq

LEMMA DataCells ==
    ASSUME NEW e \in Entry
    PROVE  /\ Cells(e, HeaderEnd + 1, RecordLen) \in Seq(Cell)
           /\ Len(Cells(e, HeaderEnd + 1, RecordLen)) = 2
           /\ \A i \in 1..2 : Cells(e, HeaderEnd + 1, RecordLen)[i] = [rec |-> e, part |-> i + 2]
<1>1. Cells(e, HeaderEnd + 1, RecordLen) = [i \in 1..2 |-> [rec |-> e, part |-> i + 2]]
  BY DEF Cells, HeaderEnd, RecordLen
<1>2. \A i \in 1..2 : [rec |-> e, part |-> i + 2] \in Cell
  BY DEF Cell, RecordLen
<1>3. Cells(e, HeaderEnd + 1, RecordLen) \in [1..2 -> Cell]
  BY <1>1, <1>2
<1>4. \A i \in 1..2 : Cells(e, HeaderEnd + 1, RecordLen)[i] = [rec |-> e, part |-> i + 2]
  BY <1>1
<1> QED
  BY <1>3, <1>4, CellSeq

\* What a file begins with.
LEMMA Beginning ==
    ASSUME NEW f \in Seq(Cell), NEW n \in 0..Len(f)
    PROVE  /\ SubSeq(f, 1, n) \in Seq(Cell)
           /\ Len(SubSeq(f, 1, n)) = n
           /\ \A i \in 1..n : SubSeq(f, 1, n)[i] = f[i]
OBVIOUS

LEMMA Extended ==
    ASSUME NEW f \in Seq(Cell), NEW g \in Seq(Cell)
    PROVE  /\ f \o g \in Seq(Cell)
           /\ Len(f \o g) = Len(f) + Len(g)
           /\ \A i \in 1..Len(f) : (f \o g)[i] = f[i]
           /\ \A i \in 1..Len(g) : (f \o g)[Len(f) + i] = g[i]
OBVIOUS

\* A write at the end of the file appends to it.
LEMMA WriteAtEnd ==
    ASSUME NEW f \in Seq(Cell), NEW g \in Seq(Cell)
    PROVE  /\ SubSeq(f, 1, Len(f)) \o g \o SubSeq(f, Len(f) + Len(g) + 1, Len(f)) = f \o g
           /\ SubSeq(f, 1, Len(f)) \o g = f \o g
<1>1. SubSeq(f, 1, Len(f)) = f
  BY SubSeqFull
<1>2. SubSeq(f, Len(f) + Len(g) + 1, Len(f)) = <<>>
  BY SubSeqEmpty
<1>3. f \o g \in Seq(Cell) /\ (f \o g) \o <<>> = f \o g
  BY ConcatEmptySeq, Extended
<1> QED
  BY <1>1, <1>2, <1>3

\* A file cut short at any cell is in step.
LEMMA CutInStep ==
    ASSUME NEW f \in Seq(Cell), InStep(f, RecordLen), NEW n \in 0..Len(f)
    PROVE  InStep(SubSeq(f, 1, n), RecordLen)
<1> DEFINE g == SubSeq(f, 1, n)
<1>1. Len(g) = n /\ \A i \in 1..n : g[i] = f[i]
  BY Beginning
<1> HIDE DEF g
<1>2. ASSUME NEW i \in 1..Len(g)
      PROVE  /\ g[i].part = ((i - 1) % RecordLen) + 1
             /\ g[i].rec = g[i - ((i - 1) % RecordLen)].rec
  <2>1. i \in 1..Len(f) /\ i \in 1..n /\ i - ((i - 1) % RecordLen) \in 1..n
    BY <1>1 DEF RecordLen
  <2>2. g[i] = f[i] /\ g[i - ((i - 1) % RecordLen)] = f[i - ((i - 1) % RecordLen)]
    BY <1>1, <2>1
  <2> QED
    BY <2>1, <2>2 DEF InStep
<1>3. InStep(g, RecordLen)
  BY <1>2 DEF InStep
<1> QED
  BY <1>3 DEF g

\* A header behind whole records.
LEMMA HeaderInStep ==
    ASSUME NEW f \in Seq(Cell), InStep(f, RecordLen), NEW m \in Nat,
           Len(f) = RecordLen * m, NEW e \in Entry
    PROVE  /\ InStep(f \o Cells(e, 1, HeaderEnd), RecordLen)
           /\ RecAt(f \o Cells(e, 1, HeaderEnd), m + 1) = e
<1> DEFINE c == Cells(e, 1, HeaderEnd)
           g == f \o c
<1>1. c \in Seq(Cell) /\ Len(c) = 2 /\ \A i \in 1..2 : c[i] = [rec |-> e, part |-> i]
  BY HeaderCells
<1> HIDE DEF c
<1>2. /\ Len(g) = Len(f) + 2
      /\ \A i \in 1..Len(f) : g[i] = f[i]
      /\ \A i \in 1..2 : g[Len(f) + i] = c[i]
  <2>1. /\ Len(g) = Len(f) + Len(c)
        /\ \A i \in 1..Len(f) : g[i] = f[i]
        /\ \A i \in 1..Len(c) : g[Len(f) + i] = c[i]
    BY <1>1, Extended
  <2> QED
    BY <1>1, <2>1
<1> HIDE DEF g
<1>3. /\ g[4 * m + 1].rec = e /\ g[4 * m + 1].part = 1
      /\ g[4 * m + 2].rec = e /\ g[4 * m + 2].part = 2
      /\ Len(f) = 4 * m
  <2>1. Len(f) = 4 * m /\ Len(f) + 1 = 4 * m + 1 /\ Len(f) + 2 = 4 * m + 2
    BY DEF RecordLen
  <2>2. g[4 * m + 1] = c[1] /\ g[4 * m + 2] = c[2]
    BY <1>2, <2>1
  <2> QED
    BY <1>1, <2>1, <2>2
<1>4. ASSUME NEW i \in 1..Len(g)
      PROVE  /\ g[i].part = ((i - 1) % 4) + 1
             /\ g[i].rec = g[i - ((i - 1) % 4)].rec
  <2>1. CASE i \in 1..Len(f)
    <3>1. i - ((i - 1) % 4) \in 1..Len(f)
      BY <2>1
    <3>2. g[i] = f[i] /\ g[i - ((i - 1) % 4)] = f[i - ((i - 1) % 4)]
      BY <1>2, <2>1, <3>1
    <3> QED
      BY <2>1, <3>2 DEF InStep, RecordLen
  <2>2. CASE i = 4 * m + 1
    <3>1. (i - 1) % 4 = 0 /\ i - 0 = i
      BY <2>2
    <3> QED
      BY <1>3, <2>2, <3>1
  <2>3. CASE i = 4 * m + 2
    <3>1. (i - 1) % 4 = 1 /\ i - 1 = 4 * m + 1
      BY <2>3
    <3> QED
      BY <1>3, <2>3, <3>1
  <2> QED
    BY <1>2, <1>3, <2>1, <2>2, <2>3
<1>5. InStep(g, RecordLen)
  BY <1>4 DEF InStep, RecordLen
<1>6. RecAt(g, m + 1) = e
  <2>1. (m + 1 - 1) * RecordLen + 1 = 4 * m + 1
    BY DEF RecordLen
  <2> QED
    BY <1>3, <2>1 DEF RecAt
<1> QED
  BY <1>5, <1>6 DEF g, c

\* The data behind its header.
LEMMA DataInStep ==
    ASSUME NEW f \in Seq(Cell), InStep(f, RecordLen), NEW m \in Nat,
           Len(f) = RecordLen * m + HeaderEnd, NEW e \in Entry, RecAt(f, m + 1) = e
    PROVE  /\ InStep(f \o Cells(e, HeaderEnd + 1, RecordLen), RecordLen)
           /\ RecAt(f \o Cells(e, HeaderEnd + 1, RecordLen), m + 1) = e
<1> DEFINE c == Cells(e, HeaderEnd + 1, RecordLen)
           g == f \o c
<1>1. c \in Seq(Cell) /\ Len(c) = 2 /\ \A i \in 1..2 : c[i] = [rec |-> e, part |-> i + 2]
  BY DataCells
<1> HIDE DEF c
<1>2. /\ Len(g) = Len(f) + 2
      /\ \A i \in 1..Len(f) : g[i] = f[i]
      /\ \A i \in 1..2 : g[Len(f) + i] = c[i]
  <2>1. /\ Len(g) = Len(f) + Len(c)
        /\ \A i \in 1..Len(f) : g[i] = f[i]
        /\ \A i \in 1..Len(c) : g[Len(f) + i] = c[i]
    BY <1>1, Extended
  <2> QED
    BY <1>1, <2>1
<1> HIDE DEF g
<1>3. /\ g[4 * m + 3].rec = e /\ g[4 * m + 3].part = 3
      /\ g[4 * m + 4].rec = e /\ g[4 * m + 4].part = 4
      /\ g[4 * m + 1].rec = e
      /\ Len(f) = 4 * m + 2
  <2>1. /\ Len(f) = 4 * m + 2 /\ Len(f) + 1 = 4 * m + 3 /\ Len(f) + 2 = 4 * m + 4
        /\ 4 * m + 1 \in 1..Len(f) /\ (m + 1 - 1) * RecordLen + 1 = 4 * m + 1
    BY DEF RecordLen, HeaderEnd
  <2>2. g[4 * m + 3] = c[1] /\ g[4 * m + 4] = c[2] /\ g[4 * m + 1] = f[4 * m + 1]
    BY <1>2, <2>1
  <2>3. f[4 * m + 1].rec = e
    BY <2>1 DEF RecAt
  <2>4. c[1] = [rec |-> e, part |-> 3] /\ c[2] = [rec |-> e, part |-> 4]
    BY <1>1
  <2>5. /\ c[1].rec = e /\ c[1].part = 3
        /\ c[2].rec = e /\ c[2].part = 4
    BY <2>4
  <2> QED
    BY <2>1, <2>2, <2>3, <2>5, Zenon
<1>4. ASSUME NEW i \in 1..Len(g)
      PROVE  /\ g[i].part = ((i - 1) % 4) + 1
             /\ g[i].rec = g[i - ((i - 1) % 4)].rec
  <2>1. CASE i \in 1..Len(f)
    <3>1. i - ((i - 1) % 4) \in 1..Len(f)
      BY <2>1
    <3>2. g[i] = f[i] /\ g[i - ((i - 1) % 4)] = f[i - ((i - 1) % 4)]
      BY <1>2, <2>1, <3>1
    <3> QED
      BY <2>1, <3>2 DEF InStep, RecordLen
  <2>2. CASE i = 4 * m + 3
    <3>1. (i - 1) % 4 = 2 /\ i - 2 = 4 * m + 1
      BY <2>2
    <3> QED
      BY <1>3, <2>2, <3>1
  <2>3. CASE i = 4 * m + 4
    <3>1. (i - 1) % 4 = 3 /\ i - 3 = 4 * m + 1
      BY <2>3
    <3> QED
      BY <1>3, <2>3, <3>1
  <2> QED
    BY <1>2, <1>3, <2>1, <2>2, <2>3
<1>5. InStep(g, RecordLen)
  BY <1>4 DEF InStep, RecordLen
<1>6. RecAt(g, m + 1) = e
  <2>1. (m + 1 - 1) * RecordLen + 1 = 4 * m + 1
    BY DEF RecordLen
  <2> QED
    BY <1>3, <2>1 DEF RecAt
<1> QED
  BY <1>5, <1>6 DEF g, c

\* Records, record by record.
LEMMA RecordsOf ==
    ASSUME NEW f \in Seq(Cell)
    PROVE  /\ Records(f, RecordLen) \in Seq(Entry)
           /\ Len(Records(f, RecordLen)) = Len(f) \div RecordLen
           /\ \A j \in Nat \ {0} : j \in 1..Len(Records(f, RecordLen)) <=> RecordLen * j <= Len(f)
           /\ \A j \in 1..Len(Records(f, RecordLen)) : Records(f, RecordLen)[j] = RecAt(f, j)
<1> DEFINE k == Len(f) \div 4
           r == [j \in 1..k |-> f[(j - 1) * 4 + 1].rec]
<1>1. Records(f, RecordLen) = r
  BY DEF Records, RecordLen
<1>2. k \in Nat
  OBVIOUS
<1>3. ASSUME NEW j \in 1..k PROVE f[(j - 1) * 4 + 1].rec \in Entry
  <2>1. (j - 1) * 4 + 1 \in 1..Len(f)
    OBVIOUS
  <2>2. f[(j - 1) * 4 + 1] \in Cell
    BY <2>1
  <2> QED
    BY <2>2 DEF Cell
<1>4. \A j \in Nat \ {0} : j \in 1..k <=> 4 * j <= Len(f)
  OBVIOUS
<1> HIDE DEF k
<1>5. r \in Seq(Entry) /\ Len(r) = k
  BY <1>2, <1>3
<1>6. \A j \in 1..k : r[j] = RecAt(f, j)
  BY DEF RecAt, RecordLen
<1> QED
  BY <1>1, <1>4, <1>5, <1>6 DEF k, RecordLen

\* The entries on a disk that keeps n cells of the file f.
Disk(f, n) == ToSetOf(Records(SubSeq(f, 1, n), RecordLen))

LEMMA DiskEntries ==
    ASSUME NEW f \in Seq(Cell), NEW n \in 0..Len(f), NEW e
    PROVE  e \in Disk(f, n) <=> \E j \in Nat \ {0} : RecordLen * j <= n /\ e = RecAt(f, j)
<1> DEFINE g == SubSeq(f, 1, n)
           r == Records(g, RecordLen)
<1>1. g \in Seq(Cell) /\ Len(g) = n /\ \A i \in 1..n : g[i] = f[i]
  BY Beginning
<1> HIDE DEF g
<1>2. /\ Len(r) \in Nat
      /\ \A j \in Nat \ {0} : j \in 1..Len(r) <=> RecordLen * j <= n
      /\ \A j \in 1..Len(r) : r[j] = RecAt(g, j)
  BY <1>1, RecordsOf
<1> HIDE DEF r
<1>3. ASSUME NEW j \in Nat \ {0}, RecordLen * j <= n PROVE RecAt(g, j) = RecAt(f, j)
  <2>1. (j - 1) * RecordLen + 1 \in 1..n
    BY <1>3 DEF RecordLen
  <2> QED
    BY <1>1, <2>1 DEF RecAt
<1>4. e \in Disk(f, n) <=> \E j \in 1..Len(r) : e = r[j]
  BY DEF Disk, ToSetOf, r, g
<1> QED
  BY <1>2, <1>3, <1>4

\* A file that keeps what is on the disk keeps the entries there.
LEMMA DiskGrows ==
    ASSUME NEW f \in Seq(Cell), NEW n \in 0..Len(f), NEW g \in Seq(Cell), NEW m \in 0..Len(g),
           n <= m, \A i \in 1..n : g[i] = f[i]
    PROVE  Disk(f, n) \subseteq Disk(g, m)
<1> SUFFICES ASSUME NEW e \in Disk(f, n) PROVE e \in Disk(g, m)
  OBVIOUS
<1>1. PICK j \in Nat \ {0} : RecordLen * j <= n /\ e = RecAt(f, j)
  BY DiskEntries
<1>2. (j - 1) * RecordLen + 1 \in 1..n /\ RecordLen * j <= m
  BY <1>1 DEF RecordLen
<1>3. RecAt(g, j) = RecAt(f, j)
  BY <1>2 DEF RecAt
<1> QED
  BY <1>1, <1>2, <1>3, DiskEntries

-----------------------------------------------------------------------------
(***************************************************************************)
(* Where the file stands.                                                  *)
(***************************************************************************)

\* How many cells Append has written.
Ahead(at) == IF at \in {"idle", "header"} THEN 0
             ELSE IF at = "data" THEN HeaderEnd ELSE RecordLen

\* The file f is the log, and k cells of a record of e.
Holds(f, log, k, e) ==
    /\ Len(f) = RecordLen * Len(log) + k
    /\ \A j \in 1..Len(log) : RecAt(f, j) = log[j]
    /\ k # 0 => RecAt(f, Len(log) + 1) = e

\* The records are in step whatever happened to the file, and while the log is
\* open the file is the memory and what Append has written.  Nothing of that is
\* on the disk before the sync, so that a rollback leaves the disk alone.
Layout ==
    /\ InStep(file, RecordLen)
    /\ mode # "open" => pc = "idle" /\ entries = <<>> /\ offset = 0
    /\ pc # "idle" => arg \in Entry
    /\ mode = "open" =>
         /\ offset = Len(file)
         /\ Holds(file, entries, Ahead(pc), arg)
         /\ IF pc = "publish" THEN synced = Len(file) ELSE synced <= RecordLen * Len(entries)

FileInv == TypeOK /\ Layout

\* A step takes nothing from the disk.
DiskKept == synced <= synced' /\ \A i \in 1..synced : file'[i] = file[i]

\* A file that keeps the records of the log goes on holding it.
LEMMA HoldsKept ==
    ASSUME NEW f \in Seq(Cell), NEW g \in Seq(Cell), NEW log \in Seq(Entry),
           NEW k \in Nat, NEW e, NEW k2 \in Nat, NEW e2,
           Holds(f, log, k, e), Len(g) = RecordLen * Len(log) + k2,
           \A i \in 1..(RecordLen * Len(log)) : g[i] = f[i],
           k2 # 0 => RecAt(g, Len(log) + 1) = e2
    PROVE  Holds(g, log, k2, e2)
<1>1. ASSUME NEW j \in 1..Len(log) PROVE RecAt(g, j) = log[j]
  <2>1. (j - 1) * RecordLen + 1 \in 1..(RecordLen * Len(log))
    BY DEF RecordLen
  <2>2. RecAt(g, j) = RecAt(f, j)
    BY <2>1 DEF RecAt
  <2> QED
    BY <2>2 DEF Holds
<1> QED
  BY <1>1 DEF Holds

LEMMA NumTypes ==
    ASSUME TypeOK
    PROVE  /\ Len(file) \in Nat /\ Len(entries) \in Nat /\ Len(seen) \in Nat
           /\ offset \in Nat /\ synced \in Nat /\ synced <= Len(file) /\ offset <= Len(file)
BY DEF TypeOK

LEMMA OnDiskType == ASSUME TypeOK PROVE OnDisk \in Seq(Entry)
<1>1. SubSeq(file, 1, synced) \in Seq(Cell)
  BY Beginning DEF TypeOK
<1> QED
  BY <1>1, RecordsOf DEF OnDisk

LEMMA LongerType ==
    ASSUME NEW log \in Seq(Entry), NEW new \in Seq(Entry) PROVE Longer(log, new) \in Seq(Entry)
BY DEF Longer

LEMMA FileInit == Init => FileInv
<1> SUFFICES ASSUME Init PROVE FileInv
  OBVIOUS
<1>1. file \in Seq(Cell) /\ Len(file) = 0 /\ entries \in Seq(Entry) /\ seen \in Seq(Entry)
  BY DEF Init
<1>2. TypeOK
  BY <1>1, WALAssumption DEF Init, TypeOK
<1>3. InStep(file, RecordLen)
  BY <1>1 DEF InStep
<1> QED
  BY <1>2, <1>3 DEF FileInv, Layout, Init

\* OpenWAL, Close and the start of Append leave the file alone.
LEMMA OpenFile ==
    ASSUME FileInv, OpenWAL PROVE FileInv' /\ DiskKept
<1>0. TypeOK /\ Layout
  BY DEF FileInv
<1>1. UNCHANGED <<file, synced, pc, arg, reported, faults>> /\ pc = "idle"
  BY <1>0 DEF OpenWAL, Layout
<1>2. DiskKept
  BY <1>0, <1>1 DEF DiskKept, TypeOK
<1>3. CASE Loads(file, RecordLen)
  <2>1. /\ mode' = "open" /\ entries' = Records(file, RecordLen) /\ offset' = Len(file)
        /\ seen' = Longer(seen, OnDisk)
        /\ adopted' = adopted \cup (ToSetOf(entries') \ ToSetOf(OnDisk))
    BY <1>3 DEF OpenWAL
  <2>2. /\ entries' \in Seq(Entry)
        /\ Len(entries') = Len(file) \div RecordLen
        /\ \A j \in 1..Len(entries') : entries'[j] = RecAt(file, j)
    BY <1>0, <2>1, RecordsOf DEF TypeOK
  <2>3. Len(file) = RecordLen * Len(entries') /\ synced <= RecordLen * Len(entries')
    BY <1>0, <1>3, <2>2, NumTypes DEF Loads, RecordLen
  <2>4. seen' \in Seq(Entry)
    BY <1>0, <2>1, OnDiskType, LongerType DEF TypeOK
  <2>5. adopted' \subseteq Entry
    BY <1>0, <2>1, <2>2 DEF ToSetOf, TypeOK
  <2>6. TypeOK'
    BY <1>0, <1>1, <2>1, <2>2, <2>4, <2>5 DEF TypeOK
  <2>7. Holds(file, entries', 0, arg)
    BY <2>2, <2>3, <1>0, NumTypes DEF Holds
  <2>8. Layout'
    BY <1>0, <1>1, <2>1, <2>3, <2>7 DEF Layout, Ahead
  <2> QED
    BY <1>2, <2>6, <2>8 DEF FileInv
<1>4. CASE ~Loads(file, RecordLen)
  <2>1. mode' = "broken" /\ UNCHANGED <<entries, offset, seen, adopted>> /\ mode # "open"
    BY <1>4 DEF OpenWAL
  <2>2. TypeOK'
    BY <1>0, <1>1, <2>1 DEF TypeOK
  <2>3. Layout'
    BY <1>0, <1>1, <2>1 DEF Layout
  <2> QED
    BY <1>2, <2>2, <2>3 DEF FileInv
<1> QED
  BY <1>3, <1>4

LEMMA IdleFile ==
    ASSUME FileInv, Close \/ \E e \in Entry : AppendDuplicate(e) \/ AppendBegin(e)
    PROVE  FileInv' /\ DiskKept
<1>0. TypeOK /\ Layout
  BY DEF FileInv
<1>1. CASE Close
  <2>1. TypeOK'
    BY <1>0, <1>1, NumTypes DEF Close, TypeOK
  <2>2. Layout'
    BY <1>0, <1>1 DEF Close, Layout
  <2>3. DiskKept
    BY <1>0, <1>1 DEF Close, DiskKept, TypeOK
  <2> QED
    BY <2>1, <2>2, <2>3 DEF FileInv
<1>2. ASSUME NEW e \in Entry, AppendDuplicate(e) PROVE FileInv' /\ DiskKept
  <2>1. TypeOK'
    BY <1>0, <1>2 DEF AppendDuplicate, TypeOK
  <2>2. Layout'
    BY <1>0, <1>2 DEF AppendDuplicate, Layout, Holds, RecAt, InStep
  <2>3. DiskKept
    BY <1>0, <1>2 DEF AppendDuplicate, DiskKept, TypeOK
  <2> QED
    BY <2>1, <2>2, <2>3 DEF FileInv
<1>3. ASSUME NEW e \in Entry, AppendBegin(e) PROVE FileInv' /\ DiskKept
  <2>1. TypeOK'
    BY <1>0, <1>3 DEF AppendBegin, TypeOK
  <2>2. Layout'
    <3>1. Ahead("idle") = 0 /\ Ahead("header") = 0
      BY DEF Ahead
    <3>2. Holds(file, entries, 0, arg) => Holds(file, entries, 0, e)
      BY DEF Holds
    <3>3. /\ mode = "open" /\ pc = "idle" /\ pc' = "header" /\ arg' = e
          /\ UNCHANGED <<mode, file, offset, synced, entries>>
      BY <1>3 DEF AppendBegin
    <3> QED
      BY <1>0, <3>1, <3>2, <3>3 DEF Layout
  <2>3. DiskKept
    BY <1>0, <1>3 DEF AppendBegin, DiskKept, TypeOK
  <2> QED
    BY <2>1, <2>2, <2>3 DEF FileInv
<1> QED
  BY <1>1, <1>2, <1>3

\* A Write of Append: the offset is at the end of the file.
LEMMA WriteFile ==
    ASSUME FileInv, WriteHeader \/ WriteData PROVE FileInv' /\ DiskKept
<1>0. TypeOK /\ Layout
  BY DEF FileInv
<1>1. /\ pc \in {"header", "data"} /\ mode = "open" /\ arg \in Entry
      /\ UNCHANGED <<mode, synced, entries, arg, reported, seen, adopted, faults>>
  BY <1>0 DEF WriteHeader, WriteData, Layout, TypeOK
<1>2. /\ offset = Len(file) /\ file \in Seq(Cell) /\ entries \in Seq(Entry)
      /\ InStep(file, RecordLen)
      /\ Holds(file, entries, Ahead(pc), arg)
      /\ synced <= RecordLen * Len(entries)
  BY <1>0, <1>1 DEF Layout, TypeOK
<1>3. Ahead("header") = 0 /\ Ahead("data") = HeaderEnd /\ Ahead("sync") = RecordLen
  BY DEF Ahead
<1>4. Len(file) = RecordLen * Len(entries) + Ahead(pc) /\ Len(entries) \in Nat /\ Len(file) \in Nat
  BY <1>2 DEF Holds
<1>5. PICK c \in Seq(Cell) :
        /\ Len(c) = 2
        /\ Written(c)
        /\ InStep(file \o c, RecordLen)
        /\ RecAt(file \o c, Len(entries) + 1) = arg
        /\ \/ pc = "header" /\ pc' = "data"
           \/ pc = "data" /\ pc' = "sync"
  <2>1. CASE WriteHeader
    <3>1. Len(file) = RecordLen * Len(entries)
      BY <1>3, <1>4, <2>1 DEF WriteHeader, RecordLen
    <3> DEFINE c == Cells(arg, 1, HeaderEnd)
    <3>2. c \in Seq(Cell) /\ Len(c) = 2
      BY <1>1, HeaderCells
    <3>3. InStep(file \o c, RecordLen) /\ RecAt(file \o c, Len(entries) + 1) = arg
      BY <1>1, <1>2, <1>4, <3>1, HeaderInStep
    <3>4. Written(c) /\ pc = "header" /\ pc' = "data"
      BY <2>1 DEF WriteHeader
    <3> HIDE DEF c
    <3> QED
      BY <3>2, <3>3, <3>4
  <2>2. CASE WriteData
    <3>1. Len(file) = RecordLen * Len(entries) + HeaderEnd
      BY <1>3, <1>4, <2>2 DEF WriteData
    <3>2. RecAt(file, Len(entries) + 1) = arg
      BY <1>2, <1>3, <2>2 DEF Holds, WriteData, HeaderEnd
    <3> DEFINE c == Cells(arg, HeaderEnd + 1, RecordLen)
    <3>3. c \in Seq(Cell) /\ Len(c) = 2
      BY <1>1, DataCells
    <3>4. InStep(file \o c, RecordLen) /\ RecAt(file \o c, Len(entries) + 1) = arg
      BY <1>1, <1>2, <1>4, <3>1, <3>2, DataInStep
    <3>5. Written(c) /\ pc = "data" /\ pc' = "sync"
      BY <2>2 DEF WriteData
    <3> HIDE DEF c
    <3> QED
      BY <3>3, <3>4, <3>5
  <2> QED
    BY <2>1, <2>2
<1>6. file' = file \o c /\ offset' = Len(file) + 2
  BY <1>2, <1>5, WriteAtEnd DEF Written
<1>7. /\ file' \in Seq(Cell) /\ Len(file') = Len(file) + 2
      /\ \A i \in 1..Len(file) : file'[i] = file[i]
  <2>1. /\ file \o c \in Seq(Cell) /\ Len(file \o c) = Len(file) + Len(c)
        /\ \A i \in 1..Len(file) : (file \o c)[i] = file[i]
    BY <1>2, Extended
  <2> QED
    BY <1>5, <1>6, <2>1
<1>8. TypeOK'
  <2>1. offset' \in 0..Len(file') /\ synced' \in 0..Len(file')
    BY <1>0, <1>1, <1>4, <1>6, <1>7, NumTypes
  <2>2. pc' \in {"idle", "header", "data", "sync", "publish"}
    BY <1>5
  <2> QED
    BY <1>0, <1>1, <1>7, <2>1, <2>2 DEF TypeOK
<1>9. Holds(file', entries, Ahead(pc'), arg)
  <2>1. Len(file') = RecordLen * Len(entries) + Ahead(pc') /\ Ahead(pc') \in Nat
    BY <1>3, <1>4, <1>5, <1>7 DEF RecordLen, HeaderEnd
  <2>2. \A i \in 1..(RecordLen * Len(entries)) : file'[i] = file[i]
    BY <1>3, <1>4, <1>1, <1>7 DEF RecordLen, HeaderEnd
  <2>3. RecAt(file', Len(entries) + 1) = arg
    BY <1>5, <1>6
  <2>4. Ahead(pc) \in Nat
    BY <1>1, <1>3 DEF HeaderEnd
  <2> QED
    BY <1>2, <1>7, <2>1, <2>2, <2>3, <2>4, HoldsKept
<1>10. Layout'
  <2>1. InStep(file', RecordLen)
    BY <1>5, <1>6
  <2>2. offset' = Len(file')
    BY <1>6, <1>7
  <2> QED
    BY <1>1, <1>2, <1>5, <1>9, <2>1, <2>2 DEF Layout
<1>11. DiskKept
  BY <1>0, <1>1, <1>7, NumTypes DEF DiskKept
<1> QED
  BY <1>8, <1>10, <1>11 DEF FileInv

LEMMA SyncedFile ==
    ASSUME FileInv, SyncFile PROVE FileInv' /\ DiskKept
<1>0. TypeOK /\ Layout
  BY DEF FileInv
<1>1. /\ pc = "sync" /\ pc' = "publish" /\ mode = "open" /\ arg \in Entry
      /\ synced' = Len(file)
      /\ adopted' = adopted \ ToSetOf(Records(file, RecordLen))
      /\ UNCHANGED <<mode, file, offset, entries, arg, reported, seen, faults>>
  BY <1>0 DEF SyncFile, Layout
<1>2. TypeOK'
  BY <1>0, <1>1, NumTypes DEF TypeOK
<1>3. Ahead("sync") = Ahead("publish")
  BY DEF Ahead
<1>4. Layout'
  BY <1>0, <1>1, <1>3 DEF Layout
<1>5. DiskKept
  BY <1>0, <1>1, NumTypes DEF DiskKept
<1> QED
  BY <1>2, <1>4, <1>5 DEF FileInv

LEMMA PublishedFile ==
    ASSUME FileInv, Publish PROVE FileInv' /\ DiskKept
<1>0. TypeOK /\ Layout
  BY DEF FileInv
<1>1. /\ pc = "publish" /\ pc' = "idle" /\ mode = "open" /\ arg \in Entry /\ arg' = NoEntry
      /\ entries' = Append(entries, arg)
      /\ seen' = Longer(seen, entries')
      /\ reported' = reported \cup {arg}
      /\ UNCHANGED <<mode, file, offset, synced, adopted, faults>>
  BY <1>0 DEF Publish, Layout
<1>2. /\ entries \in Seq(Entry) /\ Len(entries) \in Nat
      /\ entries' \in Seq(Entry) /\ Len(entries') = Len(entries) + 1
      /\ \A j \in 1..Len(entries) : entries'[j] = entries[j]
      /\ entries'[Len(entries) + 1] = arg
  BY <1>0, <1>1 DEF TypeOK
<1>3. seen' \in Seq(Entry)
  BY <1>0, <1>1, <1>2, LongerType DEF TypeOK
<1>4. TypeOK'
  BY <1>0, <1>1, <1>2, <1>3 DEF TypeOK
<1>5. /\ Len(file) = RecordLen * Len(entries) + RecordLen
      /\ \A j \in 1..Len(entries) : RecAt(file, j) = entries[j]
      /\ RecAt(file, Len(entries) + 1) = arg
      /\ synced = Len(file) /\ offset = Len(file) /\ InStep(file, RecordLen)
  BY <1>0, <1>1 DEF Layout, Holds, Ahead, RecordLen
<1>6. Len(file) = RecordLen * Len(entries') + 0
  BY <1>2, <1>5 DEF RecordLen
<1>7. ASSUME NEW j \in 1..Len(entries') PROVE RecAt(file, j) = entries'[j]
  <2>1. CASE j \in 1..Len(entries)
    BY <1>2, <1>5, <2>1
  <2>2. CASE j = Len(entries) + 1
    BY <1>2, <1>5, <2>2
  <2> QED
    BY <1>2, <2>1, <2>2
<1>8. Holds(file, entries', 0, NoEntry)
  BY <1>6, <1>7 DEF Holds
<1>9. synced <= RecordLen * Len(entries')
  BY <1>0, <1>5, <1>6, <1>2, NumTypes DEF RecordLen
<1>10. Layout'
  BY <1>1, <1>5, <1>8, <1>9 DEF Layout, Ahead
<1>11. DiskKept
  BY <1>0, <1>1, NumTypes DEF DiskKept
<1> QED
  BY <1>4, <1>10, <1>11 DEF FileInv

\* A rollback goes back to the end of the memory, above what is on the disk.
LEMMA RolledBackFile ==
    ASSUME FileInv, FailAndRollback PROVE FileInv' /\ DiskKept
<1>0. TypeOK /\ Layout
  BY DEF FileInv
<1>1. /\ pc \in {"header", "data", "sync"} /\ mode = "open" /\ arg \in Entry
      /\ pc' = "idle" /\ arg' = NoEntry
      /\ file' = SubSeq(file, 1, StartPos) /\ offset' = StartPos
      /\ synced' = IF synced > StartPos THEN StartPos ELSE synced
      /\ UNCHANGED <<mode, entries, reported, seen, adopted>>
  BY <1>0 DEF FailAndRollback, Layout
<1>2. faults' \in 0..MaxFaults
  BY <1>0, WALAssumption DEF FailAndRollback, Fault, TypeOK
<1>3. /\ offset = Len(file) /\ file \in Seq(Cell) /\ entries \in Seq(Entry)
      /\ InStep(file, RecordLen)
      /\ Holds(file, entries, Ahead(pc), arg)
      /\ synced <= RecordLen * Len(entries)
      /\ Len(file) = RecordLen * Len(entries) + Ahead(pc)
      /\ Ahead(pc) \in {0, 2, 4}
      /\ Len(entries) \in Nat /\ Len(file) \in Nat
  <2>1. /\ offset = Len(file) /\ InStep(file, RecordLen)
        /\ Holds(file, entries, Ahead(pc), arg)
        /\ synced <= RecordLen * Len(entries)
    BY <1>0, <1>1 DEF Layout
  <2>2. Ahead(pc) \in {0, 2, 4}
    BY DEF Ahead, HeaderEnd, RecordLen
  <2>3. file \in Seq(Cell) /\ entries \in Seq(Entry)
    BY <1>0 DEF TypeOK
  <2> QED
    BY <2>1, <2>2, <2>3 DEF Holds
<1>4. StartPos = RecordLen * Len(entries)
  <2>1. CASE pc = "header"
    BY <1>3, <2>1 DEF StartPos, Ahead, RecordLen
  <2>2. CASE pc = "data"
    BY <1>3, <2>2 DEF StartPos, Ahead, RecordLen, HeaderEnd
  <2>3. CASE pc = "sync"
    BY <1>3, <2>3 DEF StartPos, Ahead, RecordLen
  <2> QED
    BY <1>1, <2>1, <2>2, <2>3
<1>5. StartPos \in 0..Len(file) /\ StartPos \in Nat
  BY <1>3, <1>4 DEF RecordLen
<1>6. synced' = synced /\ synced <= StartPos /\ synced \in Nat
  BY <1>0, <1>1, <1>3, <1>4, <1>5, NumTypes
<1>7. /\ file' \in Seq(Cell) /\ Len(file') = StartPos
      /\ \A i \in 1..StartPos : file'[i] = file[i]
      /\ InStep(file', RecordLen)
  BY <1>1, <1>3, <1>5, Beginning, CutInStep
<1>8. TypeOK'
  <2>1. offset' \in 0..Len(file') /\ synced' \in 0..Len(file')
    BY <1>1, <1>5, <1>6, <1>7
  <2> QED
    BY <1>0, <1>1, <1>2, <1>7, <2>1 DEF TypeOK
<1>9. Holds(file', entries, 0, NoEntry)
  <2>1. Len(file') = RecordLen * Len(entries) + 0 /\ Ahead(pc) \in Nat
    BY <1>3, <1>4, <1>5, <1>7
  <2>2. \A i \in 1..(RecordLen * Len(entries)) : file'[i] = file[i]
    BY <1>4, <1>7
  <2> QED
    BY <1>3, <1>7, <2>1, <2>2, HoldsKept
<1>10. Layout'
  BY <1>1, <1>3, <1>4, <1>6, <1>7, <1>9 DEF Layout, Ahead
<1>11. DiskKept
  BY <1>5, <1>6, <1>7 DEF DiskKept
<1> QED
  BY <1>8, <1>10, <1>11 DEF FileInv

\* A crash leaves the file and a part of what a call was writing; with power
\* failures, any part of it that has what is on the disk.
LEMMA CrashedFile ==
    ASSUME FileInv, NEW kind \in CrashKinds, Crash(kind) PROVE FileInv' /\ DiskKept
<1> DEFINE inFlight == CASE pc = "header" -> Cells(arg, 1, HeaderEnd)
                         [] pc = "data" -> Cells(arg, HeaderEnd + 1, RecordLen)
                         [] OTHER -> <<>>
           left == SubSeq(file, 1, offset) \o inFlight
<1>0. TypeOK /\ Layout
  BY DEF FileInv
<1>1. /\ mode = "open" /\ mode' = "down" /\ entries' = <<>> /\ offset' = 0
      /\ pc' = "idle" /\ arg' = NoEntry
      /\ UNCHANGED <<reported, seen, adopted>>
  BY DEF Crash
<1>2. faults' \in 0..MaxFaults
  BY <1>0, WALAssumption DEF Crash, Fault, TypeOK
<1>3. /\ offset = Len(file) /\ file \in Seq(Cell) /\ entries \in Seq(Entry)
      /\ InStep(file, RecordLen)
      /\ Holds(file, entries, Ahead(pc), arg)
      /\ pc # "idle" => arg \in Entry
      /\ Len(entries) \in Nat /\ Len(file) \in Nat
      /\ synced \in Nat /\ synced <= Len(file)
  BY <1>0, <1>1, NumTypes DEF Layout, TypeOK
<1>4. inFlight \in Seq(Cell) /\ InStep(file \o inFlight, RecordLen)
  <2>1. CASE pc = "header"
    <3>1. inFlight = Cells(arg, 1, HeaderEnd)
      BY <2>1
    <3>2. Len(file) = RecordLen * Len(entries)
      BY <1>3, <2>1 DEF Holds, Ahead, RecordLen
    <3> HIDE DEF inFlight
    <3> QED
      BY <1>3, <2>1, <3>1, <3>2, HeaderCells, HeaderInStep
  <2>2. CASE pc = "data"
    <3>1. inFlight = Cells(arg, HeaderEnd + 1, RecordLen)
      BY <2>2
    <3>2. Len(file) = RecordLen * Len(entries) + HeaderEnd
      BY <1>3, <2>2 DEF Holds, Ahead
    <3>3. RecAt(file, Len(entries) + 1) = arg
      BY <1>3, <2>2 DEF Holds, Ahead, HeaderEnd
    <3> HIDE DEF inFlight
    <3> QED
      BY <1>3, <2>2, <3>1, <3>2, <3>3, DataCells, DataInStep
  <2>3. CASE pc \notin {"header", "data"}
    <3>1. inFlight = <<>>
      BY <2>3
    <3>2. file \o <<>> = file /\ <<>> \in Seq(Cell)
      BY <1>3
    <3> HIDE DEF inFlight
    <3> QED
      BY <1>3, <3>1, <3>2
  <2> QED
    BY <2>1, <2>2, <2>3
<1>5. PICK n \in 0..Len(left) :
        /\ n >= (IF kind = "power" THEN synced ELSE offset)
        /\ file' = SubSeq(left, 1, n)
        /\ synced' = IF kind = "power" THEN n ELSE synced
  BY DEF Crash
<1> HIDE DEF inFlight
<1>6. left = file \o inFlight
  BY <1>3, <1>4, WriteAtEnd
<1> HIDE DEF left
<1>7. /\ left \in Seq(Cell) /\ InStep(left, RecordLen)
      /\ \A i \in 1..Len(file) : left[i] = file[i]
  <2>1. /\ file \o inFlight \in Seq(Cell)
        /\ \A i \in 1..Len(file) : (file \o inFlight)[i] = file[i]
    BY <1>3, <1>4, Extended
  <2> QED
    BY <1>4, <1>6, <2>1
<1>8. n \in Nat /\ synced <= n /\ synced' \in 0..n /\ synced <= synced'
  BY <1>3, <1>5, <1>7
<1>9. /\ file' \in Seq(Cell) /\ Len(file') = n
      /\ \A i \in 1..n : file'[i] = left[i]
      /\ InStep(file', RecordLen)
  BY <1>5, <1>7, Beginning, CutInStep
<1>10. TypeOK'
  BY <1>0, <1>1, <1>2, <1>8, <1>9 DEF TypeOK
<1>11. Layout'
  BY <1>1, <1>9 DEF Layout
<1>12. DiskKept
  BY <1>3, <1>7, <1>8, <1>9 DEF DiskKept
<1> QED
  BY <1>10, <1>11, <1>12 DEF FileInv

\* No step takes an entry from the disk, or breaks the file.
LEMMA FileStep == FileInv /\ [Next]_walVars => FileInv' /\ DiskKept
<1> SUFFICES ASSUME FileInv, [Next]_walVars PROVE FileInv' /\ DiskKept
  OBVIOUS
<1>1. CASE UNCHANGED walVars
  <2>1. DiskKept
    BY <1>1, NumTypes DEF walVars, DiskKept, FileInv
  <2>2. TypeOK'
    BY <1>1 DEF FileInv, TypeOK, walVars
  <2>3. Layout'
    BY <1>1 DEF FileInv, Layout, walVars
  <2> QED
    BY <2>1, <2>2, <2>3 DEF FileInv
<1> QED
  BY <1>1, OpenFile, IdleFile, WriteFile, SyncedFile, PublishedFile, RolledBackFile, CrashedFile
     DEF Next

LEMMA FileInvariance == Spec => []FileInv
<1>1. FileInv /\ [Next]_walVars => FileInv'
  BY FileStep
<1> QED
  BY <1>1, FileInit, PTL DEF Spec

\* The types, for any set of entries and any number of faults.
THEOREM WALTypes == Spec => []TypeOK
<1>1. FileInv => TypeOK
  BY DEF FileInv
<1> QED
  BY <1>1, FileInvariance, PTL

\* Between two appends the file is the memory, for any length of the log and
\* after any number of failed appends, crashes and power failures: the rollback
\* of Append takes back exactly what it has written.
THEOREM FileIsMemoryCorrect == Spec => []FileIsMemory
<1>1. ASSUME FileInv, mode = "open", pc = "idle"
      PROVE  /\ Loads(file, RecordLen)
             /\ Records(file, RecordLen) = entries
             /\ offset = Len(file)
  <2>1. /\ InStep(file, RecordLen) /\ offset = Len(file)
        /\ file \in Seq(Cell) /\ entries \in Seq(Entry)
        /\ Len(file) = RecordLen * Len(entries)
        /\ \A j \in 1..Len(entries) : RecAt(file, j) = entries[j]
    BY <1>1 DEF FileInv, TypeOK, Layout, Holds, Ahead, RecordLen
  <2>2. Len(file) % RecordLen = 0 /\ Len(file) \div RecordLen = Len(entries)
    BY <2>1 DEF RecordLen
  <2>3. /\ Records(file, RecordLen) \in Seq(Entry)
        /\ Len(Records(file, RecordLen)) = Len(entries)
        /\ \A j \in 1..Len(entries) : Records(file, RecordLen)[j] = entries[j]
    BY <2>1, <2>2, RecordsOf
  <2>4. Records(file, RecordLen) = entries
    BY <2>1, <2>3, SeqEqual
  <2> QED
    BY <2>1, <2>2, <2>4 DEF Loads
<1>2. FileInv => FileIsMemory
  BY <1>1 DEF FileIsMemory
<1> QED
  BY <1>2, FileInvariance, PTL

-----------------------------------------------------------------------------
(***************************************************************************)
(* What Append reported.                                                   *)
(***************************************************************************)

\* An entry in memory, which Append may report as a duplicate, is on the disk,
\* or was taken over from a process that did not live to sync it.
Durable ==
    /\ mode = "open" => ToSetOf(entries) \subseteq ToSetOf(OnDisk) \cup adopted
    /\ ReportedDurable

LEMMA OnDiskGrows ==
    ASSUME FileInv, FileInv', DiskKept
    PROVE  ToSetOf(OnDisk) \subseteq ToSetOf(OnDisk')
<1>1. /\ file \in Seq(Cell) /\ synced \in 0..Len(file)
      /\ file' \in Seq(Cell) /\ synced' \in 0..Len(file')
  BY DEF FileInv, TypeOK
<1>2. Disk(file, synced) \subseteq Disk(file', synced')
  BY <1>1, DiskGrows DEF DiskKept
<1> QED
  BY <1>2 DEF Disk, OnDisk

\* The sync puts the whole file on the disk, and what was taken over with it.
LEMMA SyncDurable ==
    ASSUME FileInv, Durable, SyncFile, ToSetOf(OnDisk) \subseteq ToSetOf(OnDisk')
    PROVE  Durable'
<1>1. SubSeq(file, 1, Len(file)) = file
  BY SubSeqFull DEF FileInv, TypeOK
<1>2. OnDisk' = Records(file, RecordLen)
  BY <1>1 DEF SyncFile, OnDisk
<1>3. /\ adopted' = adopted \ ToSetOf(Records(file, RecordLen))
      /\ UNCHANGED <<mode, entries, reported>>
  BY DEF SyncFile
<1>4. ToSetOf(entries') = ToSetOf(entries)
  BY <1>3 DEF ToSetOf
<1> QED
  BY <1>2, <1>3, <1>4, Zenon DEF Durable, ReportedDurable

\* What is published was synced.
LEMMA PublishDurable ==
    ASSUME FileInv, Durable, Publish, ToSetOf(OnDisk) \subseteq ToSetOf(OnDisk')
    PROVE  Durable'
<1>1. /\ entries' = Append(entries, arg) /\ reported' = reported \cup {arg}
      /\ UNCHANGED <<mode, file, synced, adopted>> /\ mode = "open" /\ arg \in Entry
  BY DEF Publish, FileInv, Layout
<1>2. /\ entries \in Seq(Entry) /\ Len(entries) \in Nat
      /\ file \in Seq(Cell) /\ synced \in 0..Len(file)
  BY DEF FileInv, TypeOK
<1>3. /\ Len(file) = RecordLen * Len(entries) + RecordLen
      /\ RecAt(file, Len(entries) + 1) = arg
      /\ synced = Len(file)
  BY DEF Publish, FileInv, Layout, Holds, Ahead, RecordLen
<1>4. arg \in Disk(file, synced)
  <2>1. Len(entries) + 1 \in Nat \ {0} /\ RecordLen * (Len(entries) + 1) <= synced
    BY <1>2, <1>3 DEF RecordLen
  <2> QED
    BY <1>2, <1>3, <2>1, DiskEntries
<1>5. arg \in ToSetOf(OnDisk')
  BY <1>4 DEF Disk, OnDisk
<1>6. ToSetOf(entries') \subseteq ToSetOf(entries) \cup {arg}
  BY <1>1, <1>2 DEF ToSetOf
<1> QED
  BY <1>1, <1>5, <1>6 DEF Durable, ReportedDurable

LEMMA DurableStep ==
    ASSUME FileInv, FileInv', DiskKept, Durable, [Next]_walVars
    PROVE  Durable'
<1>0. ToSetOf(OnDisk) \subseteq ToSetOf(OnDisk')
  BY OnDiskGrows
<1>1. ASSUME UNCHANGED <<entries, reported, adopted>>, mode' = mode PROVE Durable'
  BY <1>0, <1>1 DEF Durable, ReportedDurable
<1>2. ASSUME UNCHANGED <<reported, adopted>>, mode' # "open" PROVE Durable'
  BY <1>0, <1>2 DEF Durable, ReportedDurable
<1>3. CASE OpenWAL
  <2>1. CASE Loads(file, RecordLen)
    <3>1. /\ adopted' = adopted \cup (ToSetOf(entries') \ ToSetOf(OnDisk))
          /\ reported' = reported
      BY <1>3, <2>1 DEF OpenWAL
    <3>2. ToSetOf(entries') \subseteq ToSetOf(OnDisk') \cup adopted'
      BY <1>0, <3>1
    <3>3. reported' \ adopted' \subseteq ToSetOf(OnDisk')
      BY <1>0, <3>1 DEF Durable, ReportedDurable
    <3>4. Durable'
      BY <3>2, <3>3, Zenon DEF Durable, ReportedDurable, ToSetOf
    <3> QED
      BY <3>4
  <2>2. CASE ~Loads(file, RecordLen)
    BY <1>2, <1>3, <2>2 DEF OpenWAL
  <2> QED
    BY <2>1, <2>2
<1>4. CASE Close \/ \E kind \in CrashKinds : Crash(kind)
  BY <1>2, <1>4 DEF Close, Crash
<1>5. ASSUME NEW e \in Entry, AppendDuplicate(e) PROVE Durable'
  <2>1. /\ mode = "open" /\ e \in ToSetOf(entries) /\ reported' = reported \cup {e}
        /\ UNCHANGED <<mode, entries, adopted>>
    BY <1>5 DEF AppendDuplicate
  <2> QED
    BY <1>0, <2>1 DEF Durable, ReportedDurable
<1>6. CASE \/ \E e \in Entry : AppendBegin(e)
           \/ WriteHeader \/ WriteData \/ FailAndRollback \/ UNCHANGED walVars
  BY <1>1, <1>6 DEF AppendBegin, WriteHeader, WriteData, FailAndRollback, walVars
<1> QED
  BY <1>0, <1>3, <1>4, <1>5, <1>6, SyncDurable, PublishDurable DEF Next

\* What Append reported is on the disk for ever, for any log and any number of
\* failed calls, crashes and power failures; the exception are the entries an
\* OpenWAL took over unsynced, until the next sync.
THEOREM ReportedDurableCorrect == Spec => []ReportedDurable
<1>1. Init => Durable
  BY DEF Init, Durable, ReportedDurable
<1>2. FileInv /\ FileInv' /\ Durable /\ [Next]_walVars => Durable'
  BY FileStep, DurableStep
<1>3. Durable => ReportedDurable
  BY DEF Durable
<1> QED
  BY <1>1, <1>2, <1>3, FileInvariance, PTL DEF Spec

-----------------------------------------------------------------------------
(***************************************************************************)
(* What readers have seen.                                                 *)
(***************************************************************************)

\* The log is at the beginning of the n cells of the file that are on the disk.
OnDiskAs(log, f, n) ==
    /\ RecordLen * Len(log) <= n
    /\ \A i \in 1..Len(log) : RecAt(f, i) = log[i]

\* SeenStays speaks of an open log; across the crashes, what was seen is on the
\* disk.
SeenOK == OnDiskAs(seen, file, synced) /\ SeenStays

\* A log on the disk is the beginning of the memory.
LEMMA SeenInMemory ==
    ASSUME NEW f \in Seq(Cell), NEW log \in Seq(Entry), NEW k, NEW e, NEW n \in Nat,
           NEW s \in Seq(Entry), Holds(f, log, k, e), OnDiskAs(s, f, n),
           n <= RecordLen * Len(log)
    PROVE  Len(s) <= Len(log) /\ \A i \in 1..Len(s) : log[i] = s[i]
<1>1. Len(s) <= Len(log)
  BY DEF OnDiskAs, RecordLen
<1> QED
  BY <1>1 DEF Holds, OnDiskAs

LEMMA SeenOnDisk ==
    ASSUME FileInv, FileInv', DiskKept, SeenOK, [Next]_walVars
    PROVE  OnDiskAs(seen', file', synced')
<1>0. /\ file \in Seq(Cell) /\ file' \in Seq(Cell) /\ seen \in Seq(Entry)
      /\ synced \in 0..Len(file) /\ synced' \in 0..Len(file')
      /\ Len(seen) \in Nat
  BY DEF FileInv, TypeOK
<1>1. OnDiskAs(seen, file', synced')
  <2>1. RecordLen * Len(seen) <= synced'
    BY <1>0 DEF SeenOK, OnDiskAs, DiskKept, RecordLen
  <2>2. ASSUME NEW i \in 1..Len(seen) PROVE RecAt(file', i) = seen[i]
    <3>1. (i - 1) * RecordLen + 1 \in 1..synced
      BY <1>0 DEF SeenOK, OnDiskAs, RecordLen
    <3>2. RecAt(file', i) = RecAt(file, i)
      BY <3>1 DEF RecAt, DiskKept
    <3> QED
      BY <3>2 DEF SeenOK, OnDiskAs
  <2> QED
    BY <2>1, <2>2 DEF OnDiskAs
<1>2. CASE seen' = seen
  BY <1>1, <1>2
<1>3. CASE OpenWAL /\ seen' = OnDisk
  <2>1. UNCHANGED <<file, synced>>
    BY <1>3 DEF OpenWAL
  <2> DEFINE g == SubSeq(file, 1, synced)
  <2>2. g \in Seq(Cell) /\ Len(g) = synced /\ \A i \in 1..synced : g[i] = file[i]
    BY <1>0, Beginning
  <2>3. OnDisk = Records(g, RecordLen)
    BY DEF OnDisk
  <2> HIDE DEF g
  <2>4. /\ OnDisk \in Seq(Entry)
        /\ \A j \in Nat \ {0} : j \in 1..Len(OnDisk) <=> RecordLen * j <= synced
        /\ \A j \in 1..Len(OnDisk) : OnDisk[j] = RecAt(g, j)
    BY <2>2, <2>3, RecordsOf
  <2>5. Len(OnDisk) \in Nat
    BY <2>4
  <2>6. RecordLen * Len(OnDisk) <= synced
    <3>1. CASE Len(OnDisk) = 0
      BY <1>0, <3>1 DEF RecordLen
    <3>2. CASE Len(OnDisk) # 0
      BY <2>4, <2>5, <3>2
    <3> QED
      BY <3>1, <3>2
  <2>7. ASSUME NEW j \in 1..Len(OnDisk) PROVE RecAt(file, j) = OnDisk[j]
    <3>1. (j - 1) * RecordLen + 1 \in 1..synced
      BY <1>0, <2>5, <2>6 DEF RecordLen
    <3>2. RecAt(g, j) = RecAt(file, j)
      BY <2>2, <3>1 DEF RecAt
    <3> QED
      BY <2>4, <3>2
  <2>8. OnDiskAs(OnDisk, file, synced)
    BY <2>6, <2>7 DEF OnDiskAs
  <2> QED
    BY <1>3, <2>1, <2>8
<1>4. CASE Publish /\ seen' = entries'
  <2>1. mode' = "open" /\ pc' = "idle" /\ UNCHANGED <<file, synced>> /\ synced = Len(file)
    BY <1>4 DEF Publish, FileInv, Layout
  <2>2. Holds(file', entries', 0, arg')
    BY <2>1 DEF FileInv, Layout, Ahead
  <2>3. entries' \in Seq(Entry) /\ Len(entries') \in Nat
    BY DEF FileInv, TypeOK
  <2> QED
    BY <1>0, <1>4, <2>1, <2>2, <2>3 DEF Holds, OnDiskAs, RecordLen
<1>5. CASE OpenWAL \/ Publish
  BY <1>2, <1>3, <1>4, <1>5 DEF OpenWAL, Publish, Longer
<1>6. CASE ~(OpenWAL \/ Publish)
  BY <1>2, <1>6 DEF Next, walVars, Close, AppendDuplicate, AppendBegin, WriteHeader, WriteData,
     SyncFile, FailAndRollback, Crash
<1> QED
  BY <1>5, <1>6

LEMMA SeenStep ==
    ASSUME FileInv, FileInv', DiskKept, SeenOK, [Next]_walVars
    PROVE  SeenOK'
<1>1. OnDiskAs(seen', file', synced')
  BY SeenOnDisk
<1>2. /\ file' \in Seq(Cell) /\ entries' \in Seq(Entry) /\ seen' \in Seq(Entry)
      /\ synced' \in Nat
  BY NumTypes DEF FileInv, TypeOK
<1>3. CASE mode' # "open"
  BY <1>1, <1>3 DEF SeenOK, SeenStays
<1>4. CASE mode' = "open" /\ pc' # "publish"
  <2>1. Holds(file', entries', Ahead(pc'), arg') /\ synced' <= RecordLen * Len(entries')
    BY <1>4 DEF FileInv, Layout
  <2>2. Len(seen') <= Len(entries') /\ \A i \in 1..Len(seen') : entries'[i] = seen'[i]
    BY <1>1, <1>2, <2>1, SeenInMemory
  <2> QED
    BY <1>1, <2>2 DEF SeenOK, SeenStays
<1>5. CASE mode' = "open" /\ pc' = "publish"
  <2>0. mode # "open" => pc = "idle"
    BY DEF FileInv, Layout
  <2>1. UNCHANGED <<mode, entries, seen>>
    BY <1>5, <2>0 DEF Next, OpenWAL, Close, AppendDuplicate, AppendBegin, WriteHeader, WriteData,
       SyncFile, Publish, FailAndRollback, Crash, walVars
  <2> QED
    BY <1>1, <1>5, <2>1 DEF SeenOK, SeenStays
<1> QED
  BY <1>3, <1>4, <1>5

\* A reader never finds the log shorter than, or different from, what it saw on
\* the disk, for any log and any number of crashes and power failures: this is
\* what the clients' copies of the server's log rest on.
THEOREM SeenStaysCorrect == Spec => []SeenStays
<1>1. Init => SeenOK
  BY DEF Init, SeenOK, OnDiskAs, SeenStays, RecordLen
<1>2. FileInv /\ FileInv' /\ SeenOK /\ [Next]_walVars => SeenOK'
  BY FileStep, SeenStep
<1>3. SeenOK => SeenStays
  BY DEF SeenOK
<1> QED
  BY <1>1, <1>2, <1>3, FileInvariance, PTL DEF Spec

-----------------------------------------------------------------------------
\* No step takes a cell from the disk or changes one there: the rollback of a
\* failed append stays above what an earlier one has synced, and the writes
\* stay behind it.
THEOREM DiskNeverShrinks == Spec => [][DiskKept]_walVars
<1>1. FileInv /\ [Next]_walVars => DiskKept
  BY FileStep
<1> QED
  BY <1>1, FileInvariance, PTL DEF Spec
=============================================================================
