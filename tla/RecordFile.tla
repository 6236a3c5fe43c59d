---------------------------- MODULE RecordFile ----------------------------
(***************************************************************************)
(* The files of the system, wal.bin and send_queue.dat, as sequences of    *)
(* cells.  A record is written by a few calls of Write, and each of them   *)
(* is two cells long, so that a file can end in the middle of a record,    *)
(* between two of its fields and in the middle of a field.                 *)
(***************************************************************************)
EXTENDS Naturals, Sequences

\* The cells from..to of the record r.
Cells(r, from, to) == [i \in 1..(to + 1 - from) |-> [rec |-> r, part |-> from + i - 1]]

\* Every record begins where a reader looks for one; only the last one may be
\* incomplete.
InStep(file, n) ==
    \A i \in 1..Len(file) :
        /\ file[i].part = ((i - 1) % n) + 1
        /\ file[i].rec = file[i - ((i - 1) % n)].rec

\* The file is read to its end without an error: it is a sequence of whole
\* records of n cells.  A file that ends within a record makes io.ReadFull
\* return an error that is not EOF; one whose records are out of step is
\* read with lengths that are not lengths, and that too ends in an error.
Loads(file, n) == Len(file) % n = 0 /\ InStep(file, n)

\* The records of the file, those of its whole records that can be read.
Records(file, n) == [j \in 1..(Len(file) \div n) |-> file[(j - 1) * n + 1].rec]
=============================================================================
