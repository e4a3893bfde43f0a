------------------------------- MODULE Datafile -------------------------------
(***************************************************************************)
(* A binary data file (datafile.py): a ring of records behind a header     *)
(* with the place of the oldest record and the number of records.  One     *)
(* process writes it, and may end at any time; another one reads it        *)
(* meanwhile, through a handle of its own.                                 *)
(*                                                                         *)
(* Places are counted in records, not bytes: offset n of the model is byte *)
(* header_length + n * record_length of the file.  A record is its time;   *)
(* the latency is carried along with it.                                   *)
(***************************************************************************)
EXTENDS Integers, Sequences

CONSTANTS
  Data,         \* the times of records
  MaxRecords    \* max_records

ASSUME DataAssumption == Data \subseteq Nat
ASSUME MaxAssumption == MaxRecords \in Nat \ {0}

VARIABLES
  \* --- the file
  file,         \* absent, created (nothing has been flushed), written
  slot,         \* the records of the data area
  offset,       \* the header's offset
  number,       \* the header's number_of_records
  \* --- the writer
  writer,       \* closed, idle, or committing: record written, header not yet
  woffset,      \* self.offset and self.number_of_records of its handle
  wnumber,
  \* --- a reader
  reader,       \* idle, reading, done
  roffset,      \* the header as it read it
  rnumber,
  values,       \* what read_all_values has collected
  \* --- history
  torn,         \* the oldest record is overwritten, the header does not say so
  snapshot,     \* what was in the file when the reader read the header
  changed       \* records overwritten since, or torn already then; MaxRecords
                \* stands for more

fileVars == <<file, slot, offset, number, torn>>
writerVars == <<writer, woffset, wnumber>>
readerVars == <<reader, roffset, rnumber, values, snapshot, changed>>
vars == <<fileVars, writerVars, readerVars>>

Slots == 0 .. MaxRecords - 1

\* The data area is not written yet; what is there then is never looked at.
Init ==
  /\ file = "absent" /\ slot \in [Slots -> Data]
  /\ offset = 0 /\ number = 0
  /\ writer = "closed" /\ woffset = 0 /\ wnumber = 0
  /\ reader = "idle" /\ roffset = 0 /\ rnumber = 0 /\ values = <<>>
  /\ torn = FALSE /\ snapshot = <<>> /\ changed = 0

\* A position past the last of n places continues at the first.
Around(p, n) == IF p >= n THEN p - n ELSE p

\* What the header and the data area say the file contains, oldest first.
Contents == [i \in 1 .. number |-> slot[Around(offset + i - 1, number)]]

-----------------------------------------------------------------------------
(* The writer *)

\* create_new_datafile: the header stays in the buffer for now.
Create ==
  /\ file = "absent" /\ writer = "closed"
  /\ file' = "created" /\ writer' = "idle"
  /\ woffset' = 0 /\ wnumber' = 0
  /\ UNCHANGED <<slot, offset, number, torn, readerVars>>

\* open_datafile reads the header.  (Of a file without one it raises.)
Open ==
  /\ file = "written" /\ writer = "closed"
  /\ writer' = "idle"
  /\ woffset' = offset /\ wnumber' = number
  /\ UNCHANGED <<fileVars, readerVars>>

\* (mutant: the number of records is not added to the offset)
WritesAtOffset == woffset

\* Where the next record goes.
WritePlace == Around(woffset + wnumber, MaxRecords)

\* record_datum, up to the write of the record.  Changing the position flushes
\* what was written before, or all is flushed together at the end: the record
\* is in the file before the header, or at once with it, never after it.
WriteRecord(d) ==
  /\ writer = "idle"
  /\ file' = "written"
  /\ slot' = [slot EXCEPT ![WritePlace] = d]
  /\ torn' = (torn \/ number = MaxRecords)
  /\ changed' = IF number = MaxRecords /\ ~torn /\ reader # "idle"
                     /\ changed < MaxRecords
                  THEN changed + 1
                  ELSE changed
  /\ writer' = "committing"
  /\ UNCHANGED <<offset, number, woffset, wnumber, reader, roffset, rnumber, values,
                 snapshot>>

\* (mutant: the offset does not go round)
GrowingOffset == woffset + 1

\* (mutant: the offset is not moved)
SameOffset == woffset

NextOffset == Around(woffset + 1, MaxRecords)

\* record_datum, the rest: one of the two numbers of the header is updated.
WriteHeader ==
  /\ writer = "committing"
  /\ IF wnumber < MaxRecords
       THEN wnumber' = wnumber + 1 /\ UNCHANGED woffset
       ELSE woffset' = NextOffset /\ UNCHANGED wnumber
  /\ offset' = woffset' /\ number' = wnumber'
  /\ torn' = FALSE
  /\ writer' = "idle"
  /\ UNCHANGED <<file, slot, readerVars>>

\* What fits into a file.
Fillings == UNION {[1 .. n -> Data] : n \in 0 .. MaxRecords}

\* write_all_records, by the tool that sorts files: to a file it has just
\* created.  Before the number of records is written nothing of it counts.
WriteAll(records) ==
  /\ writer = "idle" /\ file = "created"
  /\ file' = "written"
  /\ slot' = [s \in Slots |-> IF s < Len(records) THEN records[s + 1] ELSE slot[s]]
  /\ woffset' = 0 /\ wnumber' = Len(records)
  /\ offset' = 0 /\ number' = Len(records)
  /\ UNCHANGED <<writer, torn, readerVars>>

\* The process ends: by itself, closing the file, or not.
Crash ==
  /\ writer # "closed"
  /\ writer' = "closed"
  /\ file' \in {file, "written"}
  /\ UNCHANGED <<slot, offset, number, woffset, wnumber, torn, readerVars>>

-----------------------------------------------------------------------------
(* A reader *)

OpenReader ==
  /\ file = "written" /\ reader = "idle"
  /\ reader' = "reading"
  /\ roffset' = offset /\ rnumber' = number
  /\ values' = <<>>
  /\ snapshot' = Contents
  /\ changed' = IF torn THEN 1 ELSE 0
  /\ UNCHANGED <<fileVars, writerVars>>

\* (mutant: reading goes on past the last record)
ReadOn == IF roffset + Len(values) >= rnumber THEN rnumber - 1 ELSE roffset + Len(values)

\* read_all_values goes on at the start of the data area where the records end.
ReadPlace == Around(roffset + Len(values), rnumber)

\* A block of records is read.  (The model's blocks are of one record, the
\* code's of a thousand.)
ReadBlock ==
  /\ reader = "reading" /\ Len(values) < rnumber
  /\ values' = Append(values, slot[ReadPlace])
  /\ UNCHANGED <<fileVars, writerVars, reader, roffset, rnumber, snapshot, changed>>

FinishReading ==
  /\ reader = "reading" /\ Len(values) = rnumber
  /\ reader' = "done"
  /\ UNCHANGED <<fileVars, writerVars, roffset, rnumber, values, snapshot, changed>>

CloseReader ==
  /\ reader = "done"
  /\ reader' = "idle"
  /\ roffset' = 0 /\ rnumber' = 0 /\ values' = <<>>
  /\ snapshot' = <<>> /\ changed' = 0
  /\ UNCHANGED <<fileVars, writerVars>>

-----------------------------------------------------------------------------
(* read_records: what it makes of the values *)

\* (mutant: a record of the end time is not returned)
EndsBefore(d, end) == d >= end

EndsAfter(d, end) == d > end

\* The first record that is not before start, and those after it up to the first
\* that is after end.  (The record at first itself is not compared with end.)
ReadRecords(list, start, end) ==
  LET first == CHOOSE i \in DOMAIN list :
                 list[i] >= start /\ \A j \in 1 .. i - 1 : list[j] < start
      late == {i \in first + 1 .. Len(list) : EndsAfter(list[i], end)}
      last == IF late = {} THEN Len(list) + 1
              ELSE CHOOSE i \in late : \A j \in late : i <= j
  IN  IF list[1] > end \/ list[Len(list)] < start
        THEN <<>>
        ELSE SubSeq(list, first, last - 1)

-----------------------------------------------------------------------------
Writer ==
  \/ Create \/ Open \/ WriteHeader \/ Crash
  \/ \E d \in Data : WriteRecord(d)
  \/ \E records \in Fillings : WriteAll(records)

Reader == OpenReader \/ ReadBlock \/ FinishReading \/ CloseReader

Next == Writer \/ Reader

Spec == Init /\ [][Next]_vars

-----------------------------------------------------------------------------
(* Properties *)

TypeOK ==
  /\ file \in {"absent", "created", "written"}
  /\ slot \in [Slots -> Data]
  /\ offset \in Slots /\ number \in 0 .. MaxRecords
  /\ writer \in {"closed", "idle", "committing"}
  /\ woffset \in Slots /\ wnumber \in 0 .. MaxRecords
  /\ reader \in {"idle", "reading", "done"}
  /\ roffset \in Slots /\ rnumber \in 0 .. MaxRecords
  /\ values \in Seq(Data) /\ Len(values) <= rnumber
  /\ torn \in BOOLEAN
  /\ snapshot \in Seq(Data) /\ Len(snapshot) = rnumber
  /\ changed \in 0 .. MaxRecords

\* The ring: it turns only when it is full, the handle knows the header, and a
\* record is torn only at the place of the oldest one of a full file.
RingSound ==
  /\ number < MaxRecords => offset = 0
  /\ file # "written" => number = 0
  /\ writer # "closed" => woffset = offset /\ wnumber = number
  /\ torn => number = MaxRecords
  /\ writer = "committing" => file = "written" /\ (number = MaxRecords => torn)

\* What a reader finds is what it had found at once when it read the header, but
\* for the records overwritten meanwhile, and these are the oldest.
ReaderSound ==
  /\ reader = "idle" => changed = 0 /\ rnumber = 0 /\ roffset = 0
  /\ reader # "idle" => file = "written" /\ rnumber <= number
  /\ rnumber < MaxRecords => roffset = 0
  /\ reader # "idle" /\ torn => changed > 0
  /\ reader # "idle" /\ changed < MaxRecords =>
       /\ offset + (IF torn THEN 1 ELSE 0)
            \in {roffset + changed, roffset + changed - MaxRecords}
       /\ \A j \in changed + 1 .. rnumber :
            slot[Around(roffset + j - 1, rnumber)] = snapshot[j]

\* A reader that runs while the file is written gets what the file contained
\* when it began, except for as many of the oldest records as were overwritten
\* meanwhile: these entries, at the front, hold other records.
OnlyOldestChange ==
  \A j \in DOMAIN values : j > changed => values[j] = snapshot[j]

\* The inductive invariant of the file and its reader.
FileInv == TypeOK /\ RingSound /\ ReaderSound /\ OnlyOldestChange

\* What can be relied on: a torn record is not.
Durable == IF torn THEN Tail(Contents) ELSE Contents

\* A file keeps the promise of BoundedLog, through crashes at any step.
Log == INSTANCE BoundedLog WITH log <- Durable, Capacity <- MaxRecords

LogKept == Log!Spec

Ascending(list) == \A i, j \in DOMAIN list : i < j => list[i] <= list[j]

\* The docstring of read_records: "the list of records from start to end times,
\* inclusive", whenever there is one and the times are in order: the records that
\* are within the times lie together, and these are returned (datafile.py:282).
RangeIsRead ==
  reader = "done" /\ Ascending(values) =>
    \A start, end \in Data :
      LET within == {i \in DOMAIN values : start <= values[i] /\ values[i] <= end}
      IN  within # {} =>
            \E a, b \in within :
              within = a .. b /\ ReadRecords(values, start, end) = SubSeq(values, a, b)
=============================================================================
