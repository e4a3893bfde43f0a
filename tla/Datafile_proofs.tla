--------------------------- MODULE Datafile_proofs ---------------------------
(***************************************************************************)
(* Proofs about a data file of any capacity: its invariant, what a reader  *)
(* can rely on, and that it implements BoundedLog.                         *)
(*                                                                         *)
(* Both rest on arithmetic of the ring.  The place of the oldest record,   *)
(* one further while that record is torn, runs round the ring as far ahead *)
(* of a reader's as records were overwritten since it read the header, so  *)
(* the next record overwrites exactly the oldest one the reader can still  *)
(* have right (ReaderSound).                                               *)
(***************************************************************************)
EXTENDS Datafile, Latency, SequenceTheorems, WellFoundedInduction, TLAPS

-----------------------------------------------------------------------------
(* Lemmas about the ring *)

\* Less than twice around ends in a place.
LEMMA AroundPlace ==
  ASSUME NEW n \in Nat, NEW p \in Nat, p < 2 * n
  PROVE  Around(p, n) \in 0 .. n - 1
BY DEF Around

\* Place p + 1 is c places after place r of a ring of n, c > 0: then no place that
\* is further than c, and at most n, after r comes just after p.
LEMMA RingDistance ==
  ASSUME NEW n \in Nat, NEW p \in Nat, NEW r \in Nat, NEW c \in Nat, NEW j \in Nat,
         0 < c, c < j, j <= n, p + 1 \in {r + c, r + c - n}
  PROVE  r + j - 1 # p /\ r + j - 1 # p + n
OBVIOUS

\* What a file contains is a sequence of its number of records.
ContentsSound ==
  /\ Contents \in Seq(Data)
  /\ Len(Contents) = number
  /\ \A i \in 1 .. number :
       /\ Around(offset + i - 1, number) \in 0 .. number - 1
       /\ Contents[i] = slot[Around(offset + i - 1, number)]

LEMMA ContentsType == FileInv => ContentsSound
<1> SUFFICES ASSUME TypeOK, RingSound PROVE ContentsSound
  BY DEF FileInv
<1>1. number \in Nat /\ MaxRecords \in Nat /\ offset \in Nat /\ number <= MaxRecords
  BY MaxAssumption DEF TypeOK, Slots
<1>2. offset < MaxRecords /\ (number < MaxRecords => offset = 0)
  BY MaxAssumption DEF TypeOK, RingSound, Slots
<1>3. \A i \in 1 .. number : Around(offset + i - 1, number) \in 0 .. number - 1
  BY <1>1, <1>2 DEF Around
<1>4. Contents \in [1 .. number -> Data]
  BY <1>1, <1>3 DEF Contents, TypeOK, Slots
<1>5. Contents \in Seq(Data)
  BY <1>1, <1>4, SeqDef
<1>6. Len(Contents) = number
  BY <1>1, <1>4, <1>5, LenProperties
<1> QED
  BY <1>3, <1>5, <1>6 DEF Contents, ContentsSound

\* The same of the next state.
LEMMA NextContents == FileInv' => ContentsSound'
BY ContentsType, PTL

\* The next record goes to the end of a file that is not full, and to the place
\* of the oldest record of a full one.
LEMMA PlaceOfNext ==
  ASSUME TypeOK, RingSound, writer # "closed"
  PROVE  /\ WritePlace \in Slots
         /\ WritePlace = IF number = MaxRecords THEN offset ELSE number
BY MaxAssumption DEF WritePlace, Around, TypeOK, RingSound, Slots

-----------------------------------------------------------------------------
(* The invariant *)

LEMMA InitFile == Init => FileInv
<1> SUFFICES ASSUME Init PROVE FileInv
  OBVIOUS
<1>1. TypeOK
  <2>1. << >> \in Seq(Data) /\ Len(<< >>) = 0
    BY EmptySeq
  <2> QED
    BY <2>1, MaxAssumption DEF Init, TypeOK, Slots
<1>2. RingSound /\ ReaderSound /\ OnlyOldestChange
  BY MaxAssumption DEF Init, RingSound, ReaderSound, OnlyOldestChange
<1> QED
  BY <1>1, <1>2 DEF FileInv

\* Steps that leave the file and the reader alone.
LEMMA HandleStep ==
  ASSUME FileInv, Create \/ Open \/ Crash \/ UNCHANGED vars
  PROVE  FileInv'
<1>1. /\ UNCHANGED <<slot, offset, number, torn, readerVars>>
      /\ file' \in {"absent", "created", "written"}
      /\ writer' \in {"closed", "idle", "committing"}
      /\ woffset' \in Slots /\ wnumber' \in 0 .. MaxRecords
  BY MaxAssumption
     DEF Create, Open, Crash, vars, fileVars, writerVars, readerVars, FileInv, TypeOK, Slots
<1>2. TypeOK'
  BY <1>1 DEF FileInv, TypeOK, readerVars
<1>3. RingSound'
  BY MaxAssumption
     DEF Create, Open, Crash, vars, fileVars, writerVars, FileInv, TypeOK, RingSound
<1>4. file' = file \/ file = "absent" \/ file' = "written"
  BY DEF Create, Open, Crash, vars, fileVars, FileInv, TypeOK
<1>5. ReaderSound' /\ OnlyOldestChange'
  BY <1>1, <1>4 DEF FileInv, ReaderSound, OnlyOldestChange, readerVars
<1> QED
  BY <1>2, <1>3, <1>5 DEF FileInv

\* A record is written over nothing, or over the oldest record.
LEMMA WriteRecordStep ==
  ASSUME FileInv, NEW d \in Data, WriteRecord(d)
  PROVE  FileInv'
<1> DEFINE w == WritePlace
<1>1. /\ w \in Slots
      /\ w = IF number = MaxRecords THEN offset ELSE number
  BY PlaceOfNext DEF FileInv, WriteRecord
<1>2. slot' = [slot EXCEPT ![w] = d] /\ slot' \in [Slots -> Data]
  BY <1>1 DEF WriteRecord, FileInv, TypeOK
<1>3. torn' \in BOOLEAN /\ changed' \in 0 .. MaxRecords
  BY MaxAssumption DEF WriteRecord, FileInv, TypeOK
<1>4. TypeOK'
  BY <1>2, <1>3 DEF WriteRecord, FileInv, TypeOK
<1>5. RingSound'
  BY DEF WriteRecord, FileInv, RingSound
<1>6. changed <= changed'
  BY <1>3 DEF WriteRecord, FileInv, TypeOK
<1>7. OnlyOldestChange'
  BY <1>3, <1>6, LenProperties DEF WriteRecord, FileInv, TypeOK, OnlyOldestChange
<1>8. ASSUME reader # "idle", changed' < MaxRecords
      PROVE  /\ offset + (IF torn' THEN 1 ELSE 0)
                  \in {roffset + changed', roffset + changed' - MaxRecords}
             /\ \A j \in changed' + 1 .. rnumber :
                  slot'[Around(roffset + j - 1, rnumber)] = snapshot[j]
  <2>1. /\ changed \in Nat /\ changed < MaxRecords /\ rnumber \in Nat
        /\ rnumber <= number /\ number <= MaxRecords /\ number \in Nat
        /\ offset \in Nat /\ offset < MaxRecords
        /\ roffset \in Nat /\ roffset < MaxRecords
        /\ (rnumber < MaxRecords => roffset = 0)
        /\ (number < MaxRecords => offset = 0)
        /\ MaxRecords \in Nat /\ changed' \in Nat
    BY <1>3, <1>6, <1>8, MaxAssumption
       DEF FileInv, TypeOK, RingSound, ReaderSound, Slots
  <2>2. /\ offset + (IF torn THEN 1 ELSE 0)
             \in {roffset + changed, roffset + changed - MaxRecords}
        /\ \A j \in changed + 1 .. rnumber :
             slot[Around(roffset + j - 1, rnumber)] = snapshot[j]
    BY <1>8, <2>1 DEF FileInv, ReaderSound
  <2>3. CASE number < MaxRecords
    <3>1. ~torn /\ torn' = torn /\ changed' = changed /\ w = number
      BY <1>1, <2>1, <2>3 DEF FileInv, RingSound, WriteRecord, TypeOK
    <3>2. ASSUME NEW j \in changed + 1 .. rnumber
          PROVE  Around(roffset + j - 1, rnumber) # w
      BY <2>1, <2>3, <3>1 DEF Around
    <3>3. \A j \in changed + 1 .. rnumber : Around(roffset + j - 1, rnumber) \in Slots
      BY <2>1, <2>3 DEF Around, Slots
    <3> QED
      BY <1>2, <2>2, <3>1, <3>2, <3>3 DEF FileInv, TypeOK
  <2>4. CASE number = MaxRecords
    <3>1. torn' = TRUE /\ w = offset
      BY <1>1, <2>4 DEF WriteRecord
    <3>2. (changed' = IF torn THEN changed ELSE changed + 1) /\ changed' > 0
      BY <1>8, <2>1, <2>4 DEF WriteRecord, FileInv, ReaderSound
    <3>3. offset + 1 \in {roffset + changed', roffset + changed' - MaxRecords}
      BY <2>1, <2>2, <3>2 DEF FileInv, TypeOK
    <3>4. ASSUME NEW j \in changed' + 1 .. rnumber
          PROVE  /\ Around(roffset + j - 1, rnumber) # w
                 /\ Around(roffset + j - 1, rnumber) \in Slots
                 /\ j \in changed + 1 .. rnumber
      <4>1. j \in Nat /\ changed' < j /\ j <= rnumber /\ changed <= changed'
        BY <2>1, <3>2
      <4>2. roffset + j - 1 # offset /\ roffset + j - 1 # offset + MaxRecords
        <5>1. /\ changed' \in Nat /\ changed' > 0 /\ roffset \in Nat /\ offset \in Nat
              /\ MaxRecords \in Nat /\ j <= MaxRecords
          BY <2>1, <3>2, <4>1
        <5> QED
          BY <3>3, <4>1, <5>1, RingDistance
      <4>3. CASE rnumber = MaxRecords
        BY <2>1, <3>1, <4>1, <4>2, <4>3 DEF Around, Slots
      <4>4. CASE rnumber < MaxRecords
        BY <2>1, <3>1, <4>1, <4>2, <4>4 DEF Around, Slots
      <4> QED
        BY <2>1, <4>1, <4>3, <4>4
    <3>5. \A j \in changed' + 1 .. rnumber :
            slot'[Around(roffset + j - 1, rnumber)] = snapshot[j]
      BY <1>2, <2>2, <3>4 DEF FileInv, TypeOK
    <3>6. offset + (IF torn' THEN 1 ELSE 0) = offset + 1
      BY <3>1
    <3>7. offset + (IF torn' THEN 1 ELSE 0)
            \in {roffset + changed', roffset + changed' - MaxRecords}
      BY <3>3, <3>6
    <3> QED
      BY <3>5, <3>7
  <2>5. number < MaxRecords \/ number = MaxRecords
    BY <2>1
  <2> QED
    BY <2>3, <2>4, <2>5
<1>9. ReaderSound'
  <2>1. UNCHANGED <<offset, number, reader, roffset, rnumber, snapshot>> /\ file' = "written"
    BY DEF WriteRecord
  <2>2. reader = "idle" => changed' = changed
    BY DEF WriteRecord
  <2>3. ASSUME reader # "idle", torn'
        PROVE  changed' > 0
    BY <2>3, MaxAssumption DEF WriteRecord, FileInv, TypeOK, ReaderSound
  <2> QED
    BY <1>8, <2>1, <2>2, <2>3 DEF FileInv, ReaderSound
<1> QED
  BY <1>4, <1>5, <1>7, <1>9 DEF FileInv

\* The header follows: the file is one longer, or turns by one.
LEMMA WriteHeaderStep ==
  ASSUME FileInv, WriteHeader
  PROVE  FileInv'
<1>1. /\ offset \in Nat /\ offset < MaxRecords /\ number \in Nat /\ number <= MaxRecords
      /\ MaxRecords \in Nat \ {0}
      /\ woffset = offset /\ wnumber = number
      /\ (number < MaxRecords => offset = 0) /\ (torn <=> number = MaxRecords)
      /\ file = "written" /\ torn \in BOOLEAN
  BY MaxAssumption DEF WriteHeader, FileInv, TypeOK, RingSound, Slots
<1>2. /\ offset' = IF number < MaxRecords THEN offset ELSE Around(offset + 1, MaxRecords)
      /\ number' = IF number < MaxRecords THEN number + 1 ELSE number
      /\ woffset' = offset' /\ wnumber' = number'
      /\ torn' = FALSE /\ writer' = "idle"
      /\ UNCHANGED <<file, slot, readerVars>>
  BY <1>1 DEF WriteHeader, NextOffset
<1>3. /\ offset' \in Slots /\ number' \in 0 .. MaxRecords
      /\ (number' < MaxRecords => offset' = 0) /\ number <= number'
  BY <1>1, <1>2 DEF Around, Slots
<1>4. TypeOK'
  BY <1>2, <1>3 DEF FileInv, TypeOK, readerVars
<1>5. RingSound'
  BY <1>1, <1>2, <1>3 DEF FileInv, RingSound
<1>6. offset' \in {offset + (IF torn THEN 1 ELSE 0), offset + (IF torn THEN 1 ELSE 0) - MaxRecords}
  BY <1>1, <1>2 DEF Around
<1>7. ASSUME reader # "idle", changed < MaxRecords
      PROVE  offset' \in {roffset + changed, roffset + changed - MaxRecords}
  <2>1. offset + (IF torn THEN 1 ELSE 0)
          \in {roffset + changed, roffset + changed - MaxRecords}
    BY <1>7 DEF FileInv, ReaderSound
  <2>2. changed \in Nat /\ roffset \in Nat /\ roffset < MaxRecords /\ offset' \in Nat
    BY <1>1, <1>3 DEF FileInv, TypeOK, Slots
  <2> QED
    BY <1>1, <1>6, <1>7, <2>1, <2>2
<1>8. ReaderSound'
  <2>1. UNCHANGED <<file, slot, reader, roffset, rnumber, snapshot, changed>>
    BY <1>2 DEF readerVars
  <2>2. rnumber \in Nat /\ number' \in Nat /\ number \in Nat
    BY <1>1, <1>3 DEF FileInv, TypeOK
  <2>3. reader # "idle" => rnumber <= number'
    BY <1>3, <2>2 DEF FileInv, ReaderSound
  <2>4. offset' + (IF torn' THEN 1 ELSE 0) = offset'
    BY <1>2, <1>3 DEF Slots
  <2> QED
    BY <1>2, <1>7, <2>1, <2>3, <2>4 DEF FileInv, ReaderSound
<1>9. OnlyOldestChange'
  BY <1>2 DEF FileInv, OnlyOldestChange, readerVars
<1> QED
  BY <1>4, <1>5, <1>8, <1>9 DEF FileInv

\* A filling is a sequence that fits.
LEMMA FillingType ==
  ASSUME NEW records \in Fillings
  PROVE  /\ records \in Seq(Data)
         /\ Len(records) \in 0 .. MaxRecords
         /\ \A i \in 1 .. Len(records) : records[i] \in Data
<1>1. PICK n \in 0 .. MaxRecords : records \in [1 .. n -> Data]
  BY DEF Fillings
<1>2. n \in Nat /\ records \in Seq(Data)
  BY <1>1, MaxAssumption, SeqDef
<1>3. Len(records) = n
  BY <1>1, <1>2, LenProperties
<1> QED
  BY <1>1, <1>2, <1>3

LEMMA WriteAllStep ==
  ASSUME FileInv, NEW records \in Fillings, WriteAll(records)
  PROVE  FileInv'
<1>1. reader = "idle" /\ torn = FALSE /\ file = "created"
  BY MaxAssumption DEF WriteAll, FileInv, TypeOK, RingSound, ReaderSound
<1>2. slot' \in [Slots -> Data]
  BY FillingType, MaxAssumption DEF WriteAll, FileInv, TypeOK, Slots
<1>3. TypeOK'
  BY <1>2, FillingType, MaxAssumption DEF WriteAll, FileInv, TypeOK, Slots, readerVars
<1>4. RingSound'
  BY <1>1, FillingType, MaxAssumption DEF WriteAll, FileInv, RingSound, TypeOK
<1>5. ReaderSound' /\ OnlyOldestChange'
  BY <1>1 DEF WriteAll, FileInv, ReaderSound, OnlyOldestChange, readerVars
<1> QED
  BY <1>3, <1>4, <1>5 DEF FileInv

LEMMA ReaderStep ==
  ASSUME FileInv, Reader
  PROVE  FileInv'
<1>1. CASE OpenReader
  <2>1. /\ Contents \in Seq(Data) /\ Len(Contents) = number
        /\ \A i \in 1 .. number : Contents[i] = slot[Around(offset + i - 1, number)]
    BY ContentsType DEF ContentsSound
  <2>2. << >> \in Seq(Data) /\ Len(<< >>) = 0
    BY EmptySeq
  <2>3. TypeOK'
    BY <1>1, <2>1, <2>2, MaxAssumption
       DEF OpenReader, FileInv, TypeOK, RingSound, fileVars, writerVars
  <2>4. RingSound'
    BY <1>1 DEF OpenReader, FileInv, RingSound, fileVars, writerVars
  <2>5. ReaderSound'
    <3>1. /\ UNCHANGED <<file, slot, offset, number, torn>> /\ file = "written"
          /\ reader' = "reading" /\ roffset' = offset /\ rnumber' = number
          /\ snapshot' = Contents /\ changed' = IF torn THEN 1 ELSE 0
      BY <1>1 DEF OpenReader, fileVars
    <3>2. /\ number <= number /\ offset \in Nat /\ number \in Nat
          /\ (number < MaxRecords => offset = 0)
      BY MaxAssumption DEF FileInv, TypeOK, RingSound, Slots
    <3>3. \A j \in changed' + 1 .. number :
            slot[Around(offset + j - 1, number)] = snapshot'[j]
      BY <2>1, <3>1, <3>2
    <3> QED
      BY <3>1, <3>2, <3>3 DEF ReaderSound
  <2>6. OnlyOldestChange'
    BY <1>1, <2>2 DEF OpenReader, OnlyOldestChange
  <2> QED
    BY <2>3, <2>4, <2>5, <2>6 DEF FileInv
<1>2. CASE ReadBlock
  <2> DEFINE n == Len(values)
  <2>1. /\ n \in Nat /\ n < rnumber /\ rnumber \in Nat /\ rnumber <= MaxRecords
        /\ roffset \in Nat /\ roffset < MaxRecords /\ (rnumber < MaxRecords => roffset = 0)
        /\ MaxRecords \in Nat /\ DOMAIN values = 1 .. n /\ changed \in Nat
    BY <1>2, MaxAssumption, LenProperties
       DEF ReadBlock, FileInv, TypeOK, ReaderSound, Slots
  <2>2. ReadPlace \in Slots /\ ReadPlace = Around(roffset + (n + 1) - 1, rnumber)
    BY <2>1 DEF ReadPlace, Around, Slots
  <2>3. slot[ReadPlace] \in Data
    BY <2>2 DEF FileInv, TypeOK
  <2>4. /\ values' \in Seq(Data) /\ Len(values') = n + 1 /\ DOMAIN values' = 1 .. n + 1
        /\ \A j \in 1 .. n : values'[j] = values[j]
        /\ values'[n + 1] = slot[ReadPlace]
    BY <1>2, <2>3, AppendProperties, LenProperties DEF ReadBlock, FileInv, TypeOK
  <2>5. TypeOK' /\ RingSound' /\ ReaderSound'
    BY <1>2, <2>1, <2>4
       DEF ReadBlock, FileInv, TypeOK, RingSound, ReaderSound, fileVars, writerVars
  <2>6. ASSUME changed < n + 1
        PROVE  slot[ReadPlace] = snapshot[n + 1]
    <3>1. changed < MaxRecords /\ n + 1 \in changed + 1 .. rnumber
      BY <2>1, <2>6
    <3>2. \A j \in changed + 1 .. rnumber :
            slot[Around(roffset + j - 1, rnumber)] = snapshot[j]
      BY <1>2, <3>1 DEF ReadBlock, FileInv, ReaderSound
    <3> QED
      BY <2>2, <3>1, <3>2
  <2>7. OnlyOldestChange'
    BY <1>2, <2>1, <2>4, <2>6 DEF ReadBlock, FileInv, OnlyOldestChange
  <2> QED
    BY <2>5, <2>7 DEF FileInv
<1>3. CASE FinishReading
  BY <1>3 DEF FinishReading, FileInv, TypeOK, RingSound, ReaderSound, OnlyOldestChange,
              fileVars, writerVars
<1>4. CASE CloseReader
  <2>1. << >> \in Seq(Data) /\ Len(<< >>) = 0
    BY EmptySeq
  <2>2. TypeOK'
    BY <1>4, <2>1, MaxAssumption DEF CloseReader, FileInv, TypeOK, fileVars, writerVars, Slots
  <2> QED
    BY <1>4, <2>2, MaxAssumption
       DEF CloseReader, FileInv, RingSound, ReaderSound, OnlyOldestChange, fileVars, writerVars
<1> QED
  BY <1>1, <1>2, <1>3, <1>4 DEF Reader

\* The invariant of the file and its reader holds, for any capacity.
THEOREM FileInvariant == Spec => []FileInv
<1>1. FileInv /\ [Next]_vars => FileInv'
  BY HandleStep, WriteRecordStep, WriteHeaderStep, WriteAllStep, ReaderStep DEF Next, Writer
<1> QED
  BY <1>1, InitFile, PTL DEF Spec

\* Offsets and numbers keep within the ring.
THEOREM TypeCorrect == Spec => []TypeOK
BY FileInvariant, PTL DEF FileInv

\* A reader that runs while the file is written can be wrong about as many of the
\* oldest records as were overwritten meanwhile, and about no other.
THEOREM ReadersSeeOldestChange == Spec => []OnlyOldestChange
BY FileInvariant, PTL DEF FileInv

-----------------------------------------------------------------------------
(* The refinement: a full file loses its oldest record when a record is     *)
(* written over it, and every file gains the new one with the header.       *)

\* What can be relied on is a sequence of records; a torn one is left out of it.
LEMMA DurableType ==
  ASSUME FileInv
  PROVE  /\ Durable \in Seq(Data)
         /\ ~torn => Durable = Contents
         /\ torn => number = MaxRecords /\ Len(Durable) = MaxRecords - 1
         /\ Len(Durable) = IF torn THEN number - 1 ELSE number
         /\ \A i \in 1 .. Len(Durable) :
              Durable[i] = Contents[IF torn THEN i + 1 ELSE i]
<1>1. Contents \in Seq(Data) /\ Len(Contents) = number
  BY ContentsType DEF ContentsSound
<1>2. number \in Nat /\ MaxRecords \in Nat \ {0} /\ torn \in BOOLEAN
  BY MaxAssumption DEF FileInv, TypeOK
<1>3. CASE torn
  <2>1. number = MaxRecords /\ Contents # << >>
    BY <1>1, <1>2, <1>3, EmptySeq DEF FileInv, RingSound
  <2>2. Durable = Tail(Contents)
    BY <1>3 DEF Durable
  <2>3. /\ Tail(Contents) \in Seq(Data) /\ Len(Tail(Contents)) = number - 1
        /\ \A i \in 1 .. number - 1 : Tail(Contents)[i] = Contents[i + 1]
    BY <1>1, <2>1, HeadTailProperties
  <2> QED
    BY <1>2, <1>3, <2>1, <2>2, <2>3
<1>4. CASE ~torn
  <2>1. Durable = Contents
    BY <1>4 DEF Durable
  <2> QED
    BY <1>1, <1>2, <1>4, <2>1
<1> QED
  BY <1>2, <1>3, <1>4

\* The file gains the record that was written: where a header of number records
\* is not full it is put after them, else after those that follow the torn one.
LEMMA HeaderRecords ==
  ASSUME FileInv, WriteHeader
  PROVE  \E d \in Data : Log!Record(d)
<1> DEFINE d == slot[WritePlace]
           Old == Durable
<1>1. /\ offset \in Nat /\ offset < MaxRecords /\ number \in Nat /\ number <= MaxRecords
      /\ MaxRecords \in Nat \ {0}
      /\ woffset = offset /\ wnumber = number
      /\ (number < MaxRecords => offset = 0) /\ (torn <=> number = MaxRecords)
  BY MaxAssumption DEF WriteHeader, FileInv, TypeOK, RingSound, Slots
<1>2. /\ offset' = IF number < MaxRecords THEN offset ELSE Around(offset + 1, MaxRecords)
      /\ number' = IF number < MaxRecords THEN number + 1 ELSE number
      /\ torn' = FALSE /\ slot' = slot
  BY <1>1 DEF WriteHeader, NextOffset
<1>3. /\ WritePlace \in Slots
      /\ WritePlace = IF number = MaxRecords THEN offset ELSE number
  BY PlaceOfNext DEF FileInv, WriteHeader
<1>4. d \in Data
  BY <1>3 DEF FileInv, TypeOK
<1>5. /\ Old \in Seq(Data) /\ Len(Old) = number' - 1 /\ Len(Old) < MaxRecords
      /\ \A i \in 1 .. Len(Old) : Old[i] = Contents[IF torn THEN i + 1 ELSE i]
  BY <1>1, <1>2, DurableType
<1>6. FileInv'
  BY WriteHeaderStep
<1>7. /\ Contents' \in Seq(Data) /\ Len(Contents') = number'
      /\ \A i \in 1 .. number' : Contents'[i] = slot[Around(offset' + i - 1, number')]
  BY <1>2, <1>6, NextContents DEF ContentsSound
<1>8. /\ \A i \in 1 .. number : Contents[i] = slot[Around(offset + i - 1, number)]
  BY ContentsType DEF ContentsSound
<1>9. Contents' = Append(Old, d)
  <2>1. /\ Append(Old, d) \in Seq(Data) /\ Len(Append(Old, d)) = number'
        /\ \A i \in 1 .. number' - 1 : Append(Old, d)[i] = Old[i]
        /\ Append(Old, d)[number'] = d
    BY <1>1, <1>2, <1>4, <1>5, AppendProperties
  <2>2. ASSUME NEW i \in 1 .. number'
        PROVE  Contents'[i] = Append(Old, d)[i]
    <3>1. CASE number < MaxRecords /\ i = number'
      BY <1>1, <1>2, <1>3, <1>7, <2>1, <3>1 DEF Around
    <3>2. CASE number < MaxRecords /\ i # number'
      <4>1. i \in 1 .. number /\ i \in 1 .. number' - 1 /\ ~torn
        BY <1>1, <1>2, <3>2
      <4>2. Append(Old, d)[i] = slot[Around(offset + i - 1, number)]
        BY <1>5, <1>8, <2>1, <4>1
      <4> QED
        BY <1>1, <1>2, <1>7, <3>2, <4>1, <4>2 DEF Around
    <3>3. CASE number = MaxRecords /\ i = number'
      BY <1>1, <1>2, <1>3, <1>7, <2>1, <3>3 DEF Around
    <3>4. CASE number = MaxRecords /\ i # number'
      <4>1. i + 1 \in 1 .. number /\ i \in 1 .. number' - 1 /\ torn
        BY <1>1, <1>2, <3>4
      <4>2. Append(Old, d)[i] = slot[Around(offset + (i + 1) - 1, number)]
        BY <1>5, <1>8, <2>1, <4>1
      <4> QED
        BY <1>1, <1>2, <1>7, <3>4, <4>1, <4>2 DEF Around
    <3>5. number < MaxRecords \/ number = MaxRecords
      BY <1>1
    <3> QED
      BY <3>1, <3>2, <3>3, <3>4, <3>5
  <2> QED
    BY <1>7, <2>1, <2>2, SeqEqual
<1>10. Durable' = Contents'
  BY <1>2 DEF Durable
<1>11. Log!Record(d)
  BY <1>5, <1>9, <1>10 DEF Log!Record
<1> QED
  BY <1>4, <1>11

\* Before the header, a full file has lost its oldest record, once; any other file
\* is what it was.
LEMMA RecordLoses ==
  ASSUME FileInv, NEW d \in Data, WriteRecord(d)
  PROVE  Log!LoseOldest \/ UNCHANGED Durable
<1>1. /\ WritePlace \in Slots
      /\ WritePlace = IF number = MaxRecords THEN offset ELSE number
  BY PlaceOfNext DEF FileInv, WriteRecord
<1>2. /\ slot' = [slot EXCEPT ![WritePlace] = d]
      /\ UNCHANGED <<offset, number>> /\ torn' = (torn \/ number = MaxRecords)
  BY DEF WriteRecord
<1>3. /\ offset \in Nat /\ offset < MaxRecords /\ number \in Nat /\ number <= MaxRecords
      /\ MaxRecords \in Nat \ {0} /\ torn \in BOOLEAN
      /\ (number < MaxRecords => offset = 0) /\ (torn => number = MaxRecords)
  BY MaxAssumption DEF FileInv, TypeOK, RingSound, Slots
<1>4. FileInv'
  BY WriteRecordStep
<1>5. /\ Contents \in Seq(Data) /\ Len(Contents) = number
      /\ Contents' \in Seq(Data) /\ Len(Contents') = number
      /\ \A i \in 1 .. number :
           /\ Around(offset + i - 1, number) \in 0 .. number - 1
           /\ Contents[i] = slot[Around(offset + i - 1, number)]
           /\ Contents'[i] = slot'[Around(offset + i - 1, number)]
  BY <1>2, <1>4, ContentsType, NextContents DEF ContentsSound
<1>6. ASSUME NEW i \in 1 .. number, number = MaxRecords => i > 1
      PROVE  Contents'[i] = Contents[i]
  <2>1. Around(offset + i - 1, number) # WritePlace
    BY <1>1, <1>3, <1>5, <1>6 DEF Around
  <2>2. Around(offset + i - 1, number) \in Slots
    <3>1. Around(offset + i - 1, number) \in 0 .. number - 1
      BY <1>5
    <3> QED
      BY <1>3, <3>1 DEF Slots
  <2> QED
    BY <1>1, <1>2, <1>5, <2>1, <2>2 DEF FileInv, TypeOK
<1>7. CASE number < MaxRecords
  <2>1. Contents' = Contents
    BY <1>3, <1>5, <1>6, <1>7, SeqEqual
  <2>2. torn' = FALSE /\ torn = FALSE
    BY <1>2, <1>3, <1>7
  <2> QED
    BY <2>1, <2>2 DEF Durable
<1>8. CASE number = MaxRecords
  <2>1. Contents # << >> /\ Contents' # << >>
    BY <1>3, <1>5, <1>8, EmptySeq
  <2>2. /\ Tail(Contents) \in Seq(Data) /\ Len(Tail(Contents)) = number - 1
        /\ \A i \in 1 .. number - 1 : Tail(Contents)[i] = Contents[i + 1]
    BY <1>5, <2>1, HeadTailProperties
  <2>3. /\ Tail(Contents') \in Seq(Data) /\ Len(Tail(Contents')) = number - 1
        /\ \A i \in 1 .. number - 1 : Tail(Contents')[i] = Contents'[i + 1]
    BY <1>5, <2>1, HeadTailProperties
  <2>4. ASSUME NEW i \in 1 .. number - 1
        PROVE  Tail(Contents')[i] = Tail(Contents)[i]
    <3>1. i + 1 \in 1 .. number /\ i + 1 > 1
      BY <1>3
    <3> QED
      BY <1>6, <2>2, <2>3, <3>1
  <2>5. Tail(Contents') = Tail(Contents)
    BY <2>2, <2>3, <2>4, SeqEqual
  <2>6. Durable' = Tail(Contents)
    BY <1>2, <1>8, <2>5 DEF Durable
  <2>7. CASE torn
    BY <2>6, <2>7 DEF Durable
  <2>8. CASE ~torn
    BY <1>5, <1>8, <2>6, <2>8 DEF Durable, Log!LoseOldest
  <2> QED
    BY <2>7, <2>8
<1> QED
  BY <1>3, <1>7, <1>8

\* A file is filled when it has just been created.
LEMMA AllFills ==
  ASSUME FileInv, NEW records \in Fillings, WriteAll(records)
  PROVE  Log!Fill
<1>1. torn = FALSE /\ number = 0 /\ torn' = FALSE /\ number' = Len(records)
  BY MaxAssumption DEF WriteAll, FileInv, TypeOK, RingSound
<1>2. Durable = << >>
  <2>1. Durable = Contents /\ Contents \in Seq(Data) /\ Len(Contents) = 0
    BY <1>1, ContentsType DEF Durable, ContentsSound
  <2> QED
    BY <2>1, EmptySeq
<1>3. FileInv'
  BY WriteAllStep
<1>4. Durable' \in Seq(Data) /\ Len(Durable') <= MaxRecords
  <2>1. Durable' = Contents' /\ Contents' \in Seq(Data) /\ Len(Contents') = number'
    BY <1>1, <1>3, NextContents DEF Durable, ContentsSound
  <2> QED
    BY <1>1, <2>1, FillingType, MaxAssumption
<1> QED
  BY <1>2, <1>4 DEF Log!Fill

\* A data file of any capacity keeps the promise of BoundedLog: wherever its
\* writer ends, the last records are there, in order, but for the oldest one of a
\* full file.
THEOREM KeepsLog == Spec => LogKept
<1>1. Init => Log!Init
  <2> SUFFICES ASSUME Init PROVE Durable = << >>
    BY DEF Log!Init
  <2>1. Durable = Contents /\ Contents \in Seq(Data) /\ Len(Contents) = 0
    BY InitFile, ContentsType DEF Durable, ContentsSound, Init
  <2> QED
    BY <2>1, EmptySeq
<1>2. FileInv /\ [Next]_vars => [Log!Next]_Durable
  <2> SUFFICES ASSUME FileInv, [Next]_vars PROVE [Log!Next]_Durable
    OBVIOUS
  <2>1. CASE \E d \in Data : WriteRecord(d)
    BY <2>1, RecordLoses DEF Log!Next
  <2>2. CASE WriteHeader
    BY <2>2, HeaderRecords DEF Log!Next
  <2>3. CASE \E records \in Fillings : WriteAll(records)
    BY <2>3, AllFills DEF Log!Next
  <2>4. CASE UNCHANGED <<slot, offset, number, torn>>
    BY <2>4 DEF Durable, Contents
  <2> QED
    BY <2>1, <2>2, <2>3, <2>4
       DEF Next, Writer, Reader, Create, Open, Crash, OpenReader, ReadBlock, FinishReading,
           CloseReader, vars, fileVars
<1> QED
  BY <1>1, <1>2, FileInvariant, PTL DEF Spec, LogKept, Log!Spec

-----------------------------------------------------------------------------
(* read_records                                                             *)

\* Some numbers have a least one.
LEMMA Least ==
  ASSUME NEW T \in SUBSET Nat, T # {}
  PROVE  \E m \in T : \A n \in T : m <= n
<1> DEFINE less == OpToRel(<, Nat)
<1>1. IsWellFoundedOn(less, Nat)
  BY NatLessThanWellFounded
<1>2. \A x, y \in Nat : <<x, y>> \in less <=> x < y
  BY DEF OpToRel
<1> HIDE DEF less
<1>3. PICK x \in T : \A y \in T : <<y, x>> \notin less
  BY <1>1, WFMin
<1>4. \A y \in T : ~ (y < x)
  BY <1>2, <1>3, Zenon
<1> QED
  BY <1>4

\* Of records in the order of their times, with some within the two times, it
\* returns these: the first one is the first that is not too early, and before the
\* first one after it that is too late all are in time.
LEMMA RangeOf ==
  ASSUME NEW list \in Seq(Data), Ascending(list), NEW start \in Data, NEW end \in Data,
         {i \in DOMAIN list : start <= list[i] /\ list[i] <= end} # {}
  PROVE  \E a, b \in {i \in DOMAIN list : start <= list[i] /\ list[i] <= end} :
           /\ {i \in DOMAIN list : start <= list[i] /\ list[i] <= end} = a .. b
           /\ ReadRecords(list, start, end) = SubSeq(list, a, b)
<1> DEFINE n == Len(list)
           within == {i \in DOMAIN list : start <= list[i] /\ list[i] <= end}
           IsFirst(i) == list[i] >= start /\ \A j \in 1 .. i - 1 : list[j] < start
           first == CHOOSE i \in DOMAIN list : IsFirst(i)
<1>1. /\ n \in Nat /\ DOMAIN list = 1 .. n /\ \A i \in 1 .. n : list[i] \in Nat
      /\ start \in Nat /\ end \in Nat
      /\ \A i, j \in 1 .. n : i <= j => list[i] <= list[j]
  <2>1. n \in Nat /\ DOMAIN list = 1 .. n /\ \A i \in 1 .. n : list[i] \in Nat
    <3>1. n \in Nat /\ DOMAIN list = 1 .. n /\ \A i \in 1 .. n : list[i] \in Data
      BY LenProperties, ElementOfSeq
    <3> QED
      BY <3>1, DataAssumption
  <2>2. \A i, j \in 1 .. n : i <= j => list[i] <= list[j]
    BY <2>1 DEF Ascending
  <2> QED
    BY <2>1, <2>2, DataAssumption
<1>2. PICK a \in within : \A i \in within : a <= i
  <2>1. within \in SUBSET Nat /\ within # {}
    BY <1>1
  <2> QED
    BY <2>1, Least
<1>3. a \in 1 .. n /\ start <= list[a] /\ list[a] <= end
  BY <1>1, <1>2
<1>4. IsFirst(a)
  <2> SUFFICES ASSUME NEW j \in 1 .. a - 1, ~ (list[j] < start) PROVE FALSE
    BY <1>1, <1>3
  <2>1. j \in 1 .. n /\ j < a /\ start <= list[j] /\ list[j] <= list[a]
    BY <1>1, <1>3
  <2>2. list[j] <= end
    BY <1>1, <1>3, <2>1
  <2> QED
    BY <1>1, <1>2, <1>3, <2>1, <2>2
<1>5. \A i \in 1 .. n : IsFirst(i) => i = a
  BY <1>1, <1>3, <1>4
<1>6. first = a
  BY <1>1, <1>3, <1>4, <1>5
<1> DEFINE late == {i \in a + 1 .. n : list[i] > end}
           last == IF late = {} THEN n + 1 ELSE CHOOSE i \in late : \A j \in late : i <= j
<1>7. last \in a + 1 .. n + 1 /\ \A i \in a + 1 .. n : list[i] > end <=> last <= i
  <2>1. CASE late = {}
    <3>1. last = n + 1 /\ \A i \in a + 1 .. n : ~ (list[i] > end)
      BY <2>1
    <3> HIDE DEF last, late
    <3> QED
      BY <1>1, <1>3, <3>1
  <2>2. CASE late # {}
    <3>1. late \in SUBSET Nat
      BY <1>1, <1>3
    <3>2. \E i \in late : \A j \in late : i <= j
      BY <2>2, <3>1, Least
    <3>3. last \in late /\ \A j \in late : last <= j
      BY <2>2, <3>2
    <3> HIDE DEF last
    <3>4. last \in a + 1 .. n /\ list[last] > end
      BY <3>3
    <3>5. ASSUME NEW i \in a + 1 .. n, last <= i
          PROVE  list[i] > end
      <4>1. i \in 1 .. n /\ last \in 1 .. n
        BY <1>1, <1>3, <3>4, <3>5
      <4>2. list[last] <= list[i]
        BY <1>1, <3>5, <4>1
      <4> QED
        BY <1>1, <3>4, <4>1, <4>2
    <3> QED
      BY <1>1, <1>3, <3>3, <3>4, <3>5
  <2> QED
    BY <2>1, <2>2
<1>8. ReadRecords(list, start, end) = SubSeq(list, a, last - 1)
  <2>1. 1 \in 1 .. n /\ n \in 1 .. n /\ list[1] <= list[a] /\ list[a] <= list[n]
    BY <1>1, <1>3
  <2>2. ~ (list[1] > end \/ list[n] < start)
    BY <1>1, <1>3, <2>1
  <2>3. ReadRecords(list, start, end)
          = LET l == {i \in first + 1 .. n : list[i] > end}
            IN  SubSeq(list, first,
                       (IF l = {} THEN n + 1 ELSE CHOOSE i \in l : \A j \in l : i <= j) - 1)
    BY <2>2 DEF ReadRecords, EndsAfter
  <2> HIDE DEF first, IsFirst
  <2> QED
    BY <1>6, <2>3, Zenon
<1> HIDE DEF last, first
<1> DEFINE b == last - 1
<1>9. b \in a .. n /\ b + 1 = last
  BY <1>1, <1>3, <1>7
<1>10. \A i \in 1 .. n : i \in within <=> a <= i /\ i <= b
  <2> SUFFICES ASSUME NEW i \in 1 .. n PROVE i \in within <=> a <= i /\ i <= b
    OBVIOUS
  <2>1. CASE i < a
    BY <1>1, <1>2, <1>3, <2>1
  <2>2. CASE i = a
    BY <1>1, <1>2, <1>3, <1>9, <2>2
  <2>3. CASE a < i
    <3>1. i \in a + 1 .. n /\ start <= list[a] /\ list[a] <= list[i] /\ list[i] \in Nat
      BY <1>1, <1>3, <2>3
    <3>2. start <= list[i]
      BY <1>1, <1>3, <3>1
    <3>3. list[i] > end <=> last <= i
      BY <1>7, <3>1
    <3> QED
      BY <1>1, <1>3, <1>9, <2>3, <3>1, <3>2, <3>3
  <2> QED
    BY <1>1, <1>3, <2>1, <2>2, <2>3
<1>11. within = a .. b /\ b \in within
  BY <1>1, <1>3, <1>9, <1>10
<1> QED
  BY <1>2, <1>8, <1>11

\* A range that has records is read exactly, for any records in the order of time
\* (the docstring, datafile.py:282).
THEOREM RangesAlwaysRead == Spec => []RangeIsRead
<1>1. TypeOK => RangeIsRead
  BY RangeOf DEF TypeOK, RangeIsRead
<1> QED
  BY <1>1, TypeCorrect, PTL

-----------------------------------------------------------------------------
(* The encoding of latencies, for a clock of any resolution.                  *)

\* Quotient and remainder.
LEMMA Division ==
  ASSUME NEW num \in Int, NEW den \in Nat \ {0}
  PROVE  /\ num \div den \in Int /\ num % den \in 0 .. den - 1
         /\ num = den * (num \div den) + (num % den)
  BY Z3

\* A multiple of a positive number grows with its factor.
LEMMA Multiples ==
  ASSUME NEW a \in Int, NEW b \in Int, NEW t \in Nat, a <= b
  PROVE  a * t <= b * t
  BY Z3

\* Rounded is an integer, and at most half of den away.
LEMMA RoundedNear ==
  ASSUME NEW num \in Int, NEW den \in Nat \ {0}
  PROVE  /\ Rounded(num, den) \in Int
         /\ 2 * (Rounded(num, den) * den - num) <= den
         /\ 2 * (num - Rounded(num, den) * den) <= den
  <1> DEFINE q == num \div den
             r == num % den
  <1>1. q \in Int /\ r \in 0 .. den - 1 /\ num = den * q + r
    BY Division
  <1>2. CASE 2 * r > den \/ (2 * r = den /\ q % 2 = 1)
    <2>1. Rounded(num, den) = q + 1
      BY <1>2 DEF Rounded
    <2>2. (q + 1) * den = den * q + den
      BY <1>1
    <2> QED BY <1>1, <1>2, <2>1, <2>2
  <1>3. CASE ~(2 * r > den \/ (2 * r = den /\ q % 2 = 1))
    <2>1. Rounded(num, den) = q
      BY <1>3 DEF Rounded
    <2>2. q * den = den * q
      BY <1>1
    <2> QED BY <1>1, <1>3, <2>1, <2>2
  <1> QED BY <1>2, <1>3

\* Rounding keeps the order.
LEMMA RoundedOrder ==
  ASSUME NEW a \in Int, NEW b \in Int, NEW den \in Nat \ {0}, a <= b
  PROVE  Rounded(a, den) <= Rounded(b, den)
  <1> DEFINE qa == a \div den
             ra == a % den
             qb == b \div den
             rb == b % den
  <1>1. qa \in Int /\ ra \in 0 .. den - 1 /\ a = den * qa + ra
    BY Division
  <1>2. qb \in Int /\ rb \in 0 .. den - 1 /\ b = den * qb + rb
    BY Division
  <1>3. qa <= qb
    <2>1. SUFFICES ASSUME qb + 1 <= qa PROVE FALSE
      BY <1>1, <1>2
    <2>2. (qb + 1) * den <= qa * den
      BY <2>1, <1>1, <1>2, Multiples
    <2>3. (qb + 1) * den = den * qb + den /\ qa * den = den * qa
      BY <1>1, <1>2
    <2> QED BY <1>1, <1>2, <2>2, <2>3
  <1>4. Rounded(a, den) \in {qa, qa + 1} /\ Rounded(b, den) \in {qb, qb + 1}
    BY DEF Rounded
  <1>5. CASE qa = qb
    <2>1. ra <= rb
      BY <1>1, <1>2, <1>5
    <2> QED BY <1>1, <1>2, <1>5, <2>1 DEF Rounded
  <1>6. CASE qa + 1 <= qb
    BY <1>1, <1>2, <1>4, <1>6
  <1> QED BY <1>1, <1>2, <1>3, <1>5, <1>6

-----------------------------------------------------------------------------
\* Whatever the times, what is written fits the two bytes of the record
\* (database.py:31).
THEOREM AlwaysFits ==
  \A send, receive \in Int \cup {None} : FitsRecord(send, receive)
  <1> TAKE send, receive \in Int \cup {None}
  <1>1. CASE send = None \/ receive = None
    BY <1>1 DEF FitsRecord, Written, TimeDiffToShort, Timeout
  <1>2. CASE send # None /\ receive # None
    <2> DEFINE s == Rounded((receive - send) * Steps, Ticks)
    <2>1. receive - send \in Int /\ receive - send # None
      BY <1>2, NoneAssumption
    <2>2. s \in Int
      BY <2>1, TicksAssumption, RoundedNear DEF Steps
    <2>3. Written(send, receive) = InTwoBytes(s)
      BY <1>2, <2>1 DEF Written, TimeDiffToShort, SecondsToShort
    <2> HIDE DEF s
    <2>4. InTwoBytes(s) \in Nat /\ InTwoBytes(s) <= 65535
      BY <2>2 DEF InTwoBytes, Timeout
    <2> QED BY <2>3, <2>4 DEF FitsRecord
  <1> QED BY <1>1, <1>2

\* A round without a reply never turns into one with a reply.
THEOREM NoReplyAlwaysRead ==
  \A send \in Int \cup {None} : NoReplyIsRead(send)
  BY DEF NoReplyIsRead, ReadBack, Written, TimeDiffToShort, ShortToSeconds

\* A latency of at most a second is read back to within half a step, and never
\* as a timeout, however fine the clock (database.py:32, 65).
THEOREM LatencyAlwaysRead ==
  \A send, receive \in Int : LatencyIsRead(send, receive)
  <1> SUFFICES ASSUME NEW send \in Int, NEW receive \in Int, receive - send \in 0 .. Ticks
               PROVE  LET steps == ReadBack(Written(send, receive))
                      IN  /\ steps \in Nat /\ steps <= Steps
                          /\ 2 * (steps * Ticks - (receive - send) * Steps) <= Ticks
                          /\ 2 * ((receive - send) * Steps - steps * Ticks) <= Ticks
    BY DEF LatencyIsRead
  <1> DEFINE d == receive - send
             s == Rounded(d * Steps, Ticks)
  <1>1. d \in 0 .. Ticks /\ Ticks \in Nat \ {0} /\ send # None /\ receive # None /\ d # None
    BY TicksAssumption, NoneAssumption
  <1>2. /\ s \in Int
        /\ 2 * (s * Ticks - d * Steps) <= Ticks
        /\ 2 * (d * Steps - s * Ticks) <= Ticks
    <2>1. d * Steps \in Int
      BY <1>1 DEF Steps
    <2> QED BY <1>1, <2>1, RoundedNear
  <1>3. 0 <= s
    <2>1. SUFFICES ASSUME s <= -1 PROVE FALSE
      BY <1>2
    <2>2. s * Ticks <= (-1) * Ticks
      BY <2>1, <1>1, <1>2, Multiples
    <2> QED BY <1>1, <1>2, <2>2 DEF Steps
  <1>4. s <= Steps
    <2>1. SUFFICES ASSUME 65535 <= s PROVE FALSE
      BY <1>2 DEF Steps
    <2>2. 65535 * Ticks <= s * Ticks
      BY <2>1, <1>1, <1>2, Multiples
    <2> QED BY <1>1, <1>2, <2>2 DEF Steps
  <1>5. Written(send, receive) = s
    BY <1>1, <1>2, <1>3, <1>4
      DEF Written, TimeDiffToShort, SecondsToShort, InTwoBytes, Steps
  <1>6. ReadBack(s) = s
    BY <1>2, <1>4 DEF ReadBack, ShortToSeconds, Timeout, Steps
  <1>7. ReadBack(Written(send, receive)) = s
    BY <1>5, <1>6
  <1>8. s \in Nat /\ s <= Steps
    BY <1>2, <1>3, <1>4 DEF Steps
  <1> HIDE DEF s
  <1> QED BY <1>2, <1>7, <1>8

\* A latency below zero or above a second by more than half a step is read as a
\* timeout (database.py:31).
THEOREM LateAlwaysTimeout ==
  \A send, receive \in Int : LateIsTimeout(send, receive)
  <1> SUFFICES ASSUME NEW send \in Int, NEW receive \in Int,
                      LET exact == (receive - send) * Steps
                      IN  2 * exact < -Ticks \/ 2 * exact > (2 * Steps + 1) * Ticks
               PROVE  ReadBack(Written(send, receive)) = None
    BY DEF LateIsTimeout
  <1> DEFINE d == receive - send
             s == Rounded(d * Steps, Ticks)
  <1>1. d \in Int /\ Ticks \in Nat \ {0} /\ send # None /\ receive # None /\ d # None
    BY TicksAssumption, NoneAssumption
  <1>2. /\ s \in Int
        /\ 2 * (s * Ticks - d * Steps) <= Ticks
        /\ 2 * (d * Steps - s * Ticks) <= Ticks
    <2>1. d * Steps \in Int
      BY <1>1 DEF Steps
    <2> QED BY <1>1, <2>1, RoundedNear
  <1>3. s < 0 \/ s >= 65535
    <2>1. SUFFICES ASSUME 0 <= s, s <= 65534 PROVE FALSE
      BY <1>2
    <2>2. 0 * Ticks <= s * Ticks /\ s * Ticks <= 65534 * Ticks
      BY <2>1, <1>1, <1>2, Multiples
    <2> QED BY <1>1, <1>2, <2>2 DEF Steps
  <1>4. Written(send, receive) = Timeout
    BY <1>1, <1>2, <1>3
      DEF Written, TimeDiffToShort, SecondsToShort, InTwoBytes, Timeout
  <1> QED BY <1>4 DEF ReadBack, ShortToSeconds

\* The order of two latencies is never turned round.
THEOREM OrderAlwaysKept ==
  \A d, e \in Int : OrderIsKept(d, e)
  <1> TAKE d, e \in Int
  <1>1. d # None /\ e # None /\ Ticks \in Nat \ {0}
    BY NoneAssumption, TicksAssumption
  <1>2. d * Steps \in Int /\ e * Steps \in Int /\ (d <= e => d * Steps <= e * Steps)
    BY DEF Steps
  <1>3. d <= e => Rounded(d * Steps, Ticks) <= Rounded(e * Steps, Ticks)
    BY <1>1, <1>2, RoundedOrder
  <1> QED BY <1>1, <1>3 DEF OrderIsKept, SecondsToShort, InTwoBytes
=============================================================================
