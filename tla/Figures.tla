-------------------------------- MODULE Figures ---------------------------------
(***************************************************************************)
(* What the web application computes from the records of a range: the      *)
(* statistics of a graph page (database_influxdb.py, calculate_statistics) *)
(* and the figure of its image (graphing.py, make_graph_figure), for which *)
(* reduce_data_points gathers the records in buckets.                      *)
(*                                                                         *)
(* Latencies are numbers of a unit; that of a clock set back is negative.  *)
(* Each of the three loops has its own test for a timeout, and the page    *)
(* and the buckets begin with other extremes.  Rates and means are left as *)
(* the two numbers that are divided.                                       *)
(***************************************************************************)
EXTENDS Integers, Sequences, FiniteSets

CONSTANTS
  RecordLists,      \* the lists of records that may be read
  TimeoutValue,     \* the latency that stands for a timeout
  None,             \* so does this one, in a docstring (database_influxdb.py:118)
  FloatMin,         \* the least positive number, sys.float_info.min
  FloatMax,         \* more than any latency, sys.float_info.max
  Infinity,         \* more than any number
  BucketDuration    \* DEFAULT_BUCKET_SIZE

Latency == {l \in Int : l < FloatMax /\ (l > 0 => l > FloatMin)}

Record == [time : Nat, latency : Latency \cup {None}]

\* The time series database returns records in the order of time, one a second.
Ascending(list) == \A i, j \in DOMAIN list : i < j => list[i].time < list[j].time

ASSUME NumbersAssumption ==
  /\ BucketDuration \in Nat \ {0}
  /\ FloatMin \in Nat \ {0} /\ FloatMax \in Nat /\ Infinity \in Nat
  /\ FloatMin < FloatMax /\ FloatMax < Infinity
  /\ TimeoutValue \in Latency /\ None \notin Int

ASSUME ListsAssumption ==
  \A list \in RecordLists : list \in Seq(Record) /\ Ascending(list)

VARIABLES
  records,    \* the records read
  reduce,     \* the option of the form
  phase,      \* the loop that runs: statistics, figure, reduce; or done, failed
  pos,        \* how many records it has seen
  statistics, \* the tally of calculate_statistics
  successes,  \* success_times and timeout_times of the figure
  timeouts,
  bucket,     \* the bucket reduce_data_points fills
  buckets,    \* the buckets it has finished
  cuts        \* history: how many records there were before each bucket

vars == <<records, reduce, phase, pos, statistics, successes, timeouts, bucket, buckets,
          cuts>>

-----------------------------------------------------------------------------
(* Tallies *)

ZeroStatistics ==
  [count |-> 0, successes |-> 0, total |-> 0, minimum |-> FloatMax, maximum |-> FloatMin]

ZeroBucket ==
  [count |-> 0, successes |-> 0, total |-> 0, minimum |-> Infinity, maximum |-> 0]

\* A timeout counts for nothing else.
TimedOut(t) == [t EXCEPT !.count = @ + 1]

Measured(t, latency) ==
  [count |-> t.count + 1,
   successes |-> t.successes + 1,
   total |-> t.total + latency,
   minimum |-> IF latency < t.minimum THEN latency ELSE t.minimum,
   maximum |-> IF latency > t.maximum THEN latency ELSE t.maximum]

\* (mutant: the docstring is taken at its word)
IsNone(r) == r.latency = None

\* The test of calculate_statistics.
NoLatency(r) == r.latency = None \/ r.latency = TimeoutValue

CountedByPage(t, r) == IF NoLatency(r) THEN TimedOut(t) ELSE Measured(t, r.latency)

\* The test of make_graph_figure.
IsTimeout(r) == r.latency = TimeoutValue

\* The test of reduce_data_points.
HasLatency(r) == r.latency # TimeoutValue

CountedByBucket(t, r) == IF HasLatency(r) THEN Measured(t, r.latency) ELSE TimedOut(t)

-----------------------------------------------------------------------------
(* Buckets *)

\* (mutant: the multiple before)
MultipleBefore(num, base) == base * ((num - 1) \div base)

\* round_to_int: Python rounds a tie to the even number.
RoundToInt(num, base) ==
  LET q == num \div base
      r == num % base
  IN  base * (IF 2 * r > base \/ (2 * r = base /\ q % 2 = 1) THEN q + 1 ELSE q)

Start(r) == RoundToInt(r.time, BucketDuration)

Opened(r) == [start |-> Start(r), tally |-> ZeroBucket]

\* (mutant: the next bucket begins where this one ends)
OpenedNext(r) == [start |-> bucket.start + BucketDuration, tally |-> ZeroBucket]

\* (mutant: the counters are not zeroed)
OpenedOn(r) == [start |-> Start(r), tally |-> bucket.tally]

\* Where the bucket after this one begins, when record r is the first in it.
Reopened(r) == Opened(r)

IsBeyond(r) == r.time >= bucket.start + BucketDuration

-----------------------------------------------------------------------------
Init ==
  /\ records \in RecordLists /\ reduce \in BOOLEAN
  /\ phase = "statistics" /\ pos = 0
  /\ statistics = ZeroStatistics
  /\ successes = <<>> /\ timeouts = <<>>
  /\ bucket = [start |-> 0, tally |-> ZeroBucket] /\ buckets = <<>> /\ cuts = <<>>

\* A turn of the loop that runs, with the next record.
Turn(p) == phase = p /\ pos < Len(records) /\ pos' = pos + 1 /\ UNCHANGED <<records, reduce, phase>>

\* The loop has seen all records; the next one begins.
Ended(p, next) ==
  phase = p /\ pos = Len(records) /\ phase' = next /\ pos' = 0 /\ UNCHANGED <<records, reduce>>

\* calculate_statistics
CountStatistics ==
  /\ Turn("statistics")
  /\ statistics' = CountedByPage(statistics, records[pos + 1])
  /\ UNCHANGED <<successes, timeouts, bucket, buckets, cuts>>

EndStatistics ==
  /\ Ended("statistics", "figure")
  /\ UNCHANGED <<statistics, successes, timeouts, bucket, buckets, cuts>>

\* make_graph_figure: what is drawn as a point, and what as a vertical line.
PlotRecord ==
  /\ Turn("figure")
  /\ LET r == records[pos + 1]
     IN  /\ r.latency # None
         /\ IF IsTimeout(r)
              THEN timeouts' = Append(timeouts, r.time) /\ UNCHANGED successes
              ELSE successes' = Append(successes, r.time) /\ UNCHANGED timeouts
  /\ UNCHANGED <<statistics, bucket, buckets, cuts>>

\* None is taken for a latency, and is no number: TypeError.
PlotNone ==
  /\ phase = "figure" /\ pos < Len(records) /\ records[pos + 1].latency = None
  /\ phase' = "failed"
  /\ successes' = Append(successes, records[pos + 1].time)
  /\ UNCHANGED <<records, reduce, pos, statistics, timeouts, bucket, buckets, cuts>>

\* Without the option there are no buckets.
EndFigure ==
  /\ ~reduce
  /\ Ended("figure", "done")
  /\ UNCHANGED <<statistics, successes, timeouts, bucket, buckets, cuts>>

\* reduce_data_points, the first lines: records[0] is looked at.
BeginReduce ==
  /\ reduce /\ records # <<>>
  /\ Ended("figure", "reduce")
  /\ bucket' = Opened(records[1]) /\ cuts' = <<0>>
  /\ UNCHANGED <<statistics, successes, timeouts, buckets>>

\* Of no records there is no first one: IndexError.
ReduceNothing ==
  /\ reduce /\ records = <<>>
  /\ Ended("figure", "failed")
  /\ UNCHANGED <<statistics, successes, timeouts, bucket, buckets, cuts>>

\* A record of the bucket.
ReduceInBucket ==
  /\ Turn("reduce")
  /\ ~IsBeyond(records[pos + 1])
  /\ bucket' = [bucket EXCEPT !.tally = CountedByBucket(@, records[pos + 1])]
  /\ UNCHANGED <<statistics, successes, timeouts, buckets, cuts>>

\* A record of the next bucket.
ReduceNextBucket ==
  /\ Turn("reduce")
  /\ LET r == records[pos + 1]
         next == Reopened(r)
     IN  /\ IsBeyond(r)
         /\ IF bucket.tally.count > 0
              THEN buckets' = Append(buckets, bucket) /\ cuts' = Append(cuts, pos)
              ELSE UNCHANGED <<buckets, cuts>>
         /\ bucket' = [next EXCEPT !.tally = CountedByBucket(@, r)]
  /\ UNCHANGED <<statistics, successes, timeouts>>

\* The last bucket.
EndReduce ==
  /\ Ended("reduce", "done")
  /\ IF bucket.tally.count > 0
       THEN buckets' = Append(buckets, bucket) /\ cuts' = Append(cuts, pos)
       ELSE UNCHANGED <<buckets, cuts>>
  /\ UNCHANGED <<statistics, successes, timeouts, bucket>>

Next ==
  \/ CountStatistics \/ EndStatistics
  \/ PlotRecord \/ PlotNone \/ EndFigure
  \/ BeginReduce \/ ReduceNothing \/ ReduceInBucket \/ ReduceNextBucket \/ EndReduce

Spec == Init /\ [][Next]_vars

-----------------------------------------------------------------------------
(* Properties *)

Tally == [count : Nat, successes : Nat, total : Int, minimum : Int, maximum : Int]

Bucket == [start : Nat, tally : Tally]

Indices == 1 .. Len(records)

TypeOK ==
  /\ records \in Seq(Record) /\ Ascending(records) /\ reduce \in BOOLEAN
  /\ phase \in {"statistics", "figure", "reduce", "done", "failed"}
  /\ pos \in 0 .. Len(records)
  /\ statistics \in Tally
  /\ successes \in Seq(Nat) /\ timeouts \in Seq(Nat)
  /\ bucket \in Bucket /\ buckets \in Seq(Bucket)
  /\ cuts \in Seq(0 .. Len(records))

\* The sum of the first n of the numbers f.
SumTo(f, n) ==
  LET sum[k \in 0 .. n] == IF k = 0 THEN 0 ELSE sum[k - 1] + f[k]
  IN  sum[n]

Answered(i) == records[i].latency \notin {None, TimeoutValue}

\* What each record adds to a total.
Addends == [i \in Indices |-> IF Answered(i) THEN records[i].latency ELSE 0]

AnsweredIn(a, b) == {i \in a .. b : Answered(i)}

\* Tally t, begun with zero, is that of the records from the a-th to the b-th.
TallyOf(t, zero, a, b) ==
  LET latencies == {records[i].latency : i \in AnsweredIn(a, b)}
  IN  /\ t.count = b - a + 1
      /\ t.successes = Cardinality(AnsweredIn(a, b))
      /\ t.total = SumTo(Addends, b) - SumTo(Addends, a - 1)
      /\ t.minimum \in latencies \cup {zero.minimum}
      /\ t.maximum \in latencies \cup {zero.maximum}
      /\ \A l \in latencies \cup {zero.minimum} : t.minimum <= l
      /\ \A l \in latencies \cup {zero.maximum} : t.maximum >= l

\* Every record is counted in one bucket: the buckets lie end to end, and each
\* has the count, successes, total and extremes of its records, whatever the
\* buckets before it had (graphing.py:96-147).  A maximum begins with 0, which it
\* stays when a clock set back makes all latencies of the bucket negative.
BucketsCover ==
  /\ phase \in {"reduce", "done"} /\ cuts # <<>> =>
       /\ cuts[1] = 0
       /\ Len(cuts) = Len(buckets) + 1
       /\ \A k \in DOMAIN buckets :
            /\ cuts[k] < cuts[k + 1]
            /\ TallyOf(buckets[k].tally, ZeroBucket, cuts[k] + 1, cuts[k + 1])
  /\ phase = "done" /\ reduce => cuts[Len(cuts)] = Len(records)

\* A record belongs to its bucket by its time: it is before the end of the
\* bucket, and at most half a bucket before the start, for a start is rounded.
\* Starts are multiples of the duration and ascend by at least one, over gaps in
\* the records too (graphing.py:95, 102, 119): the lines of a figure go forward.
BucketsByTime ==
  /\ \A k \in DOMAIN buckets : buckets[k].start % BucketDuration = 0
  /\ \A k \in DOMAIN buckets : \A i \in cuts[k] + 1 .. cuts[k + 1] :
       /\ records[i].time < buckets[k].start + BucketDuration
       /\ 2 * (buckets[k].start - records[i].time) <= BucketDuration
  /\ \A k \in 2 .. Len(buckets) : buckets[k].start >= buckets[k - 1].start + BucketDuration

\* The sum of a field of the finished buckets.
SumOf(field) == SumTo([k \in DOMAIN buckets |-> buckets[k].tally[field]], Len(buckets))

\* The page, the image and its buckets tell the same of the same records, with a
\* test for a timeout each and with other extremes to begin with
\* (database_influxdb.py:149-167, graphing.py:96-134, 179-185).  An image comes out
\* only where no latency is None, the one value the tests take differently.  The
\* page's extremes are those of its buckets, but for a minimum of timeouts only and
\* for a maximum of no positive latency: these stay at where they began.
StatisticsAgree ==
  /\ phase # "statistics" => TallyOf(statistics, ZeroStatistics, 1, Len(records))
  /\ phase = "done" =>
       /\ Len(successes) = statistics.successes
       /\ Len(timeouts) = statistics.count - statistics.successes
  /\ phase = "done" /\ reduce =>
       /\ SumOf("count") = statistics.count
       /\ SumOf("successes") = statistics.successes
       /\ SumOf("total") = statistics.total
       /\ \A k \in DOMAIN buckets : statistics.minimum <= buckets[k].tally.minimum
       /\ \A k \in DOMAIN buckets : statistics.maximum >= buckets[k].tally.maximum
       /\ statistics.successes > 0 =>
            \E k \in DOMAIN buckets : statistics.minimum = buckets[k].tally.minimum
       /\ statistics.maximum > FloatMin =>
            \E k \in DOMAIN buckets : statistics.maximum = buckets[k].tally.maximum
=============================================================================
