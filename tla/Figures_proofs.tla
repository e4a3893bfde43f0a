----------------------------- MODULE Figures_proofs -----------------------------
(***************************************************************************)
(* Proofs about Figures, for any lists of records and any bucket duration. *)
(*                                                                         *)
(* A loop that has seen n records has the tally of the first n; the bucket *)
(* that is being filled has the tally of the records since the last cut;   *)
(* and the finished buckets add up to the tally of the records before it   *)
(* (LoopInv).  Totals are sums, so there is some induction over numbers:   *)
(* it is done with the least counterexample (Least).                       *)
(***************************************************************************)
EXTENDS Figures, SequenceTheorems, FiniteSetTheorems, WellFoundedInduction, TLAPS

\* How many records there were before the bucket that is being filled.
Cut == cuts[Len(cuts)]

\* The first loop has the tally of the records it has seen.
StatisticsInv ==
  /\ phase = "statistics" => TallyOf(statistics, ZeroStatistics, 1, pos)
  /\ phase # "statistics" => TallyOf(statistics, ZeroStatistics, 1, Len(records))

\* The second one has a point or a line for each; none of them is None.
Plotted(n) ==
  /\ \A i \in 1 .. n : records[i].latency # None
  /\ Len(successes) = Cardinality(AnsweredIn(1, n))
  /\ Len(timeouts) = n - Cardinality(AnsweredIn(1, n))

FigureInv ==
  /\ phase = "statistics" => successes = <<>> /\ timeouts = <<>>
  /\ phase = "figure" => Plotted(pos)
  /\ phase \in {"reduce", "done"} => Plotted(Len(records))

\* Buckets belong to the third one.
PhasesInv ==
  /\ phase = "reduce" => reduce /\ records # <<>>
  /\ cuts = <<>> <=> phase \in {"statistics", "figure", "failed"} \/ (phase = "done" /\ ~reduce)
  /\ cuts = <<>> => buckets = <<>>

\* The finished buckets lie end to end, and add up to the records before the cut.
BucketsEnd(n) ==
  /\ cuts[1] = 0 /\ Len(cuts) = Len(buckets) + 1 /\ Cut = n
  /\ \A k \in DOMAIN buckets :
       cuts[k] < cuts[k + 1] /\ TallyOf(buckets[k].tally, ZeroBucket, cuts[k] + 1, cuts[k + 1])
  /\ SumOf("count") = n
  /\ SumOf("successes") = Cardinality(AnsweredIn(1, n))
  /\ SumOf("total") = SumTo(Addends, n)

FinishedInv ==
  /\ cuts # <<>> => BucketsEnd(Cut)
  /\ phase = "done" /\ reduce => Cut = Len(records)

\* The bucket that is filled goes on from the cut, and has a record as soon as one
\* has been seen: the first record is in the bucket that was opened for it.
FillingInv ==
  phase = "reduce" =>
    /\ IF pos = 0 THEN bucket = Opened(records[1]) /\ buckets = <<>> ELSE Cut < pos
    /\ TallyOf(bucket.tally, ZeroBucket, Cut + 1, pos)
    /\ bucket.start % BucketDuration = 0
    /\ \A i \in Cut + 1 .. pos :
         /\ records[i].time < bucket.start + BucketDuration
         /\ 2 * (bucket.start - records[i].time) <= BucketDuration
    /\ buckets # <<>> => bucket.start >= buckets[Len(buckets)].start + BucketDuration

\* The inductive invariant of the three loops.
LoopInv ==
  /\ TypeOK /\ BucketsByTime
  /\ StatisticsInv /\ FigureInv /\ PhasesInv /\ FinishedInv /\ FillingInv

-----------------------------------------------------------------------------
(* Sums *)

\* Some numbers have a least one.
LEMMA Least ==
  ASSUME NEW T \in SUBSET Nat, T # {}
  PROVE  \E m \in T : \A n \in T : m <= n
<1> DEFINE less == OpToRel(<, Nat)
<1>1. IsWellFoundedOn(less, Nat)
  BY NatLessThanWellFounded
<1>2. \A x, y \in Nat : <<x, y>> \in less <=> x < y
  BY DEF OpToRel
<1> HIDE DEF less
<1>3. PICK x \in T : \A y \in T : <<y, x>> \notin less
  BY <1>1, WFMin
<1>4. \A y \in T : ~ (y < x)
  BY <1>2, <1>3, Zenon
<1> QED
  BY <1>4

\* The recursion of SumTo, of a function sum.
IsSum(sum, f, n) == sum = [k \in 0 .. n |-> IF k = 0 THEN 0 ELSE sum[k - 1] + f[k]]

LEMMA SumExists ==
  ASSUME NEW f, NEW n \in Nat
  PROVE  \E sum : IsSum(sum, f, n)
<1> DEFINE bad == {m \in Nat : ~ \E sum : IsSum(sum, f, m)}
<1> SUFFICES ASSUME bad # {} PROVE FALSE
  OBVIOUS
<1>1. PICK m \in bad : \A k \in bad : m <= k
  BY Least
<1>2. CASE m = 0
  <2> DEFINE sum == [k \in 0 .. 0 |-> 0]
  <2>1. IsSum(sum, f, 0)
    BY DEF IsSum
  <2> QED
    BY <1>2, <2>1
<1>3. CASE m # 0
  <2>1. m - 1 \in Nat /\ m - 1 \notin bad
    BY <1>1, <1>3
  <2>2. PICK less : IsSum(less, f, m - 1)
    BY <2>1
  <2> DEFINE sum == [k \in 0 .. m |-> IF k = m THEN less[m - 1] + f[m] ELSE less[k]]
  <2>3. \A k \in 0 .. m - 1 : less[k] = IF k = 0 THEN 0 ELSE less[k - 1] + f[k]
    BY <2>2 DEF IsSum
  <2>4. \A k \in 0 .. m : sum[k] = IF k = 0 THEN 0 ELSE sum[k - 1] + f[k]
    BY <1>3, <2>1, <2>3
  <2>5. sum = [k \in 0 .. m |-> IF k = 0 THEN 0 ELSE sum[k - 1] + f[k]]
    BY <2>4
  <2> HIDE DEF sum
  <2> QED
    BY <2>5 DEF IsSum
<1> QED
  BY <1>2, <1>3

\* SumTo has the last number of such a function.
LEMMA SumRecursion ==
  ASSUME NEW f, NEW n \in Nat
  PROVE  \E sum : IsSum(sum, f, n) /\ SumTo(f, n) = sum[n]
<1> DEFINE sum == CHOOSE s : s = [k \in 0 .. n |-> IF k = 0 THEN 0 ELSE s[k - 1] + f[k]]
<1>1. SumTo(f, n) = sum[n]
  BY DEF SumTo
<1>2. \E s : s = [k \in 0 .. n |-> IF k = 0 THEN 0 ELSE s[k - 1] + f[k]]
  BY SumExists DEF IsSum
<1>3. sum = [k \in 0 .. n |-> IF k = 0 THEN 0 ELSE sum[k - 1] + f[k]]
  BY <1>2
<1> QED
  BY <1>1, <1>3 DEF IsSum

\* Sums of the same numbers are the same, as far as both go.
LEMMA SumsEqual ==
  ASSUME NEW f, NEW g, NEW n \in Nat, NEW m \in Nat, n <= m,
         \A k \in 1 .. n : f[k] = g[k],
         NEW s, NEW t, IsSum(s, f, n), IsSum(t, g, m)
  PROVE  \A k \in 0 .. n : s[k] = t[k]
<1> DEFINE bad == {k \in 0 .. n : s[k] # t[k]}
<1> SUFFICES ASSUME bad # {} PROVE FALSE
  OBVIOUS
<1>0. bad \in SUBSET Nat
  OBVIOUS
<1>1. PICK k \in bad : \A i \in bad : k <= i
  BY <1>0, Least
<1>2. s[k] = (IF k = 0 THEN 0 ELSE s[k - 1] + f[k]) /\ t[k] = IF k = 0 THEN 0 ELSE t[k - 1] + g[k]
  BY DEF IsSum
<1>3. k # 0
  BY <1>2
<1>4. k - 1 \in 0 .. n /\ k - 1 \notin bad /\ f[k] = g[k]
  BY <1>1, <1>3
<1> QED
  BY <1>2, <1>3, <1>4

LEMMA SumZero == ASSUME NEW f PROVE SumTo(f, 0) = 0
<1>1. PICK sum : IsSum(sum, f, 0) /\ SumTo(f, 0) = sum[0]
  BY SumRecursion
<1> QED
  BY <1>1 DEF IsSum

\* One number more.
LEMMA SumNext ==
  ASSUME NEW f, NEW g, NEW n \in Nat, \A k \in 1 .. n : f[k] = g[k]
  PROVE  SumTo(f, n) = SumTo(g, n) /\ SumTo(g, n + 1) = SumTo(f, n) + g[n + 1]
<1>1. PICK s : IsSum(s, f, n) /\ SumTo(f, n) = s[n]
  BY SumRecursion
<1>2. PICK t : IsSum(t, g, n) /\ SumTo(g, n) = t[n]
  BY SumRecursion
<1>3. PICK u : IsSum(u, g, n + 1) /\ SumTo(g, n + 1) = u[n + 1]
  BY SumRecursion
<1>4. s[n] = t[n]
  BY <1>1, <1>2, SumsEqual
<1>5. s[n] = u[n]
  BY <1>1, <1>3, SumsEqual
<1>6. u[n + 1] = u[n] + g[n + 1]
  BY <1>3 DEF IsSum
<1> QED
  BY <1>1, <1>2, <1>3, <1>4, <1>5, <1>6

LEMMA SumType ==
  ASSUME NEW f, NEW n \in Nat, \A k \in 1 .. n : f[k] \in Int
  PROVE  \A k \in 0 .. n : SumTo(f, k) \in Int
<1> DEFINE bad == {k \in 0 .. n : SumTo(f, k) \notin Int}
<1> SUFFICES ASSUME bad # {} PROVE FALSE
  OBVIOUS
<1>0. bad \in SUBSET Nat
  OBVIOUS
<1>1. PICK k \in bad : \A i \in bad : k <= i
  BY <1>0, Least
<1>2. k # 0
  BY SumZero
<1>3. k - 1 \in Nat /\ k - 1 \notin bad /\ (k - 1) + 1 = k /\ f[k] \in Int
  BY <1>1, <1>2
<1>4. SumTo(f, k) = SumTo(f, k - 1) + f[k]
  BY <1>3, SumNext
<1> QED
  BY <1>3, <1>4

-----------------------------------------------------------------------------
(* Rounding *)

\* Quotient and remainder.
LEMMA Division ==
  ASSUME NEW num \in Nat, NEW base \in Nat \ {0}
  PROVE  /\ num \div base \in Nat /\ num % base \in 0 .. base - 1
         /\ num = base * (num \div base) + (num % base)
BY Z3

LEMMA MultipleHasNoRest ==
  ASSUME NEW q \in Nat, NEW base \in Nat \ {0}
  PROVE  base * q \in Nat /\ (base * q) % base = 0
BY Z3

\* A multiple of a positive number grows with its factor.
LEMMA Multiples ==
  ASSUME NEW p \in Nat, NEW q \in Nat, NEW base \in Nat \ {0}, p <= q
  PROVE  base * p <= base * q
BY Z3

\* round_to_int goes to a multiple, less than a base before the number and at most
\* half of one after it.
LEMMA RoundedNear ==
  ASSUME NEW num \in Nat, NEW base \in Nat \ {0}
  PROVE  /\ RoundToInt(num, base) \in Nat
         /\ RoundToInt(num, base) % base = 0
         /\ num < RoundToInt(num, base) + base
         /\ 2 * (RoundToInt(num, base) - num) <= base
<1> DEFINE q == num \div base
           r == num % base
<1>1. q \in Nat /\ r \in 0 .. base - 1 /\ num = base * q + r
  BY Division
<1>2. CASE 2 * r > base \/ (2 * r = base /\ q % 2 = 1)
  <2>1. RoundToInt(num, base) = base * (q + 1)
    BY <1>2 DEF RoundToInt
  <2>2. base * (q + 1) = base * q + base /\ q + 1 \in Nat
    BY <1>1
  <2>3. base * (q + 1) \in Nat /\ (base * (q + 1)) % base = 0
    BY <2>2, MultipleHasNoRest
  <2> HIDE DEF q, r
  <2> QED
    BY <1>1, <1>2, <2>1, <2>2, <2>3
<1>3. CASE ~ (2 * r > base \/ (2 * r = base /\ q % 2 = 1))
  <2>1. RoundToInt(num, base) = base * q
    BY <1>3 DEF RoundToInt
  <2>2. base * q \in Nat /\ (base * q) % base = 0
    BY <1>1, MultipleHasNoRest
  <2> HIDE DEF q, r
  <2> QED
    BY <1>1, <2>1, <2>2
<1> QED
  BY <1>2, <1>3

\* It does not go back over a multiple.
LEMMA RoundedBeyond ==
  ASSUME NEW num \in Nat, NEW base \in Nat \ {0}, NEW m \in Nat, m % base = 0, m + base <= num
  PROVE  m + base <= RoundToInt(num, base)
<1> DEFINE q == num \div base
           s == m \div base
<1>1. q \in Nat /\ num % base \in 0 .. base - 1 /\ num = base * q + (num % base)
  BY Division
<1>2. s \in Nat /\ m = base * s
  BY Division
<1>3. RoundToInt(num, base) \in {base * q, base * (q + 1)}
  BY DEF RoundToInt
<1> HIDE DEF q, s
<1>4. base * (s + 1) = m + base /\ base * (q + 1) = base * q + base
  BY <1>1, <1>2
<1>5. s + 1 <= q
  <2> SUFFICES ASSUME q <= s PROVE FALSE
    BY <1>1, <1>2
  <2>1. base * q <= base * s
    BY <1>1, <1>2, Multiples
  <2> QED
    BY <1>1, <1>2, <2>1
<1>6. base * (s + 1) <= base * q
  BY <1>1, <1>2, <1>5, Multiples
<1> QED
  BY <1>1, <1>3, <1>4, <1>6

-----------------------------------------------------------------------------
(* Tallies *)

LEMMA RecordsType ==
  ASSUME TypeOK, NEW i \in Indices
  PROVE  /\ records[i] \in Record /\ records[i].time \in Nat
         /\ Answered(i) => /\ records[i].latency \in Int
                           /\ records[i].latency < FloatMax
         /\ Addends[i] = (IF Answered(i) THEN records[i].latency ELSE 0)
         /\ Addends[i] \in Int
         /\ i \in Nat /\ 1 <= i /\ i <= Len(records) /\ Len(records) \in Nat
<1>1. records \in Seq(Record) /\ Len(records) \in Nat /\ DOMAIN records = 1 .. Len(records)
  BY DEF TypeOK
<1>2. records[i] \in Record
  BY <1>1, ElementOfSeq DEF Indices
<1>3. records[i].time \in Nat /\ records[i].latency \in Latency \cup {None}
  BY <1>2 DEF Record
<1>4. Answered(i) => records[i].latency \in Int /\ records[i].latency < FloatMax
  BY <1>3 DEF Answered, Latency
<1>5. Addends[i] = IF Answered(i) THEN records[i].latency ELSE 0
  BY DEF Addends
<1> QED
  BY <1>1, <1>2, <1>3, <1>4, <1>5 DEF Indices

\* The answered ones of an interval, and of one that is longer by a record.
LEMMA AnsweredFinite ==
  ASSUME NEW a \in Int, NEW b \in Int
  PROVE  IsFiniteSet(AnsweredIn(a, b)) /\ Cardinality(AnsweredIn(a, b)) \in Nat
<1>1. IsFiniteSet(a .. b)
  BY FS_Interval
<1>2. AnsweredIn(a, b) \subseteq a .. b
  BY DEF AnsweredIn
<1> QED
  BY <1>1, <1>2, FS_Subset, FS_CardinalityType

LEMMA AnsweredNext ==
  ASSUME NEW a \in Nat, NEW b \in Nat, a <= b + 1
  PROVE  /\ ~ Answered(b + 1) => AnsweredIn(a, b + 1) = AnsweredIn(a, b)
         /\ Answered(b + 1) =>
              /\ AnsweredIn(a, b + 1) = AnsweredIn(a, b) \cup {b + 1}
              /\ Cardinality(AnsweredIn(a, b + 1)) = Cardinality(AnsweredIn(a, b)) + 1
<1>1. a .. b + 1 = (a .. b) \cup {b + 1}
  OBVIOUS
<1>2. ~ Answered(b + 1) => AnsweredIn(a, b + 1) = AnsweredIn(a, b)
  BY <1>1 DEF AnsweredIn
<1>3. ASSUME Answered(b + 1)
      PROVE  AnsweredIn(a, b + 1) = AnsweredIn(a, b) \cup {b + 1}
  BY <1>1, <1>3 DEF AnsweredIn
<1>4. b + 1 \notin AnsweredIn(a, b)
  BY DEF AnsweredIn
<1> QED
  BY <1>2, <1>3, <1>4, AnsweredFinite, FS_AddElement

\* The answered ones of two intervals that lie end to end.
LEMMA AnsweredSum ==
  ASSUME NEW a \in Nat, NEW b \in Nat, a <= b
  PROVE  Cardinality(AnsweredIn(1, b))
           = Cardinality(AnsweredIn(1, a)) + Cardinality(AnsweredIn(a + 1, b))
<1>1. 1 .. b = (1 .. a) \cup (a + 1 .. b)
  OBVIOUS
<1>2. AnsweredIn(1, b) = AnsweredIn(1, a) \cup AnsweredIn(a + 1, b)
  BY <1>1 DEF AnsweredIn
<1>3. AnsweredIn(1, a) \cap AnsweredIn(a + 1, b) = {}
  BY DEF AnsweredIn
<1> DEFINE s == AnsweredIn(1, a)
           t == AnsweredIn(a + 1, b)
<1>4. /\ IsFiniteSet(s) /\ Cardinality(s) \in Nat
      /\ IsFiniteSet(t) /\ Cardinality(t) \in Nat
  BY AnsweredFinite
<1>5. AnsweredIn(1, b) = s \cup t /\ s \cap t = {}
  BY <1>2, <1>3
<1> HIDE DEF s, t
<1>6. Cardinality(s \cup t) = Cardinality(s) + Cardinality(t) - Cardinality(s \cap t)
  BY <1>4, FS_Union
<1>7. Cardinality(s \cap t) = 0
  BY <1>5, FS_EmptySet
<1>8. Cardinality(AnsweredIn(1, b)) = Cardinality(s) + Cardinality(t)
  BY <1>4, <1>5, <1>6, <1>7
<1> QED
  BY <1>8 DEF s, t

LEMMA AddendsType ==
  ASSUME TypeOK
  PROVE  \A n \in 0 .. Len(records) : SumTo(Addends, n) \in Int
<1>1. \A k \in 1 .. Len(records) : Addends[k] \in Int
  BY RecordsType DEF Indices
<1>2. Len(records) \in Nat
  BY DEF TypeOK
<1> QED
  BY <1>1, <1>2, SumType

\* The latencies of an interval.
LatenciesIn(a, b) == {records[i].latency : i \in AnsweredIn(a, b)}

Zeros == {ZeroStatistics, ZeroBucket}

LEMMA ZerosType ==
  ASSUME NEW zero \in Zeros
  PROVE  /\ zero \in Tally /\ zero.count = 0 /\ zero.successes = 0 /\ zero.total = 0
         /\ zero.minimum \in Int /\ zero.maximum \in Int
BY NumbersAssumption DEF Zeros, ZeroStatistics, ZeroBucket, Tally

LEMMA TallyOfNone ==
  ASSUME TypeOK, NEW zero \in Zeros, NEW n \in 0 .. Len(records)
  PROVE  zero \in Tally /\ TallyOf(zero, zero, n + 1, n)
<1>1. AnsweredIn(n + 1, n) = {} /\ LatenciesIn(n + 1, n) = {}
  BY DEF AnsweredIn, LatenciesIn
<1>2. Cardinality(AnsweredIn(n + 1, n)) = 0
  BY <1>1, FS_EmptySet
<1>3. SumTo(Addends, n) - SumTo(Addends, (n + 1) - 1) = 0
  <2>1. (n + 1) - 1 = n /\ SumTo(Addends, n) \in Int
    BY AddendsType
  <2> QED
    BY <2>1
<1>4. n - (n + 1) + 1 = 0
  OBVIOUS
<1> QED
  BY <1>1, <1>2, <1>3, <1>4, ZerosType DEF TallyOf, LatenciesIn

\* A record without a latency, or with one, makes the tally of one record more.
LEMMA TimedOutTally ==
  ASSUME TypeOK, NEW zero \in Zeros, NEW a \in Nat \ {0}, NEW b \in Nat, a <= b + 1,
         b + 1 \in Indices, ~ Answered(b + 1), NEW t \in Tally, TallyOf(t, zero, a, b)
  PROVE  /\ TimedOut(t) \in Tally /\ TimedOut(t).count > 0
         /\ TallyOf(TimedOut(t), zero, a, b + 1)
<1> DEFINE c == TimedOut(t)
<1>1. t.count \in Nat /\ t.total \in Int
  BY DEF Tally
<1>2. /\ c \in Tally /\ c.count = t.count + 1 /\ c.successes = t.successes /\ c.total = t.total
      /\ c.minimum = t.minimum /\ c.maximum = t.maximum
  BY DEF TimedOut, Tally
<1>3. c.count = (b + 1) - a + 1 /\ c.count > 0
  BY <1>1, <1>2 DEF TallyOf
<1>4. SumTo(Addends, b + 1) = SumTo(Addends, b)
  <2>1. SumTo(Addends, b + 1) = SumTo(Addends, b) + Addends[b + 1]
    BY SumNext
  <2>2. Addends[b + 1] = 0 /\ b \in 0 .. Len(records)
    BY RecordsType DEF Indices
  <2>3. SumTo(Addends, b) \in Int
    BY <2>2, AddendsType
  <2> QED
    BY <2>1, <2>2, <2>3
<1>5. AnsweredIn(a, b + 1) = AnsweredIn(a, b)
  BY AnsweredNext
<1> HIDE DEF c
<1>6. TallyOf(c, zero, a, b + 1)
  BY <1>2, <1>3, <1>4, <1>5 DEF TallyOf
<1> QED
  BY <1>2, <1>3, <1>6 DEF c

LEMMA MeasuredTally ==
  ASSUME TypeOK, NEW zero \in Zeros, NEW a \in Nat \ {0}, NEW b \in Nat, a <= b + 1,
         b + 1 \in Indices, Answered(b + 1), NEW t \in Tally, TallyOf(t, zero, a, b)
  PROVE  LET c == Measured(t, records[b + 1].latency)
         IN  c \in Tally /\ c.count > 0 /\ TallyOf(c, zero, a, b + 1)
<1> DEFINE l == records[b + 1].latency
           c == Measured(t, l)
           s == LatenciesIn(a, b)
<1>1. /\ t.count \in Nat /\ t.successes \in Nat /\ t.total \in Int
      /\ t.minimum \in Int /\ t.maximum \in Int
  BY DEF Tally
<1>2. l \in Int /\ Addends[b + 1] = l
  BY RecordsType
<1>3. /\ c \in Tally /\ c.count = t.count + 1
      /\ c.successes = t.successes + 1 /\ c.total = t.total + l
      /\ c.minimum = (IF l < t.minimum THEN l ELSE t.minimum)
      /\ c.maximum = (IF l > t.maximum THEN l ELSE t.maximum)
  BY <1>1, <1>2 DEF Measured, Tally
<1>4. c.count = (b + 1) - a + 1 /\ c.count > 0
  BY <1>1, <1>3 DEF TallyOf
<1>5. c.total = SumTo(Addends, b + 1) - SumTo(Addends, a - 1)
  <2>1. SumTo(Addends, b + 1) = SumTo(Addends, b) + Addends[b + 1]
    BY SumNext
  <2>2. a - 1 \in 0 .. Len(records) /\ b \in 0 .. Len(records)
    BY RecordsType DEF Indices
  <2>3. SumTo(Addends, b) \in Int /\ SumTo(Addends, a - 1) \in Int
    BY <2>2, AddendsType
  <2>4. t.total = SumTo(Addends, b) - SumTo(Addends, a - 1)
    BY DEF TallyOf
  <2> HIDE DEF l, c
  <2> QED
    BY <1>2, <1>3, <2>1, <2>3, <2>4
<1>6. /\ AnsweredIn(a, b + 1) = AnsweredIn(a, b) \cup {b + 1}
      /\ Cardinality(AnsweredIn(a, b + 1)) = Cardinality(AnsweredIn(a, b)) + 1
  BY AnsweredNext
<1>7. LatenciesIn(a, b + 1) = s \cup {l}
  BY <1>6 DEF LatenciesIn
<1>8. /\ t.successes = Cardinality(AnsweredIn(a, b))
      /\ t.minimum \in s \cup {zero.minimum} /\ t.maximum \in s \cup {zero.maximum}
      /\ \A m \in s \cup {zero.minimum} : t.minimum <= m
      /\ \A m \in s \cup {zero.maximum} : t.maximum >= m
  BY DEF TallyOf, LatenciesIn
<1>9. s \subseteq Int /\ zero.minimum \in Int /\ zero.maximum \in Int
  <2>1. AnsweredIn(a, b) \subseteq Indices /\ \A i \in AnsweredIn(a, b) : Answered(i)
    BY DEF AnsweredIn, Indices
  <2> QED
    BY <2>1, RecordsType, ZerosType DEF LatenciesIn
<1> HIDE DEF l, c, s
<1>10. /\ c.minimum \in s \cup {l} \cup {zero.minimum}
       /\ \A m \in s \cup {l} \cup {zero.minimum} : c.minimum <= m
  BY <1>1, <1>2, <1>3, <1>8, <1>9
<1>11. /\ c.maximum \in s \cup {l} \cup {zero.maximum}
       /\ \A m \in s \cup {l} \cup {zero.maximum} : c.maximum >= m
  BY <1>1, <1>2, <1>3, <1>8, <1>9
<1>12. TallyOf(c, zero, a, b + 1)
  BY <1>3, <1>4, <1>5, <1>6, <1>7, <1>8, <1>10, <1>11 DEF TallyOf, LatenciesIn
<1> QED
  BY <1>3, <1>4, <1>12 DEF l, c

\* Both counters do so: their tests differ on None only.
LEMMA CountedTally ==
  ASSUME TypeOK, NEW zero \in Zeros, NEW a \in Nat \ {0}, NEW b \in Nat, a <= b + 1,
         b + 1 \in Indices, NEW t \in Tally, TallyOf(t, zero, a, b),
         NEW c, \/ c = CountedByPage(t, records[b + 1])
                \/ c = CountedByBucket(t, records[b + 1]) /\ records[b + 1].latency # None
  PROVE  c \in Tally /\ TallyOf(c, zero, a, b + 1) /\ c.count > 0
<1>1. CASE Answered(b + 1)
  <2>1. c = Measured(t, records[b + 1].latency)
    BY <1>1 DEF Answered, CountedByPage, CountedByBucket, NoLatency, HasLatency
  <2> QED
    BY <1>1, <2>1, MeasuredTally
<1>2. CASE ~ Answered(b + 1)
  <2>1. c = TimedOut(t)
    BY <1>2 DEF Answered, CountedByPage, CountedByBucket, NoLatency, HasLatency
  <2> QED
    BY <1>2, <2>1, TimedOutTally
<1> QED
  BY <1>1, <1>2

-----------------------------------------------------------------------------
(* The records and the finished buckets stay what they are *)

LEMMA RecordsStay ==
  ASSUME UNCHANGED records
  PROVE  /\ UNCHANGED <<Addends, Indices>>
         /\ \A a, b : AnsweredIn(a, b)' = AnsweredIn(a, b)
         /\ \A t, zero, a, b : TallyOf(t, zero, a, b)' <=> TallyOf(t, zero, a, b)
<1>1. UNCHANGED <<Addends, Indices>>
  BY DEF Addends, Indices, Answered
<1>2. ASSUME NEW a, NEW b
      PROVE  AnsweredIn(a, b)' = AnsweredIn(a, b)
  BY DEF AnsweredIn, Answered
<1>3. ASSUME NEW t, NEW zero, NEW a, NEW b
      PROVE  TallyOf(t, zero, a, b)' <=> TallyOf(t, zero, a, b)
  BY <1>1, <1>2 DEF TallyOf
<1> QED
  BY <1>1, <1>2, <1>3

LEMMA BucketsStay ==
  ASSUME UNCHANGED <<records, buckets, cuts>>
  PROVE  /\ UNCHANGED Cut
         /\ \A n : BucketsEnd(n) => BucketsEnd(n)'
         /\ BucketsByTime => BucketsByTime'
<1>1. UNCHANGED Cut /\ \A field : SumOf(field)' = SumOf(field)
  BY DEF Cut, SumOf
<1>2. ASSUME NEW n, BucketsEnd(n)
      PROVE  BucketsEnd(n)'
  BY <1>1, <1>2, RecordsStay DEF BucketsEnd
<1>3. BucketsByTime => BucketsByTime'
  BY DEF BucketsByTime
<1> QED
  BY <1>1, <1>2, <1>3

-----------------------------------------------------------------------------
(* The loops *)

LEMMA InitLoops == Init => LoopInv
<1> SUFFICES ASSUME Init PROVE LoopInv
  OBVIOUS
<1>1. records \in Seq(Record) /\ Ascending(records) /\ Len(records) \in Nat
  BY ListsAssumption DEF Init
<1>2. <<>> \in Seq(Nat) /\ <<>> \in Seq(Bucket) /\ <<>> \in Seq(0 .. Len(records)) /\ Len(<<>>) = 0
  BY EmptySeq
<1>3. ZeroStatistics \in Tally /\ [start |-> 0, tally |-> ZeroBucket] \in Bucket
  BY ZerosType DEF Zeros, Bucket
<1>4. TypeOK
  BY <1>1, <1>2, <1>3 DEF Init, TypeOK
<1>5. TallyOf(ZeroStatistics, ZeroStatistics, 1, 0)
  BY <1>1, <1>4, TallyOfNone DEF Zeros
<1>6. StatisticsInv /\ FigureInv /\ PhasesInv /\ FinishedInv /\ FillingInv
  BY <1>5 DEF Init, StatisticsInv, FigureInv, PhasesInv, FinishedInv, FillingInv
<1>7. BucketsByTime
  BY <1>2 DEF Init, BucketsByTime
<1> QED
  BY <1>4, <1>6, <1>7 DEF LoopInv

\* Nothing but the position, the phase and what the first two loops count.
LEMMA StayOutOfBuckets ==
  ASSUME LoopInv, UNCHANGED <<records, reduce, buckets, cuts>>,
         phase \in {"statistics", "figure"}, phase' \in {"statistics", "figure"}
  PROVE  BucketsByTime' /\ PhasesInv' /\ FinishedInv' /\ FillingInv'
<1>1. cuts = <<>> /\ buckets = <<>>
  BY DEF LoopInv, PhasesInv
<1>2. BucketsByTime'
  BY BucketsStay DEF LoopInv
<1> QED
  BY <1>1, <1>2 DEF PhasesInv, FinishedInv, FillingInv

LEMMA CountStatisticsStep ==
  ASSUME LoopInv, CountStatistics
  PROVE  LoopInv'
<1> DEFINE r == records[pos + 1]
<1>1. /\ TypeOK /\ phase = "statistics" /\ pos \in Nat /\ pos < Len(records) /\ Len(records) \in Nat
      /\ statistics \in Tally /\ TallyOf(statistics, ZeroStatistics, 1, pos)
      /\ successes = <<>> /\ timeouts = <<>>
  BY DEF CountStatistics, Turn, LoopInv, StatisticsInv, FigureInv, TypeOK, Bucket, Tally
<1>2. /\ pos' = pos + 1 /\ statistics' = CountedByPage(statistics, r)
      /\ UNCHANGED <<records, reduce, phase, successes, timeouts, bucket, buckets, cuts>>
  BY DEF CountStatistics, Turn
<1>3. pos + 1 \in Indices
  BY <1>1 DEF Indices
<1>4. statistics' \in Tally /\ TallyOf(statistics', ZeroStatistics, 1, pos + 1)
  <2> DEFINE c == CountedByPage(statistics, r)
  <2>1. c \in Tally /\ TallyOf(c, ZeroStatistics, 1, pos + 1)
    BY <1>1, <1>3, CountedTally DEF Zeros
  <2> QED
    BY <1>2, <2>1
<1>5. TypeOK'
  BY <1>1, <1>2, <1>4 DEF TypeOK, Bucket, Tally
<1>6. StatisticsInv'
  BY <1>1, <1>2, <1>4, RecordsStay DEF StatisticsInv
<1>7. FigureInv'
  BY <1>1, <1>2 DEF FigureInv
<1> QED
  BY <1>1, <1>2, <1>5, <1>6, <1>7, StayOutOfBuckets DEF LoopInv

LEMMA EndStatisticsStep ==
  ASSUME LoopInv, EndStatistics
  PROVE  LoopInv'
<1>1. /\ TypeOK /\ phase = "statistics" /\ pos = Len(records) /\ Len(records) \in Nat
      /\ TallyOf(statistics, ZeroStatistics, 1, Len(records))
      /\ successes = <<>> /\ timeouts = <<>>
  BY DEF EndStatistics, Ended, LoopInv, StatisticsInv, FigureInv, TypeOK
<1>2. /\ pos' = 0 /\ phase' = "figure"
      /\ UNCHANGED <<records, reduce, statistics, successes, timeouts, bucket, buckets, cuts>>
  BY DEF EndStatistics, Ended
<1>3. TypeOK'
  BY <1>1, <1>2 DEF TypeOK
<1>4. StatisticsInv'
  BY <1>1, <1>2, RecordsStay DEF StatisticsInv
<1>5. Cardinality(AnsweredIn(1, 0)) = 0
  <2>1. AnsweredIn(1, 0) = {}
    BY DEF AnsweredIn
  <2> QED
    BY <2>1, FS_EmptySet
<1>6. Plotted(0)'
  BY <1>1, <1>2, <1>5, RecordsStay DEF Plotted
<1>7. FigureInv'
  BY <1>2, <1>6 DEF FigureInv
<1> QED
  BY <1>1, <1>2, <1>3, <1>4, <1>7, StayOutOfBuckets DEF LoopInv

LEMMA PlotRecordStep ==
  ASSUME LoopInv, PlotRecord
  PROVE  LoopInv'
<1> DEFINE r == records[pos + 1]
           n == Cardinality(AnsweredIn(1, pos))
<1>1. /\ TypeOK /\ phase = "figure" /\ pos \in Nat /\ pos < Len(records) /\ Len(records) \in Nat
      /\ TallyOf(statistics, ZeroStatistics, 1, Len(records))
      /\ Len(successes) = n /\ Len(timeouts) = pos - n
      /\ \A i \in 1 .. pos : records[i].latency # None
      /\ successes \in Seq(Nat) /\ timeouts \in Seq(Nat)
  BY DEF PlotRecord, Turn, LoopInv, StatisticsInv, FigureInv, Plotted, TypeOK
<1>2. /\ pos' = pos + 1 /\ phase' = "figure"
      /\ UNCHANGED <<records, reduce, phase, statistics, bucket, buckets, cuts>>
  BY <1>1 DEF PlotRecord, Turn
<1>3. r.time \in Nat
  BY <1>1, RecordsType DEF Indices
<1>4. n \in Nat
  BY <1>1, AnsweredFinite
<1> DEFINE m == Cardinality(AnsweredIn(1, pos + 1))
<1>0. r.latency # None
  BY DEF PlotRecord
<1>5. ASSUME IsTimeout(r)
      PROVE  /\ successes' \in Seq(Nat) /\ timeouts' \in Seq(Nat)
             /\ Len(successes') = m /\ Len(timeouts') = (pos + 1) - m
  <2>1. timeouts' = Append(timeouts, r.time) /\ successes' = successes
    BY <1>5 DEF PlotRecord
  <2>2. timeouts' \in Seq(Nat) /\ Len(timeouts') = (pos - n) + 1
    BY <1>1, <1>3, <2>1, AppendProperties
  <2>3. m = n
    BY <1>1, <1>5, AnsweredNext DEF Answered, IsTimeout
  <2> QED
    BY <1>1, <1>4, <2>1, <2>2, <2>3
<1>6. ASSUME ~ IsTimeout(r)
      PROVE  /\ successes' \in Seq(Nat) /\ timeouts' \in Seq(Nat)
             /\ Len(successes') = m /\ Len(timeouts') = (pos + 1) - m
  <2>1. successes' = Append(successes, r.time) /\ timeouts' = timeouts
    BY <1>6 DEF PlotRecord
  <2>2. successes' \in Seq(Nat) /\ Len(successes') = n + 1
    BY <1>1, <1>3, <2>1, AppendProperties
  <2>3. m = n + 1
    BY <1>0, <1>1, <1>6, AnsweredNext DEF Answered, IsTimeout
  <2> QED
    BY <1>1, <1>4, <2>1, <2>2, <2>3
<1>7. TypeOK'
  BY <1>1, <1>2, <1>5, <1>6 DEF TypeOK
<1>8. Plotted(pos)'
  <2>1. \A i \in 1 .. pos + 1 : records[i].latency # None
    BY <1>0, <1>1
  <2> QED
    BY <1>2, <1>5, <1>6, <2>1, RecordsStay DEF Plotted
<1>9. FigureInv'
  BY <1>2, <1>8 DEF FigureInv
<1>10. StatisticsInv'
  BY <1>1, <1>2, RecordsStay DEF StatisticsInv
<1> QED
  BY <1>1, <1>2, <1>7, <1>9, <1>10, StayOutOfBuckets DEF LoopInv

\* Nothing is reduced: not asked for, of no records, or nothing could be drawn.
LEMMA NoBucketsStep ==
  ASSUME LoopInv, EndFigure \/ ReduceNothing \/ PlotNone
  PROVE  LoopInv'
<1>1. /\ TypeOK /\ phase = "figure" /\ pos \in 0 .. Len(records) /\ Len(records) \in Nat
      /\ TallyOf(statistics, ZeroStatistics, 1, Len(records)) /\ Plotted(pos)
      /\ cuts = <<>> /\ buckets = <<>>
  BY DEF EndFigure, ReduceNothing, PlotNone, Ended, LoopInv, StatisticsInv, FigureInv, PhasesInv,
         TypeOK
<1>2. /\ pos' \in {0, pos}
      /\ phase' = "failed" \/ (phase' = "done" /\ ~ reduce /\ pos = Len(records)
                               /\ UNCHANGED <<successes, timeouts>>)
      /\ UNCHANGED <<records, reduce, statistics, timeouts, bucket, buckets, cuts>>
  BY DEF EndFigure, ReduceNothing, PlotNone, Ended
<1>3. successes' \in Seq(Nat)
  <2>1. successes \in Seq(Nat)
    BY <1>1 DEF TypeOK
  <2>2. CASE PlotNone
    <3>1. pos + 1 \in Indices
      BY <1>1, <2>2 DEF PlotNone, Indices
    <3> QED
      BY <1>1, <2>1, <2>2, <3>1, RecordsType, AppendProperties DEF PlotNone
  <2>3. CASE EndFigure \/ ReduceNothing
    BY <2>1, <2>3 DEF EndFigure, ReduceNothing
  <2> QED
    BY <2>2, <2>3
<1>4. TypeOK'
  BY <1>1, <1>2, <1>3 DEF TypeOK
<1>5. StatisticsInv'
  BY <1>1, <1>2, RecordsStay DEF StatisticsInv
<1>6. FigureInv'
  BY <1>1, <1>2, RecordsStay DEF FigureInv, Plotted
<1>7. PhasesInv' /\ FinishedInv' /\ FillingInv'
  BY <1>1, <1>2 DEF PhasesInv, FinishedInv, FillingInv
<1>8. BucketsByTime'
  BY <1>2, BucketsStay DEF LoopInv
<1> QED
  BY <1>4, <1>5, <1>6, <1>7, <1>8 DEF LoopInv

\* A bucket is opened for a record: what is left to show of it before it is filled.
LEMMA OpenedFor ==
  ASSUME TypeOK, NEW i \in Indices
  PROVE  /\ Opened(records[i]) \in Bucket /\ Opened(records[i]).tally = ZeroBucket
         /\ Opened(records[i]).start = RoundToInt(records[i].time, BucketDuration)
         /\ Opened(records[i]).start % BucketDuration = 0
         /\ records[i].time < Opened(records[i]).start + BucketDuration
         /\ 2 * (Opened(records[i]).start - records[i].time) <= BucketDuration
<1>1. records[i].time \in Nat
  BY RecordsType
<1>2. BucketDuration \in Nat \ {0}
  BY NumbersAssumption
<1>3. ZeroBucket \in Tally
  BY ZerosType DEF Zeros
<1> QED
  BY <1>1, <1>2, <1>3, RoundedNear DEF Opened, Start, Bucket

LEMMA BeginReduceStep ==
  ASSUME LoopInv, BeginReduce
  PROVE  LoopInv'
<1>1. /\ TypeOK /\ phase = "figure" /\ pos = Len(records) /\ Len(records) \in Nat
      /\ TallyOf(statistics, ZeroStatistics, 1, Len(records)) /\ Plotted(Len(records))
      /\ buckets = <<>> /\ reduce /\ records # <<>>
  BY DEF BeginReduce, Ended, LoopInv, StatisticsInv, FigureInv, PhasesInv, TypeOK
<1>2. /\ pos' = 0 /\ phase' = "reduce" /\ bucket' = Opened(records[1]) /\ cuts' = <<0>>
      /\ UNCHANGED <<records, reduce, statistics, successes, timeouts, buckets>>
  BY DEF BeginReduce, Ended
<1>3. 1 \in Indices
  <2>1. Len(records) # 0
    BY <1>1, EmptySeq DEF TypeOK
  <2> QED
    BY <1>1, <2>1 DEF Indices
<1>4. /\ Opened(records[1]) \in Bucket /\ Opened(records[1]).tally = ZeroBucket
      /\ Opened(records[1]).start % BucketDuration = 0
  BY <1>1, <1>3, OpenedFor
<1>5. cuts' \in Seq(0 .. Len(records)) /\ Len(cuts') = 1 /\ cuts'[1] = 0 /\ Cut' = 0 /\ cuts' # <<>>
  BY <1>1, <1>2 DEF Cut
<1>6. TypeOK'
  BY <1>1, <1>2, <1>4, <1>5 DEF TypeOK
<1>7. StatisticsInv'
  BY <1>1, <1>2, RecordsStay DEF StatisticsInv
<1>8. FigureInv'
  BY <1>1, <1>2, RecordsStay DEF FigureInv, Plotted
<1>9. PhasesInv'
  BY <1>1, <1>2, <1>5 DEF PhasesInv
<1>10. BucketsEnd(0)'
  <2>1. Len(buckets) = 0 /\ DOMAIN buckets = {}
    BY <1>1, EmptySeq
  <2>2. \A field : SumOf(field)' = 0
    BY <1>2, <2>1, SumZero DEF SumOf
  <2>3. Cardinality(AnsweredIn(1, 0)') = 0
    <3>1. AnsweredIn(1, 0)' = {}
      BY DEF AnsweredIn
    <3> QED
      BY <3>1, FS_EmptySet
  <2>4. SumTo(Addends, 0)' = 0
    BY SumZero
  <2> QED
    BY <1>2, <1>5, <2>1, <2>2, <2>3, <2>4 DEF BucketsEnd
<1>11. FinishedInv'
  BY <1>2, <1>5, <1>10 DEF FinishedInv
<1>12. TallyOf(ZeroBucket, ZeroBucket, 1, 0)'
  <2>1. TallyOf(ZeroBucket, ZeroBucket, 1, 0)
    BY <1>1, TallyOfNone DEF Zeros
  <2> QED
    BY <1>2, <2>1, RecordsStay DEF ZeroBucket
<1>13. FillingInv'
  BY <1>1, <1>2, <1>4, <1>5, <1>12 DEF FillingInv
<1>14. BucketsByTime'
  BY <1>1, <1>2, EmptySeq DEF BucketsByTime
<1> QED
  BY <1>6, <1>7, <1>8, <1>9, <1>11, <1>13, <1>14 DEF LoopInv

\* What is known in the third loop.
LEMMA Reducing ==
  ASSUME LoopInv, phase = "reduce"
  PROVE  /\ TypeOK /\ pos \in Nat /\ Len(records) \in Nat /\ pos <= Len(records)
         /\ bucket \in Bucket /\ bucket.tally \in Tally /\ bucket.start \in Nat
         /\ cuts # <<>> /\ cuts \in Seq(0 .. Len(records)) /\ buckets \in Seq(Bucket)
         /\ BucketsEnd(Cut) /\ Cut \in Nat /\ Cut <= pos
         /\ pos > 0 => Cut < pos
         /\ bucket.tally.count = pos - Cut
<1>1. /\ TypeOK /\ pos \in Nat /\ Len(records) \in Nat /\ pos <= Len(records)
      /\ cuts \in Seq(0 .. Len(records)) /\ bucket \in Bucket /\ buckets \in Seq(Bucket)
  BY DEF LoopInv, TypeOK
<1>2. bucket.tally \in Tally /\ bucket.start \in Nat
  BY <1>1 DEF Bucket, Tally
<1>3. cuts # <<>>
  BY DEF LoopInv, PhasesInv
<1>4. BucketsEnd(Cut)
  BY <1>3 DEF LoopInv, FinishedInv
<1>5. Len(cuts) \in Nat /\ Len(cuts) # 0
  BY <1>1, <1>3, EmptySeq
<1>6. Cut \in Nat
  <2>1. cuts[Len(cuts)] \in 0 .. Len(records)
    BY <1>1, <1>5
  <2> QED
    BY <2>1 DEF Cut
<1>7. pos > 0 => Cut < pos
  BY DEF LoopInv, FillingInv
<1>8. pos = 0 => Cut = 0
  <2>1. pos = 0 => Len(buckets) = 0
    BY EmptySeq DEF LoopInv, FillingInv
  <2> QED
    BY <1>4, <2>1 DEF BucketsEnd, Cut
<1>9. bucket.tally.count = pos - (Cut + 1) + 1
  BY DEF LoopInv, FillingInv, TallyOf
<1> QED
  BY <1>1, <1>2, <1>3, <1>4, <1>6, <1>7, <1>8, <1>9

LEMMA ReduceInBucketStep ==
  ASSUME LoopInv, ReduceInBucket
  PROVE  LoopInv'
<1> DEFINE r == records[pos + 1]
<1>1. /\ phase = "reduce" /\ pos < Len(records) /\ ~ (r.time >= bucket.start + BucketDuration)
      /\ TallyOf(statistics, ZeroStatistics, 1, Len(records)) /\ Plotted(Len(records))
      /\ TallyOf(bucket.tally, ZeroBucket, Cut + 1, pos)
  BY DEF ReduceInBucket, Turn, IsBeyond, LoopInv, StatisticsInv, FigureInv, FillingInv
<1>2. /\ pos' = pos + 1 /\ bucket' = [bucket EXCEPT !.tally = CountedByBucket(@, r)]
      /\ UNCHANGED <<records, reduce, phase, statistics, successes, timeouts, buckets, cuts>>
  BY DEF ReduceInBucket, Turn
<1>3. /\ TypeOK /\ pos \in Nat /\ Len(records) \in Nat
      /\ bucket \in Bucket /\ bucket.tally \in Tally /\ bucket.start \in Nat
      /\ cuts # <<>> /\ BucketsEnd(Cut) /\ Cut \in Nat /\ Cut <= pos /\ (pos > 0 => Cut < pos)
  BY <1>1, Reducing
<1>4. pos + 1 \in Indices /\ r.time \in Nat /\ BucketDuration \in Nat
  BY <1>1, <1>3, RecordsType, NumbersAssumption DEF Indices
<1> DEFINE c == CountedByBucket(bucket.tally, r)
<1>5. c \in Tally /\ TallyOf(c, ZeroBucket, Cut + 1, pos + 1)
  <2>1. r.latency # None
    BY <1>1, <1>4 DEF Plotted, Indices
  <2>2. ZeroBucket \in Zeros /\ Cut + 1 \in Nat \ {0} /\ Cut + 1 <= pos + 1
    BY <1>3 DEF Zeros
  <2>3. \A d : d = c => d \in Tally /\ TallyOf(d, ZeroBucket, Cut + 1, pos + 1)
    BY <1>1, <1>3, <1>4, <2>1, <2>2, CountedTally
  <2> QED
    BY <2>3
<1>6. /\ bucket'.start = bucket.start /\ bucket'.tally = c
      /\ bucket' \in Bucket
  BY <1>2, <1>3, <1>5 DEF Bucket, Tally
<1>7. 2 * (bucket.start - r.time) <= BucketDuration
  <2>1. CASE pos = 0
    <3>1. bucket = Opened(records[1]) /\ r = records[1] /\ 1 \in Indices
      BY <1>1, <1>4, <2>1 DEF LoopInv, FillingInv
    <3> QED
      BY <1>3, <3>1, OpenedFor
  <2>2. CASE pos # 0
    <3>1. pos \in Cut + 1 .. pos /\ pos \in Indices
      BY <1>1, <1>3, <2>2 DEF Indices
    <3>2. 2 * (bucket.start - records[pos].time) <= BucketDuration
      BY <1>1, <3>1 DEF LoopInv, FillingInv
    <3>3. records[pos].time \in Nat
      BY <1>3, <3>1, RecordsType
    <3>4. records[pos].time < r.time
      <4>1. Ascending(records) /\ DOMAIN records = Indices
        BY <1>3 DEF TypeOK, Indices
      <4> QED
        BY <1>3, <1>4, <3>1, <4>1 DEF Ascending
    <3> QED
      BY <1>3, <1>4, <3>2, <3>3, <3>4
  <2> QED
    BY <2>1, <2>2
<1>8. TypeOK'
  BY <1>1, <1>2, <1>3, <1>6 DEF TypeOK
<1>9. StatisticsInv'
  BY <1>1, <1>2, RecordsStay DEF StatisticsInv
<1>10. FigureInv'
  BY <1>1, <1>2, RecordsStay DEF FigureInv, Plotted
<1>11. PhasesInv' /\ BucketsByTime' /\ FinishedInv' /\ Cut' = Cut
  <2>1. PhasesInv' /\ BucketsByTime' /\ Cut' = Cut
    BY <1>2, BucketsStay DEF LoopInv, PhasesInv
  <2>2. BucketsEnd(Cut)'
    BY <1>2, <1>3, <2>1, BucketsStay, RecordsStay DEF BucketsEnd, SumOf
  <2> QED
    BY <1>1, <1>2, <2>1, <2>2 DEF FinishedInv
<1>12. FillingInv'
  <2>1. bucket.start % BucketDuration = 0
    BY <1>1 DEF LoopInv, FillingInv
  <2>2. \A i \in Cut + 1 .. pos + 1 :
          /\ records[i].time < bucket.start + BucketDuration
          /\ 2 * (bucket.start - records[i].time) <= BucketDuration
    <3> SUFFICES ASSUME NEW i \in Cut + 1 .. pos + 1
                 PROVE  /\ records[i].time < bucket.start + BucketDuration
                        /\ 2 * (bucket.start - records[i].time) <= BucketDuration
      OBVIOUS
    <3>1. CASE i = pos + 1
      BY <1>1, <1>3, <1>4, <1>7, <3>1
    <3>2. CASE i # pos + 1
      <4>1. i \in Cut + 1 .. pos
        BY <1>3, <3>2
      <4> QED
        BY <1>1, <4>1 DEF LoopInv, FillingInv
    <3> QED
      BY <3>1, <3>2
  <2>3. buckets # <<>> => bucket.start >= buckets[Len(buckets)].start + BucketDuration
    BY <1>1 DEF LoopInv, FillingInv
  <2>4. TallyOf(bucket.tally, ZeroBucket, Cut + 1, pos)'
    BY <1>2, <1>5, <1>6, <1>11, RecordsStay
  <2> QED
    BY <1>2, <1>3, <1>6, <1>11, <2>1, <2>2, <2>3, <2>4 DEF FillingInv
<1> QED
  BY <1>8, <1>9, <1>10, <1>11, <1>12 DEF LoopInv

\* A bucket is finished: it is the last of the finished ones, and they reach to here.
LEMMA CloseBucket ==
  ASSUME LoopInv, phase = "reduce", pos > 0, UNCHANGED records,
         buckets' = Append(buckets, bucket), cuts' = Append(cuts, pos)
  PROVE  /\ buckets' \in Seq(Bucket) /\ cuts' \in Seq(0 .. Len(records))
         /\ cuts' # <<>> /\ Cut' = pos /\ BucketsEnd(Cut)' /\ BucketsByTime'
         /\ Len(buckets') = Len(buckets) + 1 /\ buckets'[Len(buckets')] = bucket
<1> DEFINE last == Len(buckets) + 1
<1>1. /\ TypeOK /\ pos \in Nat /\ Len(records) \in Nat /\ pos <= Len(records)
      /\ bucket \in Bucket /\ bucket.tally \in Tally /\ bucket.start \in Nat
      /\ cuts # <<>> /\ cuts \in Seq(0 .. Len(records)) /\ buckets \in Seq(Bucket)
      /\ BucketsEnd(Cut) /\ Cut \in Nat /\ Cut < pos
      /\ bucket.tally.count = pos - Cut
  BY Reducing
<1>2. Len(buckets) \in Nat /\ Len(cuts) = last /\ cuts[last] = Cut /\ cuts[1] = 0
  BY <1>1 DEF BucketsEnd, Cut
<1>3. /\ buckets' \in Seq(Bucket) /\ Len(buckets') = last /\ buckets'[last] = bucket
      /\ \A k \in DOMAIN buckets : buckets'[k] = buckets[k]
      /\ DOMAIN buckets = 1 .. Len(buckets) /\ DOMAIN buckets' = 1 .. last
  BY <1>1, AppendProperties
<1>4. /\ cuts' \in Seq(0 .. Len(records)) /\ Len(cuts') = last + 1 /\ cuts'[last + 1] = pos
      /\ \A k \in 1 .. last : cuts'[k] = cuts[k]
  <2>1. pos \in 0 .. Len(records)
    BY <1>1
  <2> QED
    BY <1>1, <1>2, <2>1, AppendProperties
<1>5. cuts' # <<>> /\ Cut' = pos
  BY <1>2, <1>4, EmptySeq DEF Cut
<1>6. \A k \in DOMAIN buckets' :
        /\ cuts'[k] < cuts'[k + 1]
        /\ TallyOf(buckets'[k].tally, ZeroBucket, cuts'[k] + 1, cuts'[k + 1])
  <2> SUFFICES ASSUME NEW k \in 1 .. last
               PROVE  /\ cuts'[k] < cuts'[k + 1]
                      /\ TallyOf(buckets'[k].tally, ZeroBucket, cuts'[k] + 1, cuts'[k + 1])
    BY <1>3
  <2>1. CASE k = last
    <3>1. cuts'[k] = Cut /\ cuts'[k + 1] = pos /\ buckets'[k] = bucket
      BY <1>2, <1>3, <1>4, <2>1
    <3>2. TallyOf(bucket.tally, ZeroBucket, Cut + 1, pos)
      BY DEF LoopInv, FillingInv
    <3> QED
      BY <1>1, <3>1, <3>2
  <2>2. CASE k # last
    <3>1. k \in DOMAIN buckets /\ k \in 1 .. last /\ k + 1 \in 1 .. last
      BY <1>2, <1>3, <2>2
    <3>2. cuts'[k] = cuts[k] /\ cuts'[k + 1] = cuts[k + 1] /\ buckets'[k] = buckets[k]
      BY <1>3, <1>4, <3>1
    <3> QED
      BY <1>1, <3>1, <3>2 DEF BucketsEnd
  <2> QED
    BY <2>1, <2>2
<1>7. ASSUME NEW field
      PROVE  SumOf(field)' = SumOf(field) + bucket.tally[field]
  <2> DEFINE f == [k \in DOMAIN buckets |-> buckets[k].tally[field]]
             g == [k \in DOMAIN buckets' |-> buckets'[k].tally[field]]
  <2>1. \A k \in 1 .. Len(buckets) : f[k] = g[k]
    BY <1>2, <1>3
  <2>2. g[last] = bucket.tally[field]
    BY <1>2, <1>3
  <2>3. SumOf(field) = SumTo(f, Len(buckets)) /\ SumOf(field)' = SumTo(g, last)
    BY <1>3 DEF SumOf, SumTo
  <2> HIDE DEF f, g
  <2>4. SumTo(g, Len(buckets) + 1) = SumTo(f, Len(buckets)) + g[Len(buckets) + 1]
    BY <1>2, <2>1, SumNext
  <2> QED
    BY <2>2, <2>3, <2>4
<1>8. SumOf("count")' = pos
  BY <1>1, <1>7 DEF BucketsEnd
<1>9. SumOf("successes")' = Cardinality(AnsweredIn(1, pos))
  <2>1. bucket.tally.successes = Cardinality(AnsweredIn(Cut + 1, pos))
    BY DEF LoopInv, FillingInv, TallyOf
  <2>2. SumOf("successes") = Cardinality(AnsweredIn(1, Cut))
    BY <1>1 DEF BucketsEnd
  <2>3. SumOf("successes")' = SumOf("successes") + bucket.tally.successes
    BY <1>7
  <2>4. Cardinality(AnsweredIn(1, pos))
          = Cardinality(AnsweredIn(1, Cut)) + Cardinality(AnsweredIn(Cut + 1, pos))
    BY <1>1, AnsweredSum
  <2> QED
    BY <2>1, <2>2, <2>3, <2>4
<1>10. SumOf("total")' = SumTo(Addends, pos)
  <2>1. bucket.tally.total = SumTo(Addends, pos) - SumTo(Addends, (Cut + 1) - 1)
    BY DEF LoopInv, FillingInv, TallyOf
  <2>2. (Cut + 1) - 1 = Cut /\ SumTo(Addends, pos) \in Int /\ SumTo(Addends, Cut) \in Int
    BY <1>1, AddendsType
  <2>3. SumOf("total") = SumTo(Addends, Cut)
    BY <1>1 DEF BucketsEnd
  <2>4. SumOf("total")' = SumOf("total") + bucket.tally.total
    BY <1>7
  <2> QED
    BY <2>1, <2>2, <2>3, <2>4
<1>11. BucketsEnd(Cut)'
  BY <1>2, <1>3, <1>4, <1>5, <1>6, <1>8, <1>9, <1>10, RecordsStay DEF BucketsEnd
<1>12. BucketsByTime'
  <2>1. ASSUME NEW k \in 1 .. last
        PROVE  /\ buckets'[k].start % BucketDuration = 0
               /\ \A i \in cuts'[k] + 1 .. cuts'[k + 1] :
                    /\ records[i].time < buckets'[k].start + BucketDuration
                    /\ 2 * (buckets'[k].start - records[i].time) <= BucketDuration
    <3>1. CASE k = last
      <4>1. cuts'[k] = Cut /\ cuts'[k + 1] = pos /\ buckets'[k] = bucket
        BY <1>2, <1>3, <1>4, <3>1
      <4> QED
        BY <4>1 DEF LoopInv, FillingInv
    <3>2. CASE k # last
      <4>1. k \in DOMAIN buckets /\ k \in 1 .. last /\ k + 1 \in 1 .. last
        BY <1>2, <1>3, <3>2
      <4>2. cuts'[k] = cuts[k] /\ cuts'[k + 1] = cuts[k + 1] /\ buckets'[k] = buckets[k]
        BY <1>3, <1>4, <4>1
      <4> QED
        BY <4>1, <4>2 DEF LoopInv, BucketsByTime
    <3> QED
      BY <3>1, <3>2
  <2>2. ASSUME NEW k \in 2 .. last
        PROVE  buckets'[k].start >= buckets'[k - 1].start + BucketDuration
    <3>0. k - 1 \in DOMAIN buckets /\ buckets'[k - 1] = buckets[k - 1]
      BY <1>2, <1>3
    <3>1. CASE k = last
      <4>1. buckets # <<>> /\ k - 1 = Len(buckets) /\ buckets'[k] = bucket
        BY <1>2, <1>3, <3>0, <3>1, EmptySeq
      <4> QED
        BY <3>0, <4>1 DEF LoopInv, FillingInv
    <3>2. CASE k # last
      <4>1. k \in DOMAIN buckets /\ k \in 2 .. Len(buckets) /\ buckets'[k] = buckets[k]
        BY <1>2, <1>3, <3>2
      <4> QED
        BY <3>0, <4>1 DEF LoopInv, BucketsByTime
    <3> QED
      BY <3>1, <3>2
  <2> QED
    BY <1>3, <2>1, <2>2 DEF BucketsByTime
<1> QED
  BY <1>3, <1>4, <1>5, <1>11, <1>12

LEMMA ReduceNextBucketStep ==
  ASSUME LoopInv, ReduceNextBucket
  PROVE  LoopInv'
<1> DEFINE r == records[pos + 1]
<1>1. /\ phase = "reduce" /\ pos < Len(records) /\ r.time >= bucket.start + BucketDuration
      /\ TallyOf(statistics, ZeroStatistics, 1, Len(records)) /\ Plotted(Len(records))
      /\ reduce /\ records # <<>>
  BY DEF ReduceNextBucket, Turn, IsBeyond, LoopInv, StatisticsInv, FigureInv, PhasesInv
<1>2. /\ pos' = pos + 1 /\ bucket' = [Opened(r) EXCEPT !.tally = CountedByBucket(@, r)]
      /\ UNCHANGED <<records, reduce, phase, statistics, successes, timeouts>>
  BY DEF ReduceNextBucket, Turn, Reopened
<1>3. /\ TypeOK /\ pos \in Nat /\ Len(records) \in Nat
      /\ bucket \in Bucket /\ bucket.tally \in Tally /\ bucket.start \in Nat
      /\ buckets \in Seq(Bucket) /\ Cut \in Nat /\ (pos > 0 => Cut < pos)
      /\ bucket.tally.count = pos - Cut
  BY <1>1, Reducing
<1>4. pos + 1 \in Indices /\ r.time \in Nat /\ BucketDuration \in Nat \ {0}
  BY <1>1, <1>3, RecordsType, NumbersAssumption DEF Indices
<1>5. pos > 0
  <2> SUFFICES ASSUME pos = 0 PROVE FALSE
    BY <1>3
  <2>1. bucket = Opened(records[1]) /\ r = records[1] /\ 1 \in Indices
    BY <1>1, <1>4 DEF LoopInv, FillingInv
  <2>2. r.time < bucket.start + BucketDuration
    BY <1>3, <2>1, OpenedFor
  <2> QED
    BY <1>1, <1>3, <1>4, <2>2
<1>6. buckets' = Append(buckets, bucket) /\ cuts' = Append(cuts, pos)
  BY <1>3, <1>5 DEF ReduceNextBucket
<1>7. /\ buckets' \in Seq(Bucket) /\ cuts' \in Seq(0 .. Len(records))
      /\ cuts' # <<>> /\ Cut' = pos /\ BucketsEnd(Cut)' /\ BucketsByTime'
      /\ Len(buckets') = Len(buckets) + 1 /\ buckets'[Len(buckets')] = bucket
  BY <1>1, <1>2, <1>5, <1>6, CloseBucket
<1>8. /\ Opened(r) \in Bucket /\ Opened(r).tally = ZeroBucket
      /\ Opened(r).start = RoundToInt(r.time, BucketDuration)
      /\ Opened(r).start % BucketDuration = 0
      /\ r.time < Opened(r).start + BucketDuration
      /\ 2 * (Opened(r).start - r.time) <= BucketDuration
  BY <1>3, <1>4, OpenedFor
<1> DEFINE c == CountedByBucket(ZeroBucket, r)
<1>9. c \in Tally /\ TallyOf(c, ZeroBucket, pos + 1, pos + 1)
  <2>1. ZeroBucket \in Tally /\ TallyOf(ZeroBucket, ZeroBucket, pos + 1, pos)
    BY <1>1, <1>3, TallyOfNone DEF Zeros
  <2>2. r.latency # None
    BY <1>1, <1>4 DEF Plotted, Indices
  <2>3. ZeroBucket \in Zeros /\ pos + 1 \in Nat \ {0} /\ pos + 1 <= pos + 1
    BY <1>3 DEF Zeros
  <2>4. \A d : d = c => d \in Tally /\ TallyOf(d, ZeroBucket, pos + 1, pos + 1)
    BY <1>3, <1>4, <2>1, <2>2, <2>3, CountedTally
  <2> QED
    BY <2>4
<1>10. bucket' \in Bucket /\ bucket'.start = Opened(r).start /\ bucket'.tally = c
  BY <1>2, <1>8, <1>9 DEF Bucket, Tally
<1>11. bucket'.start >= bucket.start + BucketDuration
  <2>1. bucket.start % BucketDuration = 0
    BY <1>1 DEF LoopInv, FillingInv
  <2>2. bucket.start + BucketDuration <= RoundToInt(r.time, BucketDuration)
    BY <1>1, <1>3, <1>4, <2>1, RoundedBeyond
  <2>3. RoundToInt(r.time, BucketDuration) \in Nat
    BY <1>4, RoundedNear
  <2> QED
    BY <1>3, <1>4, <1>8, <1>10, <2>2, <2>3
<1>12. TypeOK'
  BY <1>1, <1>2, <1>3, <1>7, <1>10 DEF TypeOK
<1>13. StatisticsInv'
  BY <1>1, <1>2, RecordsStay DEF StatisticsInv
<1>14. FigureInv'
  BY <1>1, <1>2, RecordsStay DEF FigureInv, Plotted
<1>15. PhasesInv' /\ FinishedInv'
  BY <1>1, <1>2, <1>7 DEF PhasesInv, FinishedInv
<1>16. FillingInv'
  <2>1. TallyOf(bucket.tally, ZeroBucket, Cut + 1, pos)'
    BY <1>2, <1>7, <1>9, <1>10, RecordsStay
  <2>2. ASSUME NEW i \in pos + 1 .. pos + 1
        PROVE  /\ records[i].time < bucket'.start + BucketDuration
               /\ 2 * (bucket'.start - records[i].time) <= BucketDuration
    <3>1. i = pos + 1
      BY <1>3
    <3> QED
      BY <1>8, <1>10, <3>1
  <2> QED
    BY <1>2, <1>3, <1>7, <1>8, <1>10, <1>11, <2>1, <2>2 DEF FillingInv
<1> QED
  BY <1>7, <1>12, <1>13, <1>14, <1>15, <1>16 DEF LoopInv

LEMMA EndReduceStep ==
  ASSUME LoopInv, EndReduce
  PROVE  LoopInv'
<1>1. /\ phase = "reduce" /\ pos = Len(records)
      /\ TallyOf(statistics, ZeroStatistics, 1, Len(records)) /\ Plotted(Len(records))
      /\ reduce /\ records # <<>>
  BY DEF EndReduce, Ended, LoopInv, StatisticsInv, FigureInv, PhasesInv
<1>2. /\ pos' = 0 /\ phase' = "done"
      /\ UNCHANGED <<records, reduce, statistics, successes, timeouts, bucket>>
  BY DEF EndReduce, Ended
<1>3. /\ TypeOK /\ pos \in Nat /\ Len(records) \in Nat
      /\ Cut \in Nat /\ (pos > 0 => Cut < pos) /\ bucket.tally.count = pos - Cut
  BY <1>1, Reducing
<1>4. pos > 0
  BY <1>1, <1>3, EmptySeq DEF TypeOK
<1>5. buckets' = Append(buckets, bucket) /\ cuts' = Append(cuts, pos)
  BY <1>3, <1>4 DEF EndReduce
<1>6. /\ buckets' \in Seq(Bucket) /\ cuts' \in Seq(0 .. Len(records))
      /\ cuts' # <<>> /\ Cut' = pos /\ BucketsEnd(Cut)' /\ BucketsByTime'
  BY <1>1, <1>2, <1>4, <1>5, CloseBucket
<1>7. TypeOK'
  BY <1>1, <1>2, <1>3, <1>6 DEF TypeOK
<1>8. StatisticsInv'
  BY <1>1, <1>2, RecordsStay DEF StatisticsInv
<1>9. FigureInv'
  BY <1>1, <1>2, RecordsStay DEF FigureInv, Plotted
<1>10. PhasesInv' /\ FinishedInv' /\ FillingInv'
  BY <1>1, <1>2, <1>6 DEF PhasesInv, FinishedInv, FillingInv
<1> QED
  BY <1>6, <1>7, <1>8, <1>9, <1>10 DEF LoopInv

-----------------------------------------------------------------------------
(* The theorems *)

\* Every turn of every loop keeps the invariant.
LEMMA NextLoops == LoopInv /\ [Next]_vars => LoopInv'
<1> SUFFICES ASSUME LoopInv, [Next]_vars PROVE LoopInv'
  OBVIOUS
<1>1. CASE UNCHANGED vars
  <2>1. UNCHANGED <<records, reduce, phase, pos, statistics, successes, timeouts, bucket,
                    buckets, cuts>>
    BY <1>1 DEF vars
  <2>2. TypeOK' /\ BucketsByTime'
    BY <2>1, BucketsStay DEF LoopInv, TypeOK
  <2>3. StatisticsInv' /\ FigureInv'
    BY <2>1, RecordsStay DEF LoopInv, StatisticsInv, FigureInv, Plotted
  <2>4. cuts # <<>> => BucketsEnd(Cut)'
    BY <2>1, BucketsStay, RecordsStay DEF LoopInv, FinishedInv, BucketsEnd, SumOf
  <2>5. PhasesInv' /\ FinishedInv'
    BY <2>1, <2>4, BucketsStay DEF LoopInv, PhasesInv, FinishedInv
  <2>6. FillingInv'
    BY <2>1, BucketsStay, RecordsStay DEF LoopInv, FillingInv
  <2> QED
    BY <2>2, <2>3, <2>5, <2>6 DEF LoopInv
<1>2. CASE CountStatistics
  BY <1>2, CountStatisticsStep
<1>3. CASE EndStatistics
  BY <1>3, EndStatisticsStep
<1>4. CASE PlotRecord
  BY <1>4, PlotRecordStep
<1>5. CASE EndFigure \/ ReduceNothing \/ PlotNone
  BY <1>5, NoBucketsStep
<1>6. CASE BeginReduce
  BY <1>6, BeginReduceStep
<1>7. CASE ReduceInBucket
  BY <1>7, ReduceInBucketStep
<1>8. CASE ReduceNextBucket
  BY <1>8, ReduceNextBucketStep
<1>9. CASE EndReduce
  BY <1>9, EndReduceStep
<1> QED
  BY <1>1, <1>2, <1>3, <1>4, <1>5, <1>6, <1>7, <1>8, <1>9 DEF Next

\* The inductive invariant of calculate_statistics, make_graph_figure and
\* reduce_data_points: what each loop has after the records it has seen.
THEOREM LoopInvariant == Spec => []LoopInv
<1> QED
  BY InitLoops, NextLoops, PTL DEF Spec

\* Types, and records in the order of time.
THEOREM TypeCorrect == Spec => []TypeOK
<1>1. LoopInv => TypeOK
  BY DEF LoopInv
<1> QED
  BY <1>1, LoopInvariant, PTL

\* Every record is in one bucket, whose tally is that of its records, for any
\* records and any duration (graphing.py:99-147).
THEOREM BucketsAlwaysCover == Spec => []BucketsCover
<1>1. LoopInv => BucketsCover
  <2> SUFFICES ASSUME LoopInv PROVE BucketsCover
    OBVIOUS
  <2>1. cuts # <<>> => BucketsEnd(Cut)
    BY DEF LoopInv, FinishedInv
  <2>2. phase = "done" /\ reduce => cuts[Len(cuts)] = Len(records)
    BY DEF LoopInv, FinishedInv, Cut
  <2> QED
    BY <2>1, <2>2 DEF BucketsCover, BucketsEnd
<1> QED
  BY <1>1, LoopInvariant, PTL

\* A bucket has the records near its start, starts are multiples of the duration
\* and ascend over gaps too (graphing.py:95, 102, 119).
THEOREM BucketsAlwaysByTime == Spec => []BucketsByTime
<1>1. LoopInv => BucketsByTime
  BY DEF LoopInv
<1> QED
  BY <1>1, LoopInvariant, PTL

\* Every record is in a finished bucket when these reach to the n-th.
LEMMA InSomeBucket ==
  ASSUME TypeOK, NEW n \in Nat, BucketsEnd(n), NEW i \in 1 .. n
  PROVE  \E k \in DOMAIN buckets : i \in cuts[k] + 1 .. cuts[k + 1]
<1> DEFINE K == {k \in DOMAIN buckets : i <= cuts[k + 1]}
           last == Len(buckets)
<1>1. /\ cuts[1] = 0 /\ Len(cuts) = last + 1 /\ cuts[last + 1] = n
      /\ last \in Nat /\ DOMAIN buckets = 1 .. last
      /\ \A k \in 1 .. last + 1 : cuts[k] \in Nat
  <2>1. buckets \in Seq(Bucket) /\ cuts \in Seq(0 .. Len(records)) /\ Len(records) \in Nat
    BY DEF TypeOK
  <2>2. last \in Nat /\ DOMAIN buckets = 1 .. last /\ Len(cuts) = last + 1
    BY <2>1 DEF BucketsEnd
  <2>3. \A k \in 1 .. last + 1 : cuts[k] \in 0 .. Len(records)
    BY <2>1, <2>2
  <2> QED
    BY <2>1, <2>2, <2>3 DEF BucketsEnd, Cut
<1>2. last # 0
  BY <1>1
<1>3. last \in K
  BY <1>1, <1>2
<1>4. K \in SUBSET Nat
  BY <1>1
<1> HIDE DEF K
<1>5. PICK k \in K : \A m \in K : k <= m
  BY <1>3, <1>4, Least
<1>6. k \in 1 .. last /\ i <= cuts[k + 1]
  BY <1>1 DEF K
<1>7. cuts[k] < i
  <2>1. CASE k = 1
    BY <1>1, <2>1
  <2>2. CASE k # 1
    <3>1. k - 1 \in 1 .. last /\ k - 1 \notin K /\ (k - 1) + 1 = k
      BY <1>4, <1>5, <1>6, <2>2
    <3>2. ~ (i <= cuts[k])
      BY <1>1, <3>1 DEF K
    <3> QED
      BY <1>1, <1>6, <3>2
  <2> QED
    BY <2>1, <2>2
<1>8. cuts[k] \in Nat /\ cuts[k + 1] \in Nat
  BY <1>1, <1>6
<1>9. i \in cuts[k] + 1 .. cuts[k + 1]
  BY <1>6, <1>7, <1>8
<1> QED
  BY <1>1, <1>6, <1>9

\* The extremes of the page are those of the buckets, where there is one.
ExtremesAgree ==
  /\ \A k \in DOMAIN buckets : statistics.minimum <= buckets[k].tally.minimum
  /\ \A k \in DOMAIN buckets : statistics.maximum >= buckets[k].tally.maximum
  /\ statistics.successes > 0 =>
       \E k \in DOMAIN buckets : statistics.minimum = buckets[k].tally.minimum
  /\ statistics.maximum > FloatMin =>
       \E k \in DOMAIN buckets : statistics.maximum = buckets[k].tally.maximum

LEMMA ExtremesOfBuckets ==
  ASSUME TypeOK, BucketsEnd(Len(records)), TallyOf(statistics, ZeroStatistics, 1, Len(records))
  PROVE  ExtremesAgree
<1> DEFINE n == Len(records)
           all == LatenciesIn(1, n)
           min(k) == buckets[k].tally.minimum
           max(k) == buckets[k].tally.maximum
           in(k) == LatenciesIn(cuts[k] + 1, cuts[k + 1])
<1>1. /\ n \in Nat /\ buckets \in Seq(Bucket) /\ cuts \in Seq(0 .. n)
      /\ statistics.minimum \in Int /\ statistics.maximum \in Int
  BY DEF TypeOK, Tally
<1>2. \A k \in DOMAIN buckets : min(k) \in Int /\ max(k) \in Int
  <2> SUFFICES ASSUME NEW k \in DOMAIN buckets PROVE min(k) \in Int /\ max(k) \in Int
    OBVIOUS
  <2>1. buckets[k] \in Bucket
    BY <1>1, ElementOfSeq
  <2>2. buckets[k].tally \in Tally
    BY <2>1 DEF Bucket
  <2> QED
    BY <2>2 DEF Tally
<1>3. FloatMin \in Nat /\ FloatMin > 0 /\ FloatMax \in Nat /\ Infinity \in Nat /\ FloatMax < Infinity
  BY NumbersAssumption
<1>4. all \subseteq Int /\ \A l \in all : l < FloatMax
  <2>1. AnsweredIn(1, n) \subseteq Indices /\ \A i \in AnsweredIn(1, n) : Answered(i)
    BY DEF AnsweredIn, Indices
  <2> QED
    BY <2>1, RecordsType DEF LatenciesIn
<1>5. /\ statistics.minimum \in all \cup {FloatMax} /\ statistics.maximum \in all \cup {FloatMin}
      /\ statistics.minimum <= FloatMax /\ statistics.maximum >= FloatMin
      /\ \A l \in all : statistics.minimum <= l /\ statistics.maximum >= l
  BY DEF TallyOf, LatenciesIn, ZeroStatistics
<1>6. \A k \in DOMAIN buckets :
        /\ min(k) \in in(k) \cup {Infinity} /\ max(k) \in in(k) \cup {0}
        /\ \A l \in in(k) : min(k) <= l /\ max(k) >= l
  BY DEF BucketsEnd, TallyOf, LatenciesIn, ZeroBucket
<1>7. \A k \in DOMAIN buckets : in(k) \subseteq all
  <2> SUFFICES ASSUME NEW k \in DOMAIN buckets PROVE in(k) \subseteq all
    OBVIOUS
  <2>1. cuts[k] \in 0 .. n /\ cuts[k + 1] \in 0 .. n
    <3>1. Len(cuts) = Len(buckets) + 1
      BY DEF BucketsEnd
    <3>2. k \in 1 .. Len(cuts) /\ k + 1 \in 1 .. Len(cuts)
      BY <1>1, <3>1
    <3> QED
      BY <1>1, <3>2
  <2>2. cuts[k] + 1 .. cuts[k + 1] \subseteq 1 .. n
    BY <1>1, <2>1
  <2> QED
    BY <2>2 DEF LatenciesIn, AnsweredIn
<1>8. \A l \in all : \E k \in DOMAIN buckets : l \in in(k)
  <2> SUFFICES ASSUME NEW i \in AnsweredIn(1, n)
               PROVE  \E k \in DOMAIN buckets : records[i].latency \in in(k)
    BY DEF LatenciesIn
  <2>1. i \in 1 .. n /\ Answered(i)
    BY DEF AnsweredIn
  <2>2. PICK k \in DOMAIN buckets : i \in cuts[k] + 1 .. cuts[k + 1]
    BY <1>1, <2>1, InSomeBucket
  <2> QED
    BY <2>1, <2>2 DEF LatenciesIn, AnsweredIn
<1>9. statistics.successes > 0 => all # {}
  <2>1. statistics.successes = Cardinality(AnsweredIn(1, n))
    BY DEF TallyOf
  <2>2. all = {} => AnsweredIn(1, n) = {}
    BY DEF LatenciesIn
  <2>3. AnsweredIn(1, n) = {} => Cardinality(AnsweredIn(1, n)) = 0
    BY FS_EmptySet
  <2> QED
    BY <2>1, <2>2, <2>3
<1> HIDE DEF n, all, in, min, max
<1>10. \A k \in DOMAIN buckets : statistics.minimum <= min(k)
  BY <1>1, <1>2, <1>3, <1>4, <1>5, <1>6, <1>7
<1>11. \A k \in DOMAIN buckets : statistics.maximum >= max(k)
  BY <1>1, <1>2, <1>3, <1>4, <1>5, <1>6, <1>7
<1>12. ASSUME statistics.successes > 0
       PROVE  \E k \in DOMAIN buckets : statistics.minimum = min(k)
  <2>0. PICK l \in all : statistics.minimum <= l /\ l < FloatMax
    BY <1>4, <1>5, <1>9, <1>12
  <2>1. statistics.minimum \in all
    BY <1>1, <1>3, <1>4, <1>5, <2>0
  <2>2. PICK k \in DOMAIN buckets : statistics.minimum \in in(k)
    BY <1>8, <2>1
  <2> QED
    BY <1>1, <1>2, <1>6, <1>10, <2>2
<1>13. ASSUME statistics.maximum > FloatMin
       PROVE  \E k \in DOMAIN buckets : statistics.maximum = max(k)
  <2>1. statistics.maximum \in all
    BY <1>1, <1>3, <1>5, <1>13
  <2>2. PICK k \in DOMAIN buckets : statistics.maximum \in in(k)
    BY <1>8, <2>1
  <2> QED
    BY <1>1, <1>2, <1>6, <1>11, <2>2
<1> QED
  BY <1>10, <1>11, <1>12, <1>13 DEF ExtremesAgree, min, max

\* Of any records, with a clock set back or a latency of None among them, the page,
\* the points of the image and its buckets tell the same, each with its own test for
\* a timeout and its own first extremes: an image with a None does not come out
\* (database_influxdb.py:149-167, graphing.py:96-134, 179-185).
THEOREM StatisticsAlwaysAgree == Spec => []StatisticsAgree
<1>1. LoopInv => StatisticsAgree
  <2> SUFFICES ASSUME LoopInv PROVE StatisticsAgree
    OBVIOUS
  <2> DEFINE n == Len(records)
             a == Cardinality(AnsweredIn(1, n))
  <2>1. TypeOK /\ n \in Nat /\ a \in Nat /\ SumTo(Addends, n) \in Int
    <3>1. TypeOK /\ n \in Nat /\ n \in 0 .. n
      BY DEF LoopInv, TypeOK
    <3>2. a \in Nat
      <4>1. 1 \in Int /\ n \in Int
        BY <3>1
      <4> HIDE DEF n
      <4> QED
        BY <4>1, AnsweredFinite
    <3> QED
      BY <3>1, <3>2, AddendsType
  <2>2. phase # "statistics" => TallyOf(statistics, ZeroStatistics, 1, n)
    BY DEF LoopInv, StatisticsInv
  <2>3. phase = "done" =>
          statistics.count = n /\ statistics.successes = a /\ statistics.total = SumTo(Addends, n)
    <3>1. SumTo(Addends, 1 - 1) = 0
      BY SumZero
    <3> QED
      BY <2>1, <2>2, <3>1 DEF TallyOf
  <2>4. phase = "done" => Len(successes) = a /\ Len(timeouts) = n - a
    BY DEF LoopInv, FigureInv, Plotted
  <2>5. phase = "done" /\ reduce => BucketsEnd(n)
    BY DEF LoopInv, PhasesInv, FinishedInv
  <2>6. phase = "done" /\ reduce => ExtremesAgree
    BY <2>1, <2>2, <2>5, ExtremesOfBuckets
  <2>7. phase = "done" /\ reduce =>
          /\ SumOf("count") = statistics.count
          /\ SumOf("successes") = statistics.successes
          /\ SumOf("total") = statistics.total
    BY <2>3, <2>5 DEF BucketsEnd
  <2> QED
    BY <2>2, <2>3, <2>4, <2>6, <2>7 DEF StatisticsAgree, ExtremesAgree
<1> QED
  BY <1>1, LoopInvariant, PTL
=============================================================================
