--------------------------- MODULE GraphPages_proofs ---------------------------
(***************************************************************************)
(* Proofs about GraphPages, for any number of processes, any forms and any  *)
(* times to live.                                                          *)
(*                                                                         *)
(* What a request has in hand is told by how far it is (PageRequest,       *)
(* IndexRequest); records are as complete as the time of their reading, or *)
(* that of the cache's entry, allows (Complete); and the range of a query  *)
(* that pins it is the same at any time of the clock (PagesInv).           *)
(***************************************************************************)
EXTENDS GraphPages, SequenceTheorems, FiniteSetTheorems, WellFoundedInduction, TLAPS

Ranges == [start : Int, stop : Int, pinned : BOOLEAN]

\* The records are of this range, and only points stored at t or later are missing.
Complete(p, r, recs, t) ==
  /\ recs \subseteq StoredIn(p, r)
  /\ \A s \in StoredIn(p, r) : s \in recs \/ t <= stored[p][s]

LikeRange(r, like) == Second(r.start) = Second(like.start) /\ Second(r.stop) = Second(like.stop)

\* A query that pins its range has the range that it pins.
PinnedTo(q, r) == r \in Ranges /\ (Pinned(q) => r = Extents(q))

RequestFields ==
  {"step", "kind", "pair", "query", "fields", "range", "like", "records", "since"}

IsRequest(r) == r = [f \in RequestFields |-> r[f]] /\ r.pair \in Pairs

\* A request for a page or an image, at each of its steps.
PageRequest(r) ==
  /\ IsRequest(r)
  /\ r.kind \in {"page", "image"}
  /\ r.step \in {"extents", "fetch", "query", "insert", "respond", "bare"}
  /\ r.query \in Query
  /\ r.kind = "page" => PinnedTo(r.query, r.fields)
  /\ r.step # "extents" => PinnedTo(r.query, r.range)
  /\ r.like # None => Pinned(r.query) /\ LikeRange(Extents(r.query), r.like)
  /\ r.step \in {"query", "insert", "respond"} => r.since \in 0 .. now
  /\ r.step \in {"query", "insert"} => now <= r.since + MaxFetch
  /\ r.step = "insert" => Complete(r.pair, r.range, r.records, r.since)
  /\ r.step = "respond" => Complete(r.pair, r.range, r.records, r.since - TTL - MaxFetch)

\* A request for the dashboard.
IndexRequest(r) ==
  /\ IsRequest(r)
  /\ r.kind = "index"
  /\ r.step \in {"first", "second", "respond"}
  /\ r.step = "second" /\ r.range # None => StoredOf(r.pair) # {}
  /\ r.step = "respond" /\ r.range # None => r.fields >= 1

RequestOK(r) == r = NoRequest \/ PageRequest(r) \/ IndexRequest(r)

\* An entry is no older than it may be, and was read when it was put there or shortly before.
EntryOK(e) ==
  /\ e.inserted \in 0 .. now /\ now <= e.inserted + TTL
  /\ e.key[1] \in Pairs
  /\ Complete(e.key[1], [start |-> e.key[2], stop |-> e.key[3]], e.records, e.inserted - MaxFetch)

CacheOK(entries) ==
  /\ IsFiniteSet(Items(entries)) /\ FitsIn(entries)
  /\ \A e \in entries : EntryOK(e)

PageOK(g) ==
  g # None => /\ g.pair \in Pairs /\ g.query \in Query
              /\ PinnedTo(g.query, g.range) /\ PinnedTo(g.query, g.fields)

\* The inductive invariant.
PagesInv ==
  /\ now \in Clock
  /\ stored \in [Pairs -> [Seconds -> Clock \cup {None}]]
  /\ DOMAIN cache = Workers /\ DOMAIN req = Workers
  /\ \A w \in Workers : CacheOK(cache[w]) /\ RequestOK(req[w])
  /\ PageOK(page)

-----------------------------------------------------------------------------
(* Ranges *)

\* Some numbers have a least one.
LEMMA Least ==
  ASSUME NEW T \in SUBSET Nat, T # {}
  PROVE  \E m \in T : \A n \in T : m <= n
<1> DEFINE less == OpToRel(<, Nat)
<1>1. IsWellFoundedOn(less, Nat)
  BY NatLessThanWellFounded
<1>2. \A x, y \in Nat : <<x, y>> \in less <=> x < y
  BY DEF OpToRel
<1> HIDE DEF less
<1>3. PICK x \in T : \A y \in T : <<y, x>> \notin less
  BY <1>1, WFMin
<1>4. \A y \in T : ~ (y < x)
  BY <1>2, <1>3, Zenon
<1> QED
  BY <1>4

\* The function that adds up the first n of some numbers.
LEMMA SumExists ==
  ASSUME NEW f, NEW n \in Nat
  PROVE  \E sum : sum = [k \in 0 .. n |-> IF k = 0 THEN 0 ELSE sum[k - 1] + f[k]]
<1> DEFINE IsSum(sum, m) == sum = [k \in 0 .. m |-> IF k = 0 THEN 0 ELSE sum[k - 1] + f[k]]
           bad == {m \in Nat : ~ \E sum : IsSum(sum, m)}
<1> SUFFICES ASSUME bad # {} PROVE FALSE
  OBVIOUS
<1>1. PICK m \in bad : \A k \in bad : m <= k
  BY Least
<1>2. m # 0
  <2>1. IsSum([k \in 0 .. 0 |-> 0], 0)
    OBVIOUS
  <2> QED
    BY <2>1
<1>3. m - 1 \in Nat /\ m - 1 \notin bad
  BY <1>1, <1>2
<1>4. PICK less : IsSum(less, m - 1)
  BY <1>3
<1> DEFINE sum == [k \in 0 .. m |-> IF k = m THEN less[m - 1] + f[m] ELSE less[k]]
<1>5. \A k \in 0 .. m - 1 : less[k] = IF k = 0 THEN 0 ELSE less[k - 1] + f[k]
  BY <1>4
<1>6. \A k \in 0 .. m : sum[k] = IF k = 0 THEN 0 ELSE sum[k - 1] + f[k]
  BY <1>2, <1>3, <1>5
<1>7. sum = [k \in 0 .. m |-> IF k = 0 THEN 0 ELSE sum[k - 1] + f[k]]
  BY <1>6
<1> HIDE DEF sum
<1> QED
  BY <1>7

\* A window has a length.
LEMMA DurationType ==
  ASSUME NEW window \in Windows
  PROVE  Duration(window) \in Nat
<1> DEFINE n == Len(window)
           f == [k \in 1 .. n |-> window[k][1] * UnitSeconds[window[k][2]]]
           sum == CHOOSE s : s = [k \in 0 .. n |-> IF k = 0 THEN 0
                                                   ELSE s[k - 1] + window[k][1] * UnitSeconds[window[k][2]]]
<1>1. n \in Nat /\ DOMAIN window = 1 .. n /\ \A k \in 1 .. n : window[k] \in Nat \X STRING
  BY FieldsAssumption
<1>2. CASE window = <<>> \/ \E i \in DOMAIN window : window[i][2] \notin DOMAIN UnitSeconds
  BY <1>2, NumbersAssumption DEF Duration
<1>3. CASE ~ (window = <<>> \/ \E i \in DOMAIN window : window[i][2] \notin DOMAIN UnitSeconds)
  <2>1. \A k \in 1 .. n : f[k] \in Nat /\ f[k] = window[k][1] * UnitSeconds[window[k][2]]
    BY <1>1, <1>3, FieldsAssumption
  <2>2. Duration(window) = sum[n]
    BY <1>3 DEF Duration
  <2>3. \E s : s = [k \in 0 .. n |-> IF k = 0 THEN 0
                                     ELSE s[k - 1] + window[k][1] * UnitSeconds[window[k][2]]]
    <3>1. PICK s : s = [k \in 0 .. n |-> IF k = 0 THEN 0 ELSE s[k - 1] + f[k]]
      BY <1>1, SumExists
    <3>2. [k \in 0 .. n |-> IF k = 0 THEN 0 ELSE s[k - 1] + f[k]]
            = [k \in 0 .. n |-> IF k = 0 THEN 0 ELSE s[k - 1] + window[k][1] * UnitSeconds[window[k][2]]]
      BY <1>1, <2>1
    <3> QED
      BY <3>1, <3>2
  <2>4. sum = [k \in 0 .. n |-> IF k = 0 THEN 0
                                ELSE sum[k - 1] + window[k][1] * UnitSeconds[window[k][2]]]
    BY <2>3
  <2> HIDE DEF f, sum
  <2> DEFINE bad == {k \in 0 .. n : sum[k] \notin Nat}
  <2> SUFFICES ASSUME bad # {} PROVE FALSE
    BY <1>1, <2>2
  <2>5. bad \in SUBSET Nat
    BY <1>1
  <2>6. PICK k \in bad : \A i \in bad : k <= i
    BY <2>5, Least
  <2>7. k # 0 /\ k \in 1 .. n
    BY <1>1, <2>4, <2>6
  <2>8. k - 1 \in 0 .. n /\ k - 1 \notin bad
    BY <1>1, <2>6, <2>7
  <2>9. sum[k] = sum[k - 1] + f[k]
    BY <1>1, <2>1, <2>4, <2>7
  <2> QED
    BY <2>1, <2>6, <2>7, <2>8, <2>9
<1> QED
  BY <1>2, <1>3

\* A query that pins the range: its bounds do it, whatever the clock says.
LEMMA PinnedBounds ==
  ASSUME NEW q \in Query, Pinned(q)
  PROVE  /\ Extents(q) = Bounded(q.start, q.stop) /\ Fields(q) = Extents(q)
         /\ Extents(q)' = Extents(q)
<1>1. Extents(q) = Bounded(q.start, q.stop)
  BY DEF Pinned, IsValid, Extents, Cleaned
<1>2. Extents(q)' = Bounded(q.start, q.stop)
  BY DEF Pinned, IsValid, Extents, Cleaned, Bounded, TimeExtents, WindowOf
<1>3. Fields(q) = Extents(q)
  BY DEF Pinned, Fields
<1> QED
  BY <1>1, <1>2, <1>3

LEMMA ExtentsType ==
  ASSUME NEW q \in Query, now \in Int
  PROVE  Extents(q) \in Ranges /\ Fields(q) \in Ranges
<1>1. \A seconds \in Nat : WindowOf(seconds) \in Ranges
  BY NumbersAssumption DEF WindowOf, TimeExtents, Ranges
<1>2. CASE q.window # None
  <2>1. Duration(q.window) \in Nat
    BY <1>2, DurationType DEF Query
  <2>2. Extents(q) = WindowOf(Duration(q.window))
    BY <1>2 DEF Extents
  <2> QED
    BY <1>1, <2>1, <2>2, NumbersAssumption DEF Fields
<1>3. CASE q.window = None
  <2> DEFINE start == Cleaned(q.start)
             stop == Cleaned(q.stop)
  <2>1. start \in Int \cup {None} /\ stop \in Int \cup {None}
    BY DEF Query, Cleaned
  <2>2. ~ (start = None /\ stop = None) => Bounded(start, stop) \in Ranges
    BY <2>1, NumbersAssumption, FieldsAssumption DEF Bounded, TimeExtents, Ranges
  <2>3. Extents(q) = IF start = None /\ stop = None THEN WindowOf(Default) ELSE Bounded(start, stop)
    BY <1>3 DEF Extents
  <2> QED
    BY <1>1, <2>2, <2>3, NumbersAssumption DEF Fields
<1> QED
  BY <1>2, <1>3

\* What a form of a query has, and what a page and an image have.
LEMMA ExtentsPinned ==
  ASSUME NEW q \in Query, now \in Int
  PROVE  PinnedTo(q, Extents(q)) /\ PinnedTo(q, Fields(q))
BY ExtentsType, PinnedBounds DEF PinnedTo

\* Whole seconds that are taken of a time are its seconds.
LEMMA SecondOfSecond ==
  ASSUME NEW t \in Int
  PROVE  Second(t) * Ticks \in Int /\ Second(Second(t) * Ticks) = Second(t)
<1>1. Ticks \in Nat \ {0}
  BY NumbersAssumption
<1>2. ASSUME NEW a \in Int, NEW b \in Nat \ {0}
      PROVE  a \div b \in Int /\ (a \div b) * b \in Int /\ ((a \div b) * b) \div b = a \div b
  BY <1>2, Z3
<1> QED
  BY <1>1, <1>2 DEF Second

-----------------------------------------------------------------------------
(* What time and other points leave true *)

\* Clocks, and what is stored.
LEMMA Stored ==
  ASSUME PagesInv, NEW p \in Pairs
  PROVE  /\ now \in Int /\ 0 <= now /\ now <= MaxTime /\ MaxTime \in Nat
         /\ \A r : StoredIn(p, r) \subseteq Seconds
         /\ \A r : \A s \in StoredIn(p, r) : stored[p][s] \in Int
<1>1. now \in Clock /\ stored[p] \in [Seconds -> Clock \cup {None}]
  BY DEF PagesInv
<1>2. \A s \in Seconds : stored[p][s] \in Clock \cup {None}
  BY <1>1
<1>3. Clock \subseteq Int /\ MaxTime \in Nat
  BY NumbersAssumption DEF Clock
<1> QED
  BY <1>1, <1>2, <1>3 DEF StoredIn, SecondsIn, Clock

\* Records that are complete up to a time are so up to an earlier one.
LEMMA CompleteEarlier ==
  ASSUME PagesInv, NEW p \in Pairs, NEW r, NEW recs, NEW t \in Int, NEW u \in Int, u <= t,
         Complete(p, r, recs, t)
  PROVE  Complete(p, r, recs, u)
<1>1. \A s \in StoredIn(p, r) : stored[p][s] \in Int
  BY Stored
<1> QED
  BY <1>1 DEF Complete

\* A query that pins its range does so at any time.
LEMMA PinnedStays ==
  ASSUME NEW q \in Query, NEW r, PinnedTo(q, r)
  PROVE  PinnedTo(q, r)'
BY PinnedBounds DEF PinnedTo, Pinned, IsValid

\* Time may pass, and points may be stored.
LEMMA CompleteStays ==
  ASSUME PagesInv, now' \in Int, now <= now', NEW p \in Pairs, NEW r, NEW recs, NEW t \in Int, t <= now,
         \A s \in Seconds : stored'[p][s] = stored[p][s] \/ (stored[p][s] = None /\ stored'[p][s] = now),
         Complete(p, r, recs, t)
  PROVE  Complete(p, r, recs, t)'
<1>1. now \in Int /\ StoredIn(p, r) \subseteq Seconds
  BY Stored
<1>2. UNCHANGED SecondsIn(r)
  BY DEF SecondsIn
<1>3. None # now
  BY <1>1, FieldsAssumption
<1>4. StoredIn(p, r) \subseteq StoredIn(p, r)' /\ StoredIn(p, r)' \subseteq Seconds
  BY <1>1, <1>2, <1>3 DEF StoredIn, SecondsIn
<1>5. ASSUME NEW s \in StoredIn(p, r)', s \notin recs
      PROVE  t <= stored'[p][s]
  <2>1. s \in Seconds
    BY <1>4
  <2>2. CASE stored'[p][s] = stored[p][s]
    <3>1. s \in StoredIn(p, r)
      BY <1>2, <2>1, <2>2, <1>5 DEF StoredIn
    <3> QED
      BY <1>5, <2>2, <3>1 DEF Complete
  <2>3. CASE stored'[p][s] = now
    BY <2>3
  <2> QED
    BY <2>1, <2>2, <2>3
<1>6. recs \subseteq StoredIn(p, r)'
  BY <1>4 DEF Complete
<1> QED
  BY <1>5, <1>6 DEF Complete

\* A request keeps what it has: one that waits for its query has time for it.
LEMMA RequestStays ==
  ASSUME PagesInv, now' \in Int, now <= now', NEW r, RequestOK(r),
         r.step \in {"query", "insert"} => now' <= r.since + MaxFetch,
         \A p \in Pairs, s \in Seconds :
           stored'[p][s] = stored[p][s] \/ (stored[p][s] = None /\ stored'[p][s] = now)
  PROVE  RequestOK(r)'
<1>0. UNCHANGED <<NoRequest, IsRequest(r)>>
  BY DEF NoRequest, IsRequest
<1>1. CASE r = NoRequest
  BY <1>0, <1>1 DEF RequestOK
<1>2. CASE PageRequest(r)
  <2>1. r.pair \in Pairs /\ r.query \in Query /\ now \in Int /\ 0 <= now /\ MaxFetch \in Nat /\ TTL \in Nat
    BY <1>2, Stored, NumbersAssumption DEF PageRequest, IsRequest
  <2>2. r.step = "insert" => Complete(r.pair, r.range, r.records, r.since)'
    <3> HAVE r.step = "insert"
    <3>1. r.since \in Int /\ r.since <= now /\ Complete(r.pair, r.range, r.records, r.since)
      BY <1>2, <2>1 DEF PageRequest
    <3> QED
      BY <2>1, <3>1, CompleteStays
  <2>3. r.step = "respond" => Complete(r.pair, r.range, r.records, r.since - TTL - MaxFetch)'
    <3> HAVE r.step = "respond"
    <3>1. r.since \in Int /\ r.since <= now /\ Complete(r.pair, r.range, r.records, r.since - TTL - MaxFetch)
      BY <1>2, <2>1 DEF PageRequest
    <3> DEFINE t == r.since - TTL - MaxFetch
    <3>2. t \in Int /\ t <= now
      BY <2>1, <3>1
    <3> HIDE DEF t
    <3>3. Complete(r.pair, r.range, r.records, t)'
      BY <2>1, <3>1, <3>2, CompleteStays DEF t
    <3> QED
      BY <3>3 DEF t
  <2>4. r.kind = "page" => PinnedTo(r.query, r.fields)'
    BY <1>2, <2>1, PinnedStays DEF PageRequest
  <2>5. r.step # "extents" => PinnedTo(r.query, r.range)'
    BY <1>2, <2>1, PinnedStays DEF PageRequest
  <2>6. r.like # None => Pinned(r.query)' /\ LikeRange(Extents(r.query), r.like)'
    <3> HAVE r.like # None
    <3>1. Pinned(r.query) /\ LikeRange(Extents(r.query), r.like)
      BY <1>2 DEF PageRequest
    <3>2. Pinned(r.query)' /\ Extents(r.query)' = Extents(r.query)
      BY <2>1, <3>1, PinnedBounds DEF Pinned, IsValid
    <3> QED
      BY <3>1, <3>2 DEF LikeRange, Second
  <2>7. r.step \in {"query", "insert", "respond"} => r.since \in 0 .. now'
    BY <1>2, <2>1 DEF PageRequest
  <2>8. PageRequest(r)'
    BY <1>0, <1>2, <2>2, <2>3, <2>4, <2>5, <2>6, <2>7 DEF PageRequest
  <2> QED
    BY <2>8 DEF RequestOK
<1>3. CASE IndexRequest(r)
  <2>1. r.pair \in Pairs /\ now \in Int
    BY <1>3, Stored DEF IndexRequest, IsRequest
  <2>2. StoredOf(r.pair) \subseteq StoredOf(r.pair)'
    BY <2>1, FieldsAssumption DEF StoredOf
  <2>3. IndexRequest(r)'
    BY <1>0, <1>3, <2>2 DEF IndexRequest
  <2> QED
    BY <2>3 DEF RequestOK
<1> QED
  BY <1>1, <1>2, <1>3 DEF RequestOK

LEMMA EntryStays ==
  ASSUME PagesInv, now' \in Int, now <= now', NEW e, EntryOK(e), now' <= e.inserted + TTL,
         \A p \in Pairs, s \in Seconds :
           stored'[p][s] = stored[p][s] \/ (stored[p][s] = None /\ stored'[p][s] = now)
  PROVE  EntryOK(e)'
<1> DEFINE p == e.key[1]
           t == e.inserted - MaxFetch
<1>1. p \in Pairs /\ now \in Int /\ 0 <= now /\ MaxFetch \in Nat /\ e.inserted \in 0 .. now
  BY Stored, NumbersAssumption DEF EntryOK
<1>2. t \in Int /\ t <= now /\ Complete(p, [start |-> e.key[2], stop |-> e.key[3]], e.records, t)
  BY <1>1 DEF EntryOK
<1>3. \A s \in Seconds : stored'[p][s] = stored[p][s] \/ (stored[p][s] = None /\ stored'[p][s] = now)
  BY <1>1
<1>4. e.inserted \in 0 .. now'
  BY <1>1
<1> HIDE DEF t, p
<1>5. Complete(p, [start |-> e.key[2], stop |-> e.key[3]], e.records, t)'
  BY <1>1, <1>2, <1>3, CompleteStays DEF p, t
<1> QED
  BY <1>1, <1>4, <1>5 DEF EntryOK, p, t

LEMMA PageStays ==
  ASSUME UNCHANGED page, PageOK(page)
  PROVE  PageOK(page)'
<1>1. page # None => page.query \in Query /\ PinnedTo(page.query, page.range)
                     /\ PinnedTo(page.query, page.fields)
  BY DEF PageOK
<1>2. \A q \in Query : \A r : PinnedTo(q, r) => PinnedTo(q, r)'
  BY PinnedStays
<1> QED
  BY <1>1, <1>2 DEF PageOK, Query

-----------------------------------------------------------------------------
(* The steps *)

\* Fewer entries take no more room.
LEMMA FitsFewer ==
  ASSUME NEW entries, NEW kept \in SUBSET entries, IsFiniteSet(Items(entries))
  PROVE  IsFiniteSet(Items(kept)) /\ (FitsIn(entries) => FitsIn(kept))
<1>1. Items(kept) \subseteq Items(entries)
  BY DEF Items
<1>2. /\ IsFiniteSet(Items(kept)) /\ Cardinality(Items(kept)) <= Cardinality(Items(entries))
      /\ Cardinality(Items(kept)) \in Nat /\ Cardinality(Items(entries)) \in Nat
  BY <1>1, FS_Subset, FS_CardinalityType
<1> QED
  BY <1>2, NumbersAssumption DEF FitsIn

LEMMA InitPages == Init => PagesInv
<1> SUFFICES ASSUME Init PROVE PagesInv
  OBVIOUS
<1>1. now \in Clock /\ stored \in [Pairs -> [Seconds -> Clock \cup {None}]]
  BY NumbersAssumption DEF Init, Clock
<1>2. Items({}) = {} /\ IsFiniteSet({}) /\ Cardinality({}) = 0
  BY FS_EmptySet DEF Items
<1>3. \A w \in Workers : CacheOK(cache[w]) /\ RequestOK(req[w])
  BY <1>2, NumbersAssumption DEF Init, CacheOK, FitsIn, RequestOK
<1> QED
  BY <1>1, <1>3 DEF Init, PagesInv, PageOK

LEMMA TickStep ==
  ASSUME PagesInv, Tick
  PROVE  PagesInv'
<1>1. now \in Clock /\ MaxTime \in Nat /\ now < MaxTime /\ now' = now + 1
  BY NumbersAssumption DEF PagesInv, Tick
<1>2. now' \in Clock /\ now' \in Int /\ now \in Int /\ now <= now'
  BY <1>1 DEF Clock
<1>3. /\ UNCHANGED <<stored, req, page>>
      /\ cache' = [w \in Workers |-> {e \in cache[w] : IsValidAt(e, now + 1)}]
      /\ \A w \in Workers : req[w].step \in {"query", "insert"} => now < req[w].since + MaxFetch
  BY DEF Tick
<1>4. ASSUME NEW w \in Workers
      PROVE  RequestOK(req[w])'
  <2>1. RequestOK(req[w]) /\ req'[w] = req[w]
    BY <1>3 DEF PagesInv
  <2>2. req[w].step \in {"query", "insert"} => now' <= req[w].since + MaxFetch
    <3> HAVE req[w].step \in {"query", "insert"}
    <3>1. PageRequest(req[w])
      BY <2>1 DEF RequestOK, NoRequest, IndexRequest
    <3>2. req[w].since \in Int /\ MaxFetch \in Nat
      BY <3>1, NumbersAssumption DEF PageRequest
    <3> QED
      BY <1>1, <1>2, <1>3, <3>2
  <2>3. \A r : r = req[w] => RequestOK(r)'
    BY <1>2, <1>3, <2>1, <2>2, RequestStays
  <2> QED
    BY <2>1, <2>3
<1>5. ASSUME NEW w \in Workers
      PROVE  CacheOK(cache[w])'
  <2>1. cache'[w] \subseteq cache[w] /\ \A e \in cache'[w] : IsValidAt(e, now')
    BY <1>1, <1>3
  <2>2. /\ IsFiniteSet(Items(cache[w])) /\ FitsIn(cache[w])
        /\ \A e \in cache[w] : EntryOK(e)
    BY DEF PagesInv, CacheOK
  <2>3. \A kept : kept \subseteq cache[w] => IsFiniteSet(Items(kept)) /\ FitsIn(kept)
    BY <2>2, FitsFewer
  <2>4. IsFiniteSet(Items(cache[w])') /\ FitsIn(cache[w])'
    BY <2>1, <2>3 DEF Items, FitsIn
  <2>5. \A e : EntryOK(e) /\ IsValidAt(e, now') => EntryOK(e)'
    BY <1>2, <1>3, EntryStays DEF IsValidAt
  <2> QED
    BY <2>1, <2>2, <2>4, <2>5 DEF CacheOK
<1> QED
  BY <1>2, <1>3, <1>4, <1>5, PageStays DEF PagesInv

LEMMA StoreStep ==
  ASSUME PagesInv, NEW p \in Pairs, NEW s \in Seconds, Store(p, s)
  PROVE  PagesInv'
<1>1. now \in Clock /\ now \in Int
  BY Stored DEF PagesInv
<1>2. /\ stored[p][s] = None /\ stored' = [stored EXCEPT ![p][s] = now]
      /\ UNCHANGED <<now, cache, req, page>>
  BY DEF Store
<1>3. stored' \in [Pairs -> [Seconds -> Clock \cup {None}]]
  BY <1>1, <1>2 DEF PagesInv
<1>4. \A k \in Pairs, u \in Seconds :
        stored'[k][u] = stored[k][u] \/ (stored[k][u] = None /\ stored'[k][u] = now)
  BY <1>2 DEF PagesInv
<1>5. ASSUME NEW w \in Workers
      PROVE  RequestOK(req[w])'
  <2>1. RequestOK(req[w]) /\ req'[w] = req[w]
    BY <1>2 DEF PagesInv
  <2>2. req[w].step \in {"query", "insert"} => now <= req[w].since + MaxFetch
    BY <2>1 DEF RequestOK, NoRequest, IndexRequest, PageRequest
  <2>3. \A r : r = req[w] => RequestOK(r)'
    BY <1>1, <1>2, <1>4, <2>1, <2>2, RequestStays
  <2> QED
    BY <2>1, <2>3
<1>6. ASSUME NEW w \in Workers
      PROVE  CacheOK(cache[w])'
  <2>1. CacheOK(cache[w]) /\ cache'[w] = cache[w]
    BY <1>2 DEF PagesInv
  <2>2. \A e : EntryOK(e) => EntryOK(e)'
    <3> SUFFICES ASSUME NEW e, EntryOK(e) PROVE EntryOK(e)'
      OBVIOUS
    <3>1. now' <= e.inserted + TTL
      BY <1>2 DEF EntryOK
    <3> QED
      BY <1>1, <1>2, <1>4, <3>1, EntryStays
  <2> QED
    BY <2>1, <2>2 DEF CacheOK, Items, FitsIn
<1> QED
  BY <1>1, <1>2, <1>3, <1>5, <1>6, PageStays DEF PagesInv

LEMMA RequestsStay ==
  ASSUME PagesInv, UNCHANGED <<now, stored>>
  PROVE  \A r : RequestOK(r) => RequestOK(r)'
<1> SUFFICES ASSUME NEW r, RequestOK(r) PROVE RequestOK(r)'
  OBVIOUS
<1>1. r.step \in {"query", "insert"} => now <= r.since + MaxFetch
  BY DEF RequestOK, NoRequest, IndexRequest, PageRequest
<1>2. now \in Int
  BY DEF PagesInv, Clock
<1> QED
  BY <1>1, <1>2, RequestStays

\* A process goes on with its request.
LEMMA GoesOn ==
  ASSUME PagesInv, NEW w \in Workers, NEW r, RequestOK(r), Goes(w, r), UNCHANGED <<now, stored>>,
         PageOK(page)', DOMAIN cache' = Workers, \A v \in Workers : CacheOK(cache[v])'
  PROVE  PagesInv'
<1>1. \A x : RequestOK(x) => RequestOK(x)'
  BY RequestsStay
<1>2. \A v \in Workers : req'[v] = (IF v = w THEN r ELSE req[v]) /\ RequestOK(req[v])
  BY DEF Goes, PagesInv
<1>3. \A v \in Workers : RequestOK(req[v])'
  BY <1>1, <1>2
<1>4. DOMAIN req' = Workers
  BY DEF Goes, PagesInv
<1> QED
  BY <1>3, <1>4 DEF PagesInv

LEMMA EntriesStay ==
  ASSUME UNCHANGED <<now, stored>>
  PROVE  \A e : EntryOK(e)' <=> EntryOK(e)
BY DEF EntryOK, Complete, StoredIn, SecondsIn

LEMMA CachesStay ==
  ASSUME PagesInv, UNCHANGED <<now, stored, cache>>
  PROVE  DOMAIN cache' = Workers /\ \A v \in Workers : CacheOK(cache[v])'
BY EntriesStay DEF PagesInv, CacheOK, Items, FitsIn

LEMMA Served ==
  ASSUME PagesInv, NEW w \in Workers, NEW r, RequestOK(r), Goes(w, r),
         UNCHANGED <<now, stored, cache, page>>
  PROVE  PagesInv'
<1>1. PageOK(page)'
  BY PageStays DEF PagesInv
<1> QED
  BY <1>1, CachesStay, GoesOn

\* A request for a page begins, and is for the range of another one where it says so.
LEMMA BeginsPageStep ==
  ASSUME PagesInv, NEW w \in Workers, NEW p \in Pairs, NEW q \in Query, NEW like,
         like # None => Pinned(q) /\ LikeRange(Extents(q), like), BeginsPage(w, p, q, like)
  PROVE  PagesInv'
<1> DEFINE r == Request("page", "extents", p, q, Fields(q), None, like)
<1>1. Goes(w, r) /\ UNCHANGED <<now, stored, cache, page>>
  BY DEF BeginsPage, Begins
<1>2. PinnedTo(q, Fields(q))
  BY ExtentsPinned DEF PagesInv, Clock
<1>3. IsRequest(r)
  BY DEF IsRequest, RequestFields, Request
<1>4. PageRequest(r)
  BY <1>2, <1>3 DEF PageRequest, Request
<1> HIDE DEF r
<1> QED
  BY <1>1, <1>4, Served DEF RequestOK

LEMMA AskPageStep ==
  ASSUME PagesInv, NEW w \in Workers, AskPage(w)
  PROVE  PagesInv'
<1>1. PICK p \in Pairs, q \in Queries : BeginsPage(w, p, q, None)
  BY DEF AskPage
<1>2. q \in Query
  BY QueriesAssumption
<1> QED
  BY <1>1, <1>2, BeginsPageStep

LEMMA FollowPermalinkStep ==
  ASSUME PagesInv, NEW w \in Workers, FollowPermalink(w)
  PROVE  PagesInv'
<1> DEFINE like == page.range
           q == [window |-> None, start |-> Second(like.start) * Ticks,
                 stop |-> Second(like.stop) * Ticks]
<1>1. page # None /\ BeginsPage(w, page.pair, q, like)
  BY DEF FollowPermalink
<1>2. page.pair \in Pairs /\ like.start \in Int /\ like.stop \in Int
  BY <1>1 DEF PagesInv, PageOK, PinnedTo, Ranges
<1>3. /\ q.start \in Int /\ Second(q.start) = Second(like.start)
      /\ q.stop \in Int /\ Second(q.stop) = Second(like.stop)
  BY <1>2, SecondOfSecond
<1>4. q \in Query /\ q.window = None
  BY <1>3 DEF Query
<1>5. Pinned(q) /\ q.start # None /\ q.stop # None
  BY <1>3, <1>4, FieldsAssumption DEF Pinned, IsValid
<1> HIDE DEF q, like
<1>6. Extents(q) = Bounded(q.start, q.stop)
  BY <1>4, <1>5, PinnedBounds
<1>7. LikeRange(Extents(q), like)
  BY <1>3, <1>5, <1>6 DEF LikeRange, Bounded, TimeExtents
<1> QED
  BY <1>1, <1>2, <1>4, <1>5, <1>7, BeginsPageStep

\* The range that a further request has in common with the page.
LEMMA CommonRange ==
  ASSUME PagesInv, page # None, Common # None
  PROVE  /\ page.query \in Query /\ Pinned(page.query)
         /\ Common = Extents(page.query)
         /\ page.fields = Extents(page.query)
BY DEF Common, PagesInv, PageOK, PinnedTo

LEMMA SubmitOptionsStep ==
  ASSUME PagesInv, NEW w \in Workers, SubmitOptions(w)
  PROVE  PagesInv'
<1> DEFINE q == [window |-> None, start |-> page.fields.start, stop |-> page.fields.stop]
<1>1. page # None /\ BeginsPage(w, page.pair, q, Common)
  BY DEF SubmitOptions
<1>2. page.pair \in Pairs /\ page.fields.start \in Int /\ page.fields.stop \in Int
  BY <1>1 DEF PagesInv, PageOK, PinnedTo, Ranges
<1>3. q \in Query /\ q.window = None /\ q.start = page.fields.start /\ q.stop = page.fields.stop
  BY <1>2 DEF Query
<1>4. Pinned(q) /\ q.start # None /\ q.stop # None
  BY <1>2, <1>3, FieldsAssumption DEF Pinned, IsValid
<1> HIDE DEF q
<1>5. Extents(q) = Bounded(q.start, q.stop)
  BY <1>3, <1>4, PinnedBounds
<1>6. Common # None => LikeRange(Extents(q), Common)
  BY <1>1, <1>3, <1>4, <1>5, CommonRange DEF LikeRange, Bounded, TimeExtents
<1> HIDE DEF Common
<1> QED
  BY <1>1, <1>2, <1>3, <1>4, <1>6, BeginsPageStep

LEMMA AskImageStep ==
  ASSUME PagesInv, NEW w \in Workers, AskImage(w)
  PROVE  PagesInv'
<1> DEFINE q == page.query
           r == Request("image", "fetch", page.pair, q, None, Extents(q), Common)
<1>1. page # None /\ Goes(w, r) /\ UNCHANGED <<now, stored, cache, page>>
  BY DEF AskImage, Begins
<1>2. page.pair \in Pairs /\ q \in Query
  BY <1>1 DEF PagesInv, PageOK
<1>3. PinnedTo(q, Extents(q))
  BY <1>2, ExtentsPinned DEF PagesInv, Clock
<1>4. Common # None => Pinned(q) /\ LikeRange(Extents(q), Common)
  BY <1>1, CommonRange DEF LikeRange
<1>5. IsRequest(r)
  BY <1>2 DEF IsRequest, RequestFields, Request
<1>6. PageRequest(r)
  BY <1>2, <1>3, <1>4, <1>5 DEF PageRequest, Request
<1> HIDE DEF r
<1> QED
  BY <1>1, <1>6, Served DEF RequestOK

LEMMA AskIndexStep ==
  ASSUME PagesInv, NEW w \in Workers, AskIndex(w)
  PROVE  PagesInv'
<1>1. PICK p \in Pairs : Begins(w, Request("index", "first", p, None, None, None, None))
  BY DEF AskIndex
<1> DEFINE r == Request("index", "first", p, None, None, None, None)
<1>2. IndexRequest(r)
  BY DEF IndexRequest, IsRequest, RequestFields, Request
<1>3. Goes(w, r) /\ UNCHANGED <<now, stored, cache, page>>
  BY <1>1 DEF Begins
<1> HIDE DEF r
<1> QED
  BY <1>2, <1>3, Served DEF RequestOK

\* A step of a page or an image is one of no other request.
LEMMA AtStep ==
  ASSUME PagesInv, NEW w \in Workers,
         req[w].step \in {"extents", "fetch", "query", "insert", "bare"}
  PROVE  PageRequest(req[w]) /\ IsRequest(req[w])
BY DEF PagesInv, RequestOK, NoRequest, IndexRequest, PageRequest

\* What no step changes of a request.
Same(q, r) == q.kind = r.kind /\ q.pair = r.pair /\ q.query = r.query /\ q.like = r.like

LEMMA PageExtentsStep ==
  ASSUME PagesInv, NEW w \in Workers, PageExtents(w)
  PROVE  PagesInv'
<1>1. req[w].step = "extents" /\ UNCHANGED <<now, stored, cache, page>>
  BY DEF PageExtents
<1>2. PICK step \in {"fetch", "bare"} :
        Goes(w, [req[w] EXCEPT !.step = step, !.range = Extents(req[w].query)])
  BY DEF PageExtents
<1>3. PageRequest(req[w]) /\ IsRequest(req[w])
  BY <1>1, AtStep
<1>4. PinnedTo(req[w].query, Extents(req[w].query))
  BY <1>3, ExtentsPinned DEF PagesInv, Clock, PageRequest
<1> DEFINE r == [req[w] EXCEPT !.step = step, !.range = Extents(req[w].query)]
<1>5. /\ IsRequest(r) /\ Same(r, req[w]) /\ r.step = step
      /\ r.fields = req[w].fields /\ r.range = Extents(req[w].query)
  BY <1>3 DEF IsRequest, RequestFields, Same
<1> HIDE DEF r
<1>6. PageRequest(r)
  BY <1>2, <1>3, <1>4, <1>5 DEF PageRequest, Same
<1>7. Goes(w, r)
  BY <1>2 DEF r
<1> QED
  BY <1>1, <1>6, <1>7, Served DEF RequestOK

LEMMA HitStep ==
  ASSUME PagesInv, NEW w \in Workers, Hit(w)
  PROVE  PagesInv'
<1>1. req[w].step = "fetch" /\ UNCHANGED <<now, stored, cache, page>>
  BY DEF Hit
<1>2. PICK e \in Hits(w) :
        Goes(w, [req[w] EXCEPT !.step = "respond", !.records = e.records, !.since = now])
  BY DEF Hit
<1>3. PageRequest(req[w]) /\ IsRequest(req[w])
  BY <1>1, AtStep
<1> DEFINE p == req[w].pair
           range == req[w].range
           r == [req[w] EXCEPT !.step = "respond", !.records = e.records, !.since = now]
<1>4. /\ IsRequest(r) /\ Same(r, req[w]) /\ r.step = "respond" /\ r.records = e.records
      /\ r.since = now /\ r.fields = req[w].fields /\ r.range = range
  BY <1>3 DEF IsRequest, RequestFields, Same
<1>5. now \in Int /\ 0 <= now /\ MaxFetch \in Nat /\ TTL \in Nat /\ p \in Pairs
  BY <1>3, NumbersAssumption DEF PagesInv, Clock, IsRequest
<1>6. EntryOK(e) /\ e.key = <<p, range.start, range.stop>>
  BY DEF Hits, Key, PagesInv, CacheOK
<1> DEFINE found == [start |-> e.key[2], stop |-> e.key[3]]
           t == e.inserted - MaxFetch
           u == now - TTL - MaxFetch
<1>7. /\ t \in Int /\ u \in Int /\ u <= t /\ Complete(p, found, e.records, t)
      /\ found.start = range.start /\ found.stop = range.stop
  BY <1>5, <1>6 DEF EntryOK
<1> HIDE DEF r, p, range, found, t, u
<1>8. StoredIn(p, found) = StoredIn(p, range)
  BY <1>7 DEF StoredIn, SecondsIn
<1>9. Complete(p, range, e.records, u)
  <2>1. Complete(p, found, e.records, u)
    BY <1>5, <1>7, CompleteEarlier
  <2> QED
    BY <1>8, <2>1 DEF Complete
<1>10. PageRequest(r)
  <2>1. Complete(r.pair, r.range, r.records, r.since - TTL - MaxFetch)
    BY <1>4, <1>9 DEF Same, p, range, u
  <2>2. r.since \in 0 .. now
    BY <1>4, <1>5
  <2>3. r.range = req[w].range
    BY <1>4 DEF range
  <2> QED
    BY <1>1, <1>3, <1>4, <2>1, <2>2, <2>3 DEF PageRequest, Same
<1>11. Goes(w, r)
  BY <1>2 DEF r
<1> QED
  BY <1>1, <1>10, <1>11, Served DEF RequestOK

LEMMA MissStep ==
  ASSUME PagesInv, NEW w \in Workers, Miss(w)
  PROVE  PagesInv'
<1> DEFINE r == [req[w] EXCEPT !.step = "query", !.since = now]
<1>1. req[w].step = "fetch" /\ Goes(w, r) /\ UNCHANGED <<now, stored, cache, page>>
  BY DEF Miss
<1>2. PageRequest(req[w]) /\ IsRequest(req[w])
  BY <1>1, AtStep
<1>3. /\ IsRequest(r) /\ Same(r, req[w]) /\ r.step = "query" /\ r.since = now
      /\ r.fields = req[w].fields /\ r.range = req[w].range
  BY <1>2 DEF IsRequest, RequestFields, Same
<1>4. now \in Int /\ 0 <= now /\ MaxFetch \in Nat
  BY NumbersAssumption DEF PagesInv, Clock
<1> HIDE DEF r
<1>5. PageRequest(r)
  BY <1>1, <1>2, <1>3, <1>4 DEF PageRequest, Same
<1> QED
  BY <1>1, <1>5, Served DEF RequestOK

LEMMA ReadRecordsStep ==
  ASSUME PagesInv, NEW w \in Workers, ReadRecords(w)
  PROVE  PagesInv'
<1> DEFINE recs == StoredIn(req[w].pair, req[w].range)
           r == [req[w] EXCEPT !.step = "insert", !.records = recs]
<1>1. req[w].step = "query" /\ Goes(w, r) /\ UNCHANGED <<now, stored, cache, page>>
  BY DEF ReadRecords
<1>2. PageRequest(req[w]) /\ IsRequest(req[w])
  BY <1>1, AtStep
<1>3. /\ IsRequest(r) /\ Same(r, req[w]) /\ r.step = "insert" /\ r.since = req[w].since
      /\ r.fields = req[w].fields /\ r.range = req[w].range /\ r.records = recs
  BY <1>2 DEF IsRequest, RequestFields, Same
<1> HIDE DEF r
<1>4. Complete(r.pair, r.range, r.records, r.since)
  BY <1>3 DEF Complete, Same
<1>5. PageRequest(r)
  BY <1>1, <1>2, <1>3, <1>4 DEF PageRequest, Same
<1> QED
  BY <1>1, <1>5, Served DEF RequestOK

LEMMA ReadFailsStep ==
  ASSUME PagesInv, NEW w \in Workers, ReadFails(w)
  PROVE  PagesInv'
<1> DEFINE r == [req[w] EXCEPT !.step = "bare", !.since = 0]
<1>1. /\ req[w].step = "query" /\ UNCHANGED <<now, stored, cache, page>>
      /\ Goes(w, IF req[w].kind = "page" THEN r ELSE NoRequest)
  BY DEF ReadFails
<1>2. PageRequest(req[w]) /\ IsRequest(req[w])
  BY <1>1, AtStep
<1>3. /\ IsRequest(r) /\ Same(r, req[w]) /\ r.step = "bare"
      /\ r.fields = req[w].fields /\ r.range = req[w].range
  BY <1>2 DEF IsRequest, RequestFields, Same
<1> HIDE DEF r
<1>4. PageRequest(r)
  BY <1>1, <1>2, <1>3 DEF PageRequest, Same
<1>5. RequestOK(r) /\ RequestOK(NoRequest)
  BY <1>4 DEF RequestOK
<1> QED
  BY <1>1, <1>5, Served

\* An entry is put in a cache that has room for it.
LEMMA EntryAdded ==
  ASSUME NEW entries, CacheOK(entries), NEW kept \in SUBSET entries,
         NEW e, EntryOK(e), FitsIn(kept \cup {e})
  PROVE  CacheOK(kept \cup {e})
<1>1. IsFiniteSet(Items(kept))
  BY FitsFewer DEF CacheOK
<1>2. IsFiniteSet(e.records)
  <2>1. Second(MaxTime) \in Int
    BY NumbersAssumption DEF Second
  <2>2. IsFiniteSet(Seconds)
    BY <2>1, FS_Interval DEF Seconds
  <2>3. e.records \subseteq Seconds
    BY DEF EntryOK, Complete, StoredIn, SecondsIn
  <2> QED
    BY <2>2, <2>3, FS_Subset
<1>3. IsFiniteSet({e} \X e.records)
  BY <1>2, FS_Singleton, FS_Product
<1>4. Items(kept \cup {e}) = Items(kept) \cup ({e} \X e.records)
  BY DEF Items
<1>5. IsFiniteSet(Items(kept \cup {e}))
  <2> DEFINE s == Items(kept)
             u == {e} \X e.records
  <2>1. IsFiniteSet(s) /\ IsFiniteSet(u) /\ Items(kept \cup {e}) = s \cup u
    BY <1>1, <1>3, <1>4
  <2> HIDE DEF s, u
  <2> QED
    BY <2>1, FS_Union
<1> QED
  BY <1>5 DEF CacheOK

LEMMA InsertStep ==
  ASSUME PagesInv, NEW w \in Workers, Insert(w)
  PROVE  PagesInv'
<1> DEFINE p == req[w].pair
           range == req[w].range
           r == [req[w] EXCEPT !.step = "respond", !.since = now]
           entry == [key |-> Key(p, range), inserted |-> now, records |-> req[w].records]
<1>1. req[w].step = "insert" /\ Goes(w, r) /\ UNCHANGED <<now, stored, page>>
  BY DEF Insert
<1>2. PageRequest(req[w]) /\ IsRequest(req[w])
  BY <1>1, AtStep
<1>3. /\ now \in Int /\ 0 <= now /\ MaxFetch \in Nat /\ TTL \in Nat /\ p \in Pairs
      /\ req[w].since \in 0 .. now /\ now <= req[w].since + MaxFetch
      /\ Complete(p, range, req[w].records, req[w].since)
  BY <1>1, <1>2, NumbersAssumption DEF PagesInv, Clock, IsRequest, PageRequest
<1>4. /\ IsRequest(r) /\ Same(r, req[w]) /\ r.step = "respond" /\ r.since = now
      /\ r.fields = req[w].fields /\ r.range = range /\ r.records = req[w].records
  BY <1>2 DEF IsRequest, RequestFields, Same
<1> DEFINE t == now - MaxFetch
           u == now - TTL - MaxFetch
<1>5. t \in Int /\ u \in Int /\ req[w].since \in Int /\ t <= req[w].since /\ u <= req[w].since
  BY <1>3
<1> HIDE DEF t, u
<1>6. Complete(p, range, req[w].records, t) /\ Complete(p, range, req[w].records, u)
  BY <1>3, <1>5, CompleteEarlier
<1>7. EntryOK(entry)
  <2> DEFINE key == [start |-> range.start, stop |-> range.stop]
  <2>1. StoredIn(p, key) = StoredIn(p, range)
    BY DEF StoredIn, SecondsIn
  <2>2. Complete(p, key, req[w].records, t)
    BY <1>6, <2>1 DEF Complete
  <2>3. entry.key[1] = p /\ entry.key[2] = range.start /\ entry.key[3] = range.stop
        /\ entry.inserted = now /\ entry.records = req[w].records
    BY DEF Key
  <2> HIDE DEF entry
  <2> QED
    BY <1>3, <2>2, <2>3 DEF EntryOK, t
<1>8. PageRequest(r)
  <2>1. Complete(r.pair, r.range, r.records, r.since - TTL - MaxFetch)
    BY <1>4, <1>6 DEF Same, u
  <2> HIDE DEF r
  <2> QED
    BY <1>1, <1>2, <1>3, <1>4, <2>1 DEF PageRequest, Same
<1>9. DOMAIN cache' = Workers /\ \A v \in Workers : CacheOK(cache[v])'
  <2>1. CASE UNCHANGED cache
    BY <1>1, <2>1, CachesStay
  <2>2. CASE \E kept \in SUBSET cache[w] :
               FitsIn(kept \cup {entry}) /\ cache' = [cache EXCEPT ![w] = kept \cup {entry}]
    <3> HIDE DEF entry
    <3>1. PICK kept \in SUBSET cache[w] :
               FitsIn(kept \cup {entry}) /\ cache' = [cache EXCEPT ![w] = kept \cup {entry}]
      BY <2>2
    <3>2. CacheOK(kept \cup {entry})
      BY <1>7, <3>1, EntryAdded DEF PagesInv
    <3>3. \A v \in Workers : CacheOK(cache'[v])
      BY <3>1, <3>2 DEF PagesInv
    <3>4. \A x : CacheOK(x)' <=> CacheOK(x)
      BY <1>1, EntriesStay DEF CacheOK, Items, FitsIn
    <3>5. DOMAIN cache' = Workers
      BY <3>1 DEF PagesInv
    <3> QED
      BY <3>3, <3>4, <3>5
  <2> QED
    BY <2>1, <2>2 DEF Insert
<1>10. PageOK(page)'
  BY <1>1, PageStays DEF PagesInv
<1> HIDE DEF r
<1> QED
  BY <1>1, <1>8, <1>9, <1>10, GoesOn DEF RequestOK

LEMMA RespondStep ==
  ASSUME PagesInv, NEW w \in Workers, Respond(w)
  PROVE  PagesInv'
<1>1. /\ req[w].step \in {"respond", "bare"} /\ Goes(w, NoRequest)
      /\ UNCHANGED <<now, stored, cache>>
      /\ page' = IF req[w].kind = "page"
                   THEN [pair |-> req[w].pair, query |-> req[w].query,
                         range |-> req[w].range, fields |-> req[w].fields]
                   ELSE page
  BY DEF Respond
<1>2. PageOK(page')
  <2>1. CASE req[w].kind = "page"
    <3>1. PageRequest(req[w])
      BY <1>1, <2>1 DEF PagesInv, RequestOK, NoRequest, IndexRequest
    <3>2. /\ req[w].pair \in Pairs /\ req[w].query \in Query
          /\ PinnedTo(req[w].query, req[w].range) /\ PinnedTo(req[w].query, req[w].fields)
      BY <1>1, <2>1, <3>1 DEF PageRequest, IsRequest
    <3> QED
      BY <1>1, <2>1, <3>2 DEF PageOK
  <2>2. CASE req[w].kind # "page"
    BY <1>1, <2>2 DEF PagesInv
  <2> QED
    BY <2>1, <2>2
<1>3. PageOK(page)'
  <2>1. \A q : Extents(q)' = Extents(q)
    BY <1>1 DEF Extents, Bounded, TimeExtents, WindowOf
  <2>2. \A q, x : PinnedTo(q, x)' <=> PinnedTo(q, x)
    BY <2>1 DEF PinnedTo, Pinned, IsValid
  <2> QED
    BY <1>2, <2>2 DEF PageOK, Query
<1> QED
  BY <1>1, <1>3, CachesStay, GoesOn DEF RequestOK

\* The points of a pair are finitely many: with one of them the count is not zero.
LEMMA SomeStored ==
  ASSUME NEW p \in Pairs
  PROVE  Cardinality(StoredOf(p)) \in Nat /\ (StoredOf(p) # {} => Cardinality(StoredOf(p)) >= 1)
<1>1. Second(MaxTime) \in Int
  BY NumbersAssumption DEF Second
<1>2. IsFiniteSet(Seconds)
  BY <1>1, FS_Interval DEF Seconds
<1>3. IsFiniteSet(StoredOf(p))
  BY <1>2, FS_Subset DEF StoredOf
<1>4. Cardinality(StoredOf(p)) \in Nat /\ (Cardinality(StoredOf(p)) = 0 <=> StoredOf(p) = {})
  BY <1>3, FS_CardinalityType, FS_EmptySet
<1> QED
  BY <1>4

LEMMA IndexStepKeeps ==
  ASSUME PagesInv, NEW w \in Workers, Index(w) \/ IndexFails(w)
  PROVE  PagesInv'
<1>1. CASE IndexStep(w, "first", "second") /\ req[w] # NoRequest
  <2>1. /\ req[w].kind = "index" /\ req[w].step = "first" /\ UNCHANGED <<now, stored, cache, page>>
    BY <1>1 DEF IndexStep
  <2>2. IndexRequest(req[w]) /\ IsRequest(req[w])
    BY <1>1, <2>1 DEF PagesInv, RequestOK, PageRequest, IndexRequest
  <2> DEFINE points == StoredOf(req[w].pair)
             r == [req[w] EXCEPT !.step = "second", !.range = IF points = {} THEN None ELSE Max(points)]
  <2>3. Goes(w, r)
    BY <1>1 DEF IndexStep, IndexQueries
  <2>4. /\ IsRequest(r) /\ Same(r, req[w]) /\ r.step = "second"
        /\ r.range = IF points = {} THEN None ELSE Max(points)
    BY <2>2 DEF IsRequest, RequestFields, Same
  <2> HIDE DEF r
  <2>5. IndexRequest(r)
    BY <2>1, <2>4 DEF IndexRequest, Same
  <2> QED
    BY <2>1, <2>3, <2>5, Served DEF RequestOK
<1>2. CASE IndexStep(w, "second", "respond") /\ req[w] # NoRequest
  <2>1. /\ req[w].kind = "index" /\ req[w].step = "second" /\ UNCHANGED <<now, stored, cache, page>>
    BY <1>2 DEF IndexStep
  <2>2. IndexRequest(req[w]) /\ IsRequest(req[w])
    BY <1>2, <2>1 DEF PagesInv, RequestOK, PageRequest, IndexRequest
  <2> DEFINE count == Cardinality(StoredOf(req[w].pair))
             r == [req[w] EXCEPT !.step = "respond", !.fields = count]
  <2>3. Goes(w, r)
    BY <1>2 DEF IndexStep, IndexQueries
  <2>4. /\ IsRequest(r) /\ Same(r, req[w]) /\ r.step = "respond"
        /\ r.fields = count /\ r.range = req[w].range
    BY <2>2 DEF IsRequest, RequestFields, Same
  <2>5. req[w].range # None => count >= 1
    BY <2>1, <2>2, SomeStored DEF IndexRequest, IsRequest
  <2> HIDE DEF r, count
  <2>6. IndexRequest(r)
    BY <2>1, <2>4, <2>5 DEF IndexRequest, Same
  <2> QED
    BY <2>1, <2>3, <2>6, Served DEF RequestOK
<1>3. CASE IndexFails(w)
  BY <1>3, Served DEF IndexFails, RequestOK
<1> QED
  BY <1>1, <1>2, <1>3 DEF Index

-----------------------------------------------------------------------------
(* The theorems *)

LEMMA NextPages == PagesInv /\ [Next]_vars => PagesInv'
<1> SUFFICES ASSUME PagesInv, [Next]_vars PROVE PagesInv'
  OBVIOUS
<1>1. CASE UNCHANGED vars
  <2>1. UNCHANGED <<now, stored, cache, req, page>>
    BY <1>1 DEF vars
  <2>2. \A w \in Workers : RequestOK(req[w])'
    BY <2>1, RequestsStay DEF PagesInv
  <2> QED
    BY <2>1, <2>2, CachesStay, PageStays DEF PagesInv
<1>2. CASE Tick
  BY <1>2, TickStep
<1>3. CASE \E p \in Pairs, s \in Seconds : Store(p, s)
  BY <1>3, StoreStep
<1>4. ASSUME NEW w \in Workers, Serve(w)
      PROVE  PagesInv'
  <2>1. CASE AskPage(w)
    BY <2>1, AskPageStep
  <2>2. CASE FollowPermalink(w)
    BY <2>2, FollowPermalinkStep
  <2>3. CASE SubmitOptions(w)
    BY <2>3, SubmitOptionsStep
  <2>4. CASE AskImage(w)
    BY <2>4, AskImageStep
  <2>5. CASE AskIndex(w)
    BY <2>5, AskIndexStep
  <2>6. CASE PageExtents(w)
    BY <2>6, PageExtentsStep
  <2>7. CASE Hit(w)
    BY <2>7, HitStep
  <2>8. CASE Miss(w)
    BY <2>8, MissStep
  <2>9. CASE ReadRecords(w)
    BY <2>9, ReadRecordsStep
  <2>10. CASE ReadFails(w)
    BY <2>10, ReadFailsStep
  <2>11. CASE Insert(w)
    BY <2>11, InsertStep
  <2>12. CASE Respond(w)
    BY <2>12, RespondStep
  <2>13. CASE Index(w) \/ IndexFails(w)
    BY <2>13, IndexStepKeeps
  <2> QED
    BY <1>4, <2>1, <2>2, <2>3, <2>4, <2>5, <2>6, <2>7, <2>8, <2>9, <2>10, <2>11, <2>12, <2>13
       DEF Serve
<1> QED
  BY <1>1, <1>2, <1>3, <1>4 DEF Next

\* The inductive invariant of the pages: every request has the range its query
\* pins, and records as complete as their source allows (views.py, forms.py,
\* database_influxdb.py:107).
THEOREM PagesInvariant == Spec => []PagesInv
<1> QED
  BY InitPages, NextPages, PTL DEF Spec

\* Types; and no cache holds an entry past its time, or more than it has room for.
THEOREM TypeCorrect == Spec => []TypeOK
<1>1. PagesInv => TypeOK
  <2> SUFFICES ASSUME PagesInv PROVE TypeOK
    OBVIOUS
  <2>1. \A p \in Pairs, s \in Seconds : stored[p][s] \in Clock \cup {None}
    BY DEF PagesInv
  <2>2. ASSUME NEW w \in Workers
        PROVE  /\ FitsIn(cache[w])
               /\ \A e \in cache[w] : now - e.inserted \in 0 .. TTL /\ e.records \subseteq Seconds
    <3>1. CacheOK(cache[w]) /\ now \in Int /\ TTL \in Nat
      BY NumbersAssumption DEF PagesInv, Clock
    <3>2. ASSUME NEW e \in cache[w]
          PROVE  now - e.inserted \in 0 .. TTL /\ e.records \subseteq Seconds
      BY <3>1 DEF CacheOK, EntryOK, Complete, StoredIn, SecondsIn
    <3> QED
      BY <3>1, <3>2 DEF CacheOK
  <2> QED
    BY <2>1, <2>2 DEF TypeOK, PagesInv, PageOK
<1> QED
  BY <1>1, PagesInvariant, PTL

\* A page or an image lacks no point that was stored longer ago than an entry
\* lives and a query takes, for any cache (database_influxdb.py:107).
THEOREM AlwaysFresh == Spec => []Fresh
<1>1. PagesInv => Fresh
  <2> SUFFICES ASSUME PagesInv, NEW w \in Workers, Shown(w)
               PROVE  LET p == req[w].pair IN
                        /\ req[w].records \subseteq StoredIn(p, req[w].range)
                        /\ \A s \in StoredIn(p, req[w].range) :
                             stored[p][s] + TTL + MaxFetch < req[w].since => s \in req[w].records
    BY DEF Fresh
  <2>1. PageRequest(req[w]) /\ req[w].step = "respond"
    BY DEF Shown, PagesInv, RequestOK, NoRequest, IndexRequest
  <2> DEFINE p == req[w].pair
             range == req[w].range
  <2>2. /\ p \in Pairs /\ req[w].since \in Int /\ TTL \in Nat /\ MaxFetch \in Nat
        /\ Complete(p, range, req[w].records, req[w].since - TTL - MaxFetch)
    BY <2>1, NumbersAssumption DEF PageRequest, IsRequest, PagesInv, Clock
  <2>3. \A s \in StoredIn(p, range) : stored[p][s] \in Int
    BY <2>2, Stored
  <2> HIDE DEF p, range
  <2>4. /\ req[w].records \subseteq StoredIn(p, range)
        /\ \A s \in StoredIn(p, range) :
             stored[p][s] + TTL + MaxFetch < req[w].since => s \in req[w].records
    BY <2>2, <2>3 DEF Complete
  <2> QED
    BY <2>4 DEF p, range
<1> QED
  BY <1>1, PagesInvariant, PTL

\* An image, a permalink and an options form of a query that pins its range have
\* the seconds of their page, at any later time (views.py:57, 128; forms.py:20).
THEOREM AlwaysSameSeconds == Spec => []SameSeconds
<1>1. PagesInv => SameSeconds
  <2> SUFFICES ASSUME PagesInv, NEW w \in Workers, Shown(w), req[w].like # None
               PROVE  LikeRange(req[w].range, req[w].like)
    BY DEF SameSeconds, LikeRange
  <2>1. PageRequest(req[w]) /\ req[w].step = "respond"
    BY DEF Shown, PagesInv, RequestOK, NoRequest, IndexRequest
  <2> QED
    BY <2>1 DEF PageRequest, PinnedTo
<1> QED
  BY <1>1, PagesInvariant, PTL

\* The dashboard shows no time of a last poll beside a count of none (views.py:40).
THEOREM IndexAlwaysAgrees == Spec => []IndexAgrees
<1>1. PagesInv => IndexAgrees
  BY DEF PagesInv, RequestOK, NoRequest, PageRequest, IndexRequest, IndexAgrees
<1> QED
  BY <1>1, PagesInvariant, PTL
=============================================================================
