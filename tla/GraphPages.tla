------------------------------ MODULE GraphPages ------------------------------
(***************************************************************************)
(* The pages of the web application that show what was measured: the       *)
(* dashboard, the graph pages and the images they embed (pingweb/views.py, *)
(* forms.py, misc.py), and the queries behind them with their cache        *)
(* (database_influxdb.py).                                                 *)
(*                                                                         *)
(* The web server runs several processes (Dockerfile, gunicorn -w 4), each *)
(* with a cache of its own; a browser's requests go to any of them.  Time  *)
(* is counted in ticks, fractions of a second: datetime.now() has them,    *)
(* the query of the time series database is cut to seconds.  A time zone   *)
(* tells the times of a form from those of the clock: no key of the cache  *)
(* made from one equals a key made from the other, and no two times of the *)
(* clock are equal.  So only ranges that the query pins are found again.   *)
(***************************************************************************)
EXTENDS Integers, Sequences, FiniteSets, FiniteSetsExt

CONSTANTS
  Workers,      \* processes of the web server
  Pairs,        \* the source-destination pairs there are
  Ticks,        \* of a second
  TTL,          \* how long an entry of the cache is valid
  MaxRecords,   \* that a cache has room for
  MaxFetch,     \* how long a query takes at most (a model bound)
  MaxTime,      \* the clock stops here (a model bound)
  Default,      \* default time window of get_time_extents_from_params
  Hour,         \* the window of a form that is not valid
  UnitSeconds,  \* letters_to_seconds
  Windows,      \* windows: sequences of a number and a letter
  Queries,      \* queries asked for, other than by a page (a model bound)
  None,         \* a field that is left blank
  Invalid       \* one that is no time

ASSUME NumbersAssumption ==
  /\ Ticks \in Nat \ {0} /\ TTL \in Nat /\ MaxRecords \in Nat /\ MaxFetch \in Nat /\ MaxTime \in Nat
  /\ Default \in Nat /\ Hour \in Nat

\* The form has numbers, of seconds or of units, where a field is not one of these.
ASSUME FieldsAssumption ==
  /\ None \notin Int /\ Invalid \notin Int /\ None # Invalid
  /\ \A window \in Windows : window \in Seq(Nat \X STRING)
  /\ \A letter \in DOMAIN UnitSeconds : UnitSeconds[letter] \in Nat

VARIABLES
  now,      \* the clock
  stored,   \* when the point of a second was stored, None if it was not
  cache,    \* the entries of the cache of each process
  req,      \* what each process does
  page      \* the graph page a browser shows

vars == <<now, stored, cache, req, page>>

Clock == 0 .. MaxTime
Second(t) == t \div Ticks
Seconds == 0 .. Second(MaxTime)

-----------------------------------------------------------------------------
(* The form and the range it asks for *)

Query == [window : Windows \cup {None}, start : Int \cup {None, Invalid},
          stop : Int \cup {None, Invalid}]

ASSUME QueriesAssumption == Queries \subseteq Query

IsValid(q) == q.start # Invalid /\ q.stop # Invalid

\* cleaned_data has no value for a field that is not valid.
Cleaned(t) == IF t = Invalid THEN None ELSE t

\* duration_string_to_seconds: the parts are added up; without a part, or with
\* a letter that stands for nothing, it raises, and the default is taken.
Duration(window) ==
  IF window = <<>> \/ \E i \in DOMAIN window : window[i][2] \notin DOMAIN UnitSeconds
    THEN Default
    ELSE LET sum[k \in 0 .. Len(window)] ==
               IF k = 0 THEN 0 ELSE sum[k - 1] + window[k][1] * UnitSeconds[window[k][2]]
         IN  sum[Len(window)]

TimeExtents(start, stop, pinned) == [start |-> start, stop |-> stop, pinned |-> pinned]

\* A window that ends now.
WindowOf(seconds) == TimeExtents(now - seconds * Ticks, now, FALSE)

\* (mutant: the other bound is taken from the clock)
BoundedNow(start, stop) ==
  TimeExtents(IF start = None THEN now - Default * Ticks ELSE start,
        IF stop = None THEN now ELSE stop, TRUE)

\* One bound is enough to pin a range.
Bounded(start, stop) ==
  TimeExtents(IF start = None THEN stop - Default * Ticks ELSE start,
        IF stop = None THEN start + Default * Ticks ELSE stop, TRUE)

\* get_time_extents_from_params
Extents(q) ==
  LET start == Cleaned(q.start)
      stop == Cleaned(q.stop)
  IN  IF q.window # None THEN WindowOf(Duration(q.window))
      ELSE IF start = None /\ stop = None THEN WindowOf(Default)
      ELSE Bounded(start, stop)

\* prepare_form_from_get: what the fields of the options form are set to.
Fields(q) == IF IsValid(q) THEN Extents(q) ELSE WindowOf(Hour)

\* A query that has its range from its own bounds, on the page and in the image.
Pinned(q) == IsValid(q) /\ q.window = None /\ (q.start # None \/ q.stop # None)

-----------------------------------------------------------------------------
(* What is stored *)

SecondsIn(r) == {s \in Seconds : Second(r.start) <= s /\ s <= Second(r.stop)}

StoredIn(p, r) == {s \in SecondsIn(r) : stored[p][s] # None}

NoRequest == [step |-> "idle"]

Request(kind, step, p, q, fields, range, like) ==
  [step |-> step, kind |-> kind, pair |-> p, query |-> q, fields |-> fields,
   range |-> range, like |-> like, records |-> {}, since |-> 0]

Goes(w, r) == req' = [req EXCEPT ![w] = r]

Init ==
  /\ now = 0
  /\ stored = [p \in Pairs |-> [s \in Seconds |-> None]]
  /\ cache = [w \in Workers |-> {}]
  /\ req = [w \in Workers |-> NoRequest]
  /\ page = None

\* (mutant: entries are valid for ever)
AlwaysValid(e, t) == TRUE

IsValidAt(e, t) == t <= e.inserted + TTL

\* Time passes: entries expire, and a query is answered in time.
Tick ==
  /\ now < MaxTime
  /\ \A w \in Workers : req[w].step \in {"query", "insert"} => now < req[w].since + MaxFetch
  /\ now' = now + 1
  /\ cache' = [w \in Workers |-> {e \in cache[w] : IsValidAt(e, now + 1)}]
  /\ UNCHANGED <<stored, req, page>>

\* The collector's writer stores a point, sooner or later.
Store(p, s) ==
  /\ s <= Second(now) /\ stored[p][s] = None
  /\ stored' = [stored EXCEPT ![p][s] = now]
  /\ UNCHANGED <<now, cache, req, page>>

-----------------------------------------------------------------------------
(* Requests; "like" is the range the browser shows already, where the request  *)
(* is for the same.  An id of no pair raises, and an image whose form is not    *)
(* valid answers the errors: neither changes anything.                          *)

Begins(w, r) ==
  /\ req[w] = NoRequest
  /\ Goes(w, r)
  /\ UNCHANGED <<now, stored, cache, page>>

\* graph_page: the fields of the form ...
BeginsPage(w, p, q, like) ==
  Begins(w, Request("page", "extents", p, q, Fields(q), None, like))

\* A browser asks for a page.
AskPage(w) == \E p \in Pairs, q \in Queries : BeginsPage(w, p, q, None)

\* "Permalink to this graph" has the times of the page, to the second.
FollowPermalink(w) ==
  /\ page # None
  /\ BeginsPage(w, page.pair,
                [window |-> None, start |-> Second(page.range.start) * Ticks,
                 stop |-> Second(page.range.stop) * Ticks],
                page.range)

\* The range that further requests of a page have in common with it.
Common == IF Pinned(page.query) THEN page.range ELSE None

\* The options form sends its fields; the window is not among them.
SubmitOptions(w) ==
  /\ page # None
  /\ BeginsPage(w, page.pair,
                [window |-> None, start |-> page.fields.start, stop |-> page.fields.stop],
                Common)

\* graph_image: the image has the query of its page, and a range of its own.
AskImage(w) ==
  /\ page # None /\ IsValid(page.query)
  /\ Begins(w, Request("image", "fetch", page.pair, page.query, None,
                       Extents(page.query), Common))

AskIndex(w) ==
  \E p \in Pairs : Begins(w, Request("index", "first", p, None, None, None, None))

\* ... and, at another time of the clock, the range of its records.  The page
\* with the images of several pairs, multigraph_page, has no records itself.
PageExtents(w) ==
  /\ req[w].step = "extents"
  /\ \E step \in {"fetch", "bare"} :
       Goes(w, [req[w] EXCEPT !.step = step, !.range = Extents(req[w].query)])
  /\ UNCHANGED <<now, stored, cache, page>>

-----------------------------------------------------------------------------
(* get_poll_data_by_id, a cachedmethod *)

\* (mutant: the end is left out of the key)
KeyOfStart(p, r) == <<p, r.start>>

\* The arguments are the key.
Key(p, r) == <<p, r.start, r.stop>>

Hits(w) == {e \in cache[w] : req[w].range.pinned
                               /\ e.key = Key(req[w].pair, req[w].range)}

Hit(w) ==
  /\ req[w].step = "fetch"
  /\ \E e \in Hits(w) : Goes(w, [req[w] EXCEPT !.step = "respond", !.records = e.records,
                                                 !.since = now])
  /\ UNCHANGED <<now, stored, cache, page>>

Miss(w) ==
  /\ req[w].step = "fetch" /\ Hits(w) = {}
  /\ Goes(w, [req[w] EXCEPT !.step = "query", !.since = now])
  /\ UNCHANGED <<now, stored, cache, page>>

\* read_records
ReadRecords(w) ==
  /\ req[w].step = "query"
  /\ Goes(w, [req[w] EXCEPT !.step = "insert", !.records = StoredIn(req[w].pair, req[w].range)])
  /\ UNCHANGED <<now, stored, cache, page>>

\* The database cannot be reached: a page shows the error and no records, an
\* image raises; nothing is cached.
ReadFails(w) ==
  /\ req[w].step = "query"
  /\ Goes(w, IF req[w].kind = "page" THEN [req[w] EXCEPT !.step = "bare", !.since = 0] ELSE NoRequest)
  /\ UNCHANGED <<now, stored, cache, page>>

\* The cache counts records: an entry without any takes no room.
Items(entries) == UNION {{e} \X e.records : e \in entries}

FitsIn(entries) == Cardinality(Items(entries)) <= MaxRecords

\* The result is kept; where there is no room for it, other entries are dropped.
\* One with more records than the cache has room for is not kept.
Insert(w) ==
  /\ req[w].step = "insert"
  /\ IF req[w].range.pinned
       THEN LET entry == [key |-> Key(req[w].pair, req[w].range), inserted |-> now,
                          records |-> req[w].records]
            IN  IF FitsIn({entry})
                  THEN \E kept \in SUBSET cache[w] :
                         /\ FitsIn(kept \cup {entry})
                         /\ FitsIn(cache[w] \cup {entry}) => kept = cache[w]
                         /\ cache' = [cache EXCEPT ![w] = kept \cup {entry}]
                  ELSE UNCHANGED cache
       ELSE UNCHANGED cache
  /\ Goes(w, [req[w] EXCEPT !.step = "respond", !.since = now])
  /\ UNCHANGED <<now, stored, page>>

Respond(w) ==
  /\ req[w].step \in {"respond", "bare"}
  /\ page' = IF req[w].kind = "page"
               THEN [pair |-> req[w].pair, query |-> req[w].query,
                     range |-> req[w].range, fields |-> req[w].fields]
               ELSE page
  /\ Goes(w, NoRequest)
  /\ UNCHANGED <<now, stored, cache>>

-----------------------------------------------------------------------------
(* index *)

StoredOf(p) == {s \in Seconds : stored[p][s] # None}

\* (mutant: the polls are counted first)
CountedFirst == <<"count", "last">>

\* The queries of the dashboard for a pair, in their order.
IndexQueries == <<"last", "count">>

\* last_poll_time_by_pair and get_poll_counts_by_pair
IndexStep(w, step, next) ==
  /\ req[w].kind = "index" /\ req[w].step = step
  /\ LET query == IndexQueries[IF step = "first" THEN 1 ELSE 2]
         points == StoredOf(req[w].pair)
     IN  IF query = "last"
           THEN Goes(w, [req[w] EXCEPT !.step = next,
                                       !.range = IF points = {} THEN None ELSE Max(points)])
           ELSE Goes(w, [req[w] EXCEPT !.step = next, !.fields = Cardinality(points)])
  /\ UNCHANGED <<now, stored, cache, page>>

Index(w) ==
  req[w] # NoRequest /\ (IndexStep(w, "first", "second") \/ IndexStep(w, "second", "respond"))

\* The loop ends with the error; the pairs left have neither.
IndexFails(w) ==
  /\ req[w] # NoRequest /\ req[w].kind = "index" /\ req[w].step \in {"first", "second"}
  /\ Goes(w, NoRequest)
  /\ UNCHANGED <<now, stored, cache, page>>

-----------------------------------------------------------------------------
Serve(w) ==
  \/ AskPage(w) \/ FollowPermalink(w) \/ SubmitOptions(w) \/ AskImage(w) \/ AskIndex(w)
  \/ PageExtents(w)
  \/ Hit(w) \/ Miss(w) \/ ReadRecords(w) \/ ReadFails(w) \/ Insert(w)
  \/ Respond(w) \/ Index(w) \/ IndexFails(w)

Next ==
  \/ Tick
  \/ \E p \in Pairs, s \in Seconds : Store(p, s)
  \/ \E w \in Workers : Serve(w)

Spec == Init /\ [][Next]_vars

-----------------------------------------------------------------------------
(* Properties *)

Shown(w) == req[w].step = "respond" /\ req[w].kind # "index"

TypeOK ==
  /\ now \in Clock
  /\ \A p \in Pairs, s \in Seconds : stored[p][s] \in Clock \cup {None}
  /\ \A w \in Workers : FitsIn(cache[w])
  /\ \A w \in Workers : \A e \in cache[w] :
       now - e.inserted \in 0 .. TTL /\ e.records \subseteq Seconds
  /\ page # None => page.pair \in Pairs /\ page.query \in Query

\* A page or an image lacks no point that was stored longer before it got its
\* records than an entry lives and a query takes, and shows none that is not in
\* its range or was not stored, whatever the process had in its cache
\* (database_influxdb.py:107).
Fresh ==
  \A w \in Workers : Shown(w) =>
    LET p == req[w].pair IN
      /\ req[w].records \subseteq StoredIn(p, req[w].range)
      /\ \A s \in StoredIn(p, req[w].range) :
           stored[p][s] + TTL + MaxFetch < req[w].since => s \in req[w].records

\* The image of a page whose query pins the range, its permalink and, for such
\* a query, its options form lead to the seconds of the page, however much
\* later the request is worked on: each computes its range again
\* (views.py:57, views.py:128, forms.py:20).
SameSeconds ==
  \A w \in Workers : Shown(w) /\ req[w].like # None =>
    /\ Second(req[w].range.start) = Second(req[w].like.start)
    /\ Second(req[w].range.stop) = Second(req[w].like.stop)

\* A pair with a time of its last poll on the dashboard has polls there: the time
\* is queried before the count, and the writer stores meanwhile (views.py:40).
IndexAgrees ==
  \A w \in Workers :
    req[w].step = "respond" /\ req[w].kind = "index" /\ req[w].range # None =>
      req[w].fields >= 1
=============================================================================
