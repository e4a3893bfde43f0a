# ping-server in TLA+

A verification development for ping-server: a program that pings targets once a
second from any number of probers, collects the results over websockets, stores
them in a time series database and shows graphs of them. The specifications are
written from the code under `src/`; where they say `probe.py:104` they mean line
104 of `src/probe.py`.

Contents: [the system](#the-system) · [modules](#modules) ·
[code and model](#code-and-model) · [runs](#runs) · [fairness](#fairness) ·
[proofs](#proofs) · [findings](#findings) ·
[what is left out](#what-is-left-out)

## The system

```
            prober (probe.py)                      collector (server.py)
 Pinger thread --queue--> transmit_results ==ws==> handle_client --write_queue--> Writer thread
 (pinger.py)              requeue_stale_messages       |   ^                      (writer.py)
      ^                   receive_messages  <==ws== output_ack, target_list          |
      +-- set_destinations --+                 check_server_messages                 v
                                                       ^                          InfluxDB
                         web application --CollectorMessage, targets (SQL)           |
                         (pingweb/)  <----------------- records, statistics ---------+
```

| component | state | operations | what makes it hard |
|---|---|---|---|
| Prober event loop, `probe.py` | `results_queue`, `unconfirmed_list`, the websocket, three tasks that each keep the websocket they were started with | connect and supervise (45-81), `transmit_results` (84-108), `receive_messages` (121-145), `requeue_stale_messages` (148-167), `shutdown` (170-189) | coroutines interleave at every await; tasks outlive their connection; a cutoff computed before a sleep is used after it; acks are late or lost |
| Pinger thread, `pinger.py` | `destinations`, `seq_number`, the tally of a round | a round: `send_one_ping`, `receive_pings`, `handle_output`; `set_destinations` and `stop` from the event loop; `calculate_checksum` | runs beside the event loop, without a lock; replies are lost, late, repeated; 16-bit numbers |
| Collector server, `server.py` | `clients`, one coroutine per connection | `handle_auth_message`, `send_target_list`, `handle_output_message`, disconnection | database lookups are awaits between a check and its use; cleanup by name |
| Notifier, `server.py:199-226` | position in its loop over `clients` | poll messages, send every client its targets | the dictionary changes under the loop |
| Writer thread, `writer.py` | `write_queue` | store one message after the other, point by point | in memory only; nothing catches an exception |
| Configuration database, `pingweb/models.py` | probers, groups, targets, pairs, messages | `get_unique_targets`, `get_unread_messages` | every operation is several queries |
| Web application, `pingweb/` | none of its own | forms, deletions, dashboard, graph pages and images, `update_prober_targets` | several processes, concurrent with each other and with the collector; a page and its image are two requests |
| Time series access, `database_influxdb.py` | caches of pairs and of query results; points keyed by tags and second | `record_poll_data`, `src_dst_id`, `get_poll_data_by_id`, `calculate_statistics` | partial failure, stale caches, overwritten points |
| Graphs, `graphing.py` | none | `reduce_data_points`, the figure | bucket arithmetic |
| Binary data files, `datafile.py`, `database.py` | ring file: header, data area | create, open, `record_datum`, `write_all_records`, readers; latencies in two bytes | record and header are two writes; readers run beside the writer; rounding |

What makes each of them correct:

- **Delivery** (prober, websocket, collector, writer): a result the pinger made
  reaches the database. The prober never holds it twice, never forgets it
  before the collector has accepted it, except for the one message a lost
  connection can cost, and does not send it again before it is late.
- **Pinger**: a round reports each address as often as the list names it, as
  answered or timed out; an answer counts in its own round only; a new target
  list takes effect; the checksum of a request verifies where it arrives.
- **Registry and notifier**: connected probers are in `clients` and leave it
  when they disconnect; a change of the targets reaches every connected prober;
  no prober gets an older list after a newer one.
- **Configuration**: a form leaves what was chosen on it; a list that is read with
  several queries misses no target that was there all the time; after the button
  the probers have what is configured.
- **History**: what is stored is what was reported, and every stored point is
  reached by one pair of the web pages.
- **Pages**: no page is older than the cache allows; a page, its image, its
  permalink and its form are about the same seconds; statistics, figure and
  buckets agree.
- **Data file**: the last `max_records` records are in the file, in order,
  whenever the writer ends; a concurrent reader gets these but for the ones that
  were overwritten while it read; a time range is read exactly; a latency comes
  back to within half a step.

## Modules

| module | what it is |
|---|---|
| `DeliveryPromise` | abstract: what prober and collector promise about results together |
| `ResultDelivery` | one prober, its connections, the collector's sessions, queue and writer, with faults; implements `DeliveryPromise` |
| `Pinger` | the Pinger thread, the target lists it is given, the network of echo requests and replies |
| `Checksum` | the checksum of an echo request, and its verification by the receiver |
| `Collector` | the collector with several probers: registry, sessions, worker thread of the ORM, notifier, web server |
| `Configuration` | rows and links of probers, targets and groups, the forms that write them statement by statement, and the collector's read of one prober's list |
| `History` | the writer with the queries, caches and failures behind one point; web edits of probers |
| `GraphPages` | dashboard, pages and images; the time ranges of forms; the cached query |
| `Figures` | statistics, figure and buckets of a list of records |
| `BoundedLog` | abstract: what a data file promises |
| `Datafile` | the ring file, a writer that may crash, a concurrent reader; implements `BoundedLog` |
| `Latency` | the encoding of a latency in a record, as operators |
| `*_proofs` | proofs about `ResultDelivery`, `Pinger` (with `Checksum`), `Collector`, `Configuration`, `History`, `Datafile` (with `Latency`), `Figures` and `GraphPages` |
| `MC*` | constants for the model checker |

How they meet. An `output` of `Pinger` is a result of `ResultDelivery`, and what
`ResultDelivery`'s writer stores at once is a message `History` takes apart.
`ResultDelivery` and `Collector` are two views of the same `handle_client`: the
first has one prober, every fault of the connection and what happens to results;
the second has several connections, the database and the notifier, and no
results. A version of a target list in `Collector` stands for what
`Configuration` reads with many queries; the list that is sent arrives at
`Pinger` as `SetDestinations`. The points of `History` are the seconds that are
stored in `GraphPages`, and the records a page gets are the list `Figures` works
on. `Latency` is what a data of `Datafile` holds besides its time. They are separate modules
because the product would be too large to check, and because what they share is
handed over in one direction: nothing the notifier does changes what happens to
results, and no page writes.

## Code and model

**ResultDelivery.** A step runs a coroutine from one await to the next.

| action | code |
|---|---|
| `PingerOutput` | `Pinger.handle_output`: the round's message goes on the queue |
| `ConnectOk`, `ConnectAborted` | `websockets.connect` and the auth message; what is not an `OSError` ends the coroutine, and the loop |
| `Supervise`, `SuperviseClosed` | one pass of the inner loop: tasks that are done are started with the current websocket |
| `TransmitSends`, `TransmitSuspends`, `TransmitResumes` | the head of the queue leaves it *before* the send and is put in `unconfirmed_list` *after* it; a send that suspends leaves it in neither (`hand`) |
| `TransmitFails`, `TransmitFailsSuspended` | send raises: the task is gone and the message with it |
| `ReceiveAck`, `ReceiveFails` | the filter by id over `unconfirmed_list` |
| `RequeueStale`, `Tick` | the cutoff is computed before the sleep (`stale` marks what it selects) and used after it |
| `AuthUnregistered` ... `SessionEnds` | `handle_auth_message` between its awaits, and the `finally` of `handle_client` |
| `HandleOutput`, `HandleOutputClosed` | enqueue, then ack; an ack that raises ends the session |
| `WriterStores`, `WriterDies` | the loop of `Writer.run` |
| `LinkBreaks`, `ClientNotices`, `ServerNotices`, `CollectorRestarts` | the network and the process: part of what was under way arrives, each end finds out later |

Abstractions: a result is a model value. `unconfirmed_list` is a set, because
every use of it is a filter; stale messages are put back in any order (`PutBack`). `write_queue` is a set, because points are keyed and written twice
without effect. An id is fresh: a nonce starts at 40 random bits, and a collision
is left out. A connection slot is used again once both ends have let go of it. A
frame lost on a broken link is lost at the send.

**Pinger.** `destinations` and the tallies count how often an address occurs,
because two targets may have one address (`get_unique_targets` is about rows) and
order means nothing. `StartRound` and `BeginReceive` read `destinations`
separately, as lines 127 and 130 do. `Receive` is one turn of the loop over
`select`; it may leave the reply under way to be delivered again. A packet carries
the sequence number of its request and an `age` in rounds; it is gone after
`SeqMod` rounds, 65536 seconds in the code. `receive_pings` compares the address, the
identifier and the number of a packet and never its ICMP type: an echo request of the
prober itself, which comes back where a target is on its own host, counts as the reply
would, and is one of the packets in `air`. Packets of other senders or with another
identifier are read and ignored by the code and left out; so is the echo request of a
target that pings this host with the same identifier and number, which would count.

**Checksum.** One step for a pair of bytes, one for an odd byte, one for the rest
(fold, complement, `htons` and the packing in network order, which together leave
the host's bytes as they are). `net` is a history variable: what a receiver adds up,
in network order.

**Collector.** `sync_to_async` runs all ORM calls of the event loop on one
worker thread (`thread_sensitive`), in order: `jobs` and `results` are its two
ends. `get_unread_messages` has a thread of its own (the asgiref of
`requirements.txt` gives one to a call that is not `thread_sensitive`) and runs in
two steps (`ListUnread`, `MarkRead`). From there to the first `await` of
`notify_probers` nothing else runs on the event loop, so `CheckMessages` takes the
first turn of `for name in clients` too; `NotifyNext` is each turn after. `rest` is
what the dictionary iterator has still to visit, and `size` is what it compares at
every turn. A target list is a version.

**Configuration.** A form of a group is saved in three atomic blocks, and
`ManyRelatedManager.set` reads before it writes: `SaveRow`, then `ReadLinks` and
`SetLinks` for probers and again for targets. A form of a prober or a target is
`SaveRow` alone. `PostFails` ends a form anywhere: what was saved stays. `Delete`
is one statement with its cascade. `ListUnread` and `MarkRead` are the two statements of
`get_unread_messages`: a message posted between them is marked read without having been
listed, which `missed` remembers. `session` is what `clients` has of the one prober the
module follows, with at most one connection of its name at a time (sessions that overlap
are the subject of `Collector`). Its list is read for its session (`BeginSession`) or
in its turn of the notifier (`BeginNotify`); `SendList`, `CloseOnEmpty` and `SendFails`
are the three ends of `send_target_list`, and where it raises, the notifier dies or the
session ends without popping its name (`Raised`). What other probers do to the notifier
is `NotifierDies`. The reader takes a step per query of
`get_target_list`: `FindProber`, `ListGroups`, one `ReadGroup` for every group in any
order, `EndRead`; `Joined` is the `update` of a set of model instances, which are
equal when their keys are. `form`, `mixed`, `deleted`, `dirty`, `missed` and `steady` are
history variables that the properties speak about.

**History.** `Take` is the `get` of `Writer.run`; `CacheHit`, `CacheMiss`,
`FilterPairs`, `FindOwner`, `InsertPair` and `WritePoint` are the queries of
`src_dst_id` and `record_poll_data` for one reply after the other. Wherever a query is,
`DatabaseFails` may end the thread. `Expire` drops an entry of `class_cache` at any
time, which covers both its 60 seconds and its size. A point's key has the name, the
address and the second; writing it again replaces it.

**GraphPages.** A request goes through the steps `extents` (the range of the form is
computed a second time), `fetch` (the cache is looked into), `query`, `insert` (the
result is kept, other entries may be dropped for it) and `respond`; the clock ticks
and the writer stores points between any two. The room of a cache is counted in
records, as `getsizeof=len` does: a result without any takes no room, one larger than
the room is not kept. `Extents` is
`get_time_extents_from_params` on what the form leaves of its fields; `Duration`
is `duration_string_to_seconds`. Ranges that are computed from the clock never
occur again as keys, so only ranges the query pins are looked up. `like` remembers
which range the browser has on its screen when the request is for the same.

**Figures.** One step per record in each of the three loops over the records, with the
test for a timeout that each of them has: `NoLatency` of the page takes `None` for one,
`IsTimeout` of the figure and `HasLatency` of the buckets do not. Nothing in the
repository stores `None`; the docstring at `database_influxdb.py:118` speaks of it, so
the lists may hold it, and `PlotNone` is the `TypeError` it leads to. Tallies of the page
and of a bucket begin with other extremes (`ZeroStatistics`, `ZeroBucket`). Latencies
are numbers of a unit, negative ones of a clock set back among them; `FloatMin`,
`FloatMax` and `Infinity` stand for the floating-point numbers in their order. Times
are whole seconds, as InfluxDB keeps them; rates and means are left as the two
numbers that are divided. `round()` goes to the even multiple at a tie.

**Datafile, Latency.** Offsets count records: place *n* is byte `header_length + n *
record_length`. `WriteRecord` and `WriteHeader` are the two writes of
`record_datum` as they reach the file: the seek between them flushes the first,
or both go together at the `flush`; the header is never first. `torn` is a
history variable: the record at the place of the oldest one is new and the header
does not say so yet. `ReadBlock` reads one record where the code reads up to a
thousand at once, so a writer gets between any two. `ReadRecords` is the search
of `read_records` as an operator. `WriteAll` is possible on a file just created
only, as its one caller (`old/pingdf.py`) uses it. `Latency` has `database.py`'s
conversions with an exact clock: the rounding of floating-point products is not in it.

## Runs

Every passing run but `delivery_liveness`, `collector_liveness` and `checksum`
checks a type invariant too; the table names the rest.

| run | properties | what it shows |
|---|---|---|
| `delivery_safety` | `SinglePlace` `Accounted` `OneLossPerConnection` `DeliveryInv` `RequeuedOnlyWhenLate` `PromiseKept` | through any one fault no result is doubled in the prober, forgotten before it was accepted, or requeued early, and a lost connection costs at most one; `DeliveryPromise` is implemented |
| `delivery_liveness` | `Delivered` | under fair scheduling a result reaches the database, except in the accidents named in the formula |
| `collector_safety` | `VisitedAreRegistered` `TargetsNeverRegress` | the registry stays one the notifier can walk; no connection gets an older list |
| `collector_liveness` | `Notified` `ClosedLeaveRegistry` | what is configured when a message is listed reaches every prober that stays registered, unless the notifier dies; closed connections leave the registry unless their session leaked |
| `collector_LoopGoesOn` | `LoopGoesOn`, violated | the [finding](#findings) |
| `pinger_rounds` | `Complete` `AnswersAreOwn` `RoundInv` `ListReported` | rounds are complete and answers are of their own round; a new list is reported on |
| `checksum` | `Verifies` | the receiver finds no error, but for an odd length on a big-endian host |
| `configuration` | `UpToDate` `SteadyAreListed` `GroupIsItsForm` | the list after a press of the button is the one configured, but for a press marked unlisted and a dead notifier; no steady target is missed; forms that do not overlap leave what was chosen |
| `history` | `OnePair` `LastReportStored` `EveryMessageWritten` | stored is what was reported, up to a failure and but for later points of a second; one pair per point; the queue is worked off |
| `graph_pages` | `Fresh` `SameSeconds` `IndexAgrees` | what pages and images may lack, and that they are about the same seconds |
| `figures_reduction` | `BucketsCover` `BucketsByTime` `StatisticsAgree` | every record is in one bucket, by its time; page, figure and buckets agree, each with its own test and extremes, wherever an image comes out |
| `datafile_ring` | `FileInv` `OnlyOldestChange` `RangeIsRead` `LogKept` | the ring keeps the last records through crashes, readers are wrong about overwritten records only, ranges are exact; the five properties of `Latency` are evaluated as an assumption of `MCDatafile` |

Bounds, and why they are enough:

- `delivery_safety`: two results, two connection slots, `AckTimeout` of one tick,
  one frame under way in each direction, one fault. Two results are the least
  with which one can be queued while the other is under way, stale or
  suspended; two slots are the least with which a task can hold an old
  websocket while a new one is served. One fault is followed by more lost
  connections, refused as duplicates while the old session holds the name. Six
  ids are more than can be in use at once. Symmetry is used for results and
  slots, in this safety run only.
- `delivery_liveness`: the same with one result (the property speaks of one at a
  time), no symmetry.
- `collector_safety`: three connections of one name, three versions (one of them
  an empty list), two messages. This is what it takes for two overlapping
  sessions and a third that comes after. `collector_liveness`: two probers, so
  that the notifier's loop has two turns.
- `pinger_rounds`: `SeqMod` is 3, so that numbers come again while replies are
  under way; the lists are one target, two targets of one address, and two
  addresses.
- `checksum`: up to nine bytes of five values: carries out of the low and of the
  high word, both bytes of an odd end, both byte orders.
- `configuration`: two web workers and two forms or deletions are the least with
  which forms overlap and a row goes under a form. Two groups with a target each make a list that is
  joined from two queries; the second prober has no row yet, so that a name can be
  given to a new row. Symmetry is used for the workers, and for the two groups exchanged
  together with their targets. Connections, messages and turns of the notifier are not
  bounded.
- `history`: three messages of four kinds, so that two are of one second and two
  of one name; two rows of probers and three edits reach a name that moves from
  one row to another.
- `graph_pages`: one process. Processes share only the time series database, which the
  model lets change at every step, and no property relates two caches; what one
  browser asks of several processes differs from this by a cache that is empty, and
  entries expire at any time here too. Two ticks to a second and four ticks of the clock
  let an entry (which lives for one) be hit, expire and be replaced, with queries that
  take a tick. `MaxRecords` is 1 and a range has up to two seconds: entries without a
  record, entries that fill the cache and results larger than it all occur. The queries
  have one bound, two with the same start and an earlier end, a time that is none, or a
  window beside bounds; bad windows, which mean the default, are evaluated as an
  assumption of `MCGraphPages`.
- `figures_reduction`: up to four records in the seconds 0 to 8, buckets of four seconds:
  gaps longer than a bucket, records on, before and half-way between starts, and rounding
  ties to both sides. The latencies are a negative one, zero, a positive one, the timeout
  and `None`, so that there are buckets and pages whose extremes stay where they began.
- `datafile_ring`: three records, times 1 to 3: every wrap of the ring, every
  torn state and every pair of a reader and an overwriting writer occurs. Times
  need not ascend (clocks do not); `RangeIsRead` asks for it where it matters.

`CHECK_DEADLOCK FALSE` is set everywhere because the systems may stop: the prober
shuts down or its loop dies, the models' results, messages, forms, versions,
connections and time run out, a thread is stopped, a computation is done, a data
file created and never flushed can no longer be opened.

## Fairness

Fairness is stated for what a scheduler or a library really gives, in the modules
that have a liveness property; the safety runs and every theorem use `Spec`
without it.

| module | weakly fair | why | owed nothing |
|---|---|---|---|
| `ResultDelivery` | the supervisor, the transmit, receive and requeue tasks, every session | asyncio runs a coroutine that is ready; the loop of the prober and of the collector never block for good | the pinger (it may be stopped), `Shutdown`, every fault |
| | `Tick` | the clock advances | |
| | `WriterStores(r)` for each result | the thread takes one message after the other | |
| | `ClientNotices(c)`, `ServerNotices(c)` | the `websockets` library pings every 20 s and closes a connection whose pong does not come in 20 s | |
| `Collector` | the worker thread of the ORM, the notifier, every session | threads and coroutines that can go on do | the web server, people, probers that connect and go |
| `Pinger` | `Thread` | the thread runs; the time of a round runs out however many packets arrive (`RoundTimesOut` is one of its steps, enabled whenever `Receive` is) | the network, the event loop, `Stop` |
| `History` | `Writer` | the thread runs | the web server, sessions, failures, `Expire`, `Stop` |

Faults are finite in number (`MaxFaults`, and `failed` in `History`): a system
that is disturbed for ever delivers nothing. `Delivered`, `Notified`,
`ClosedLeaveRegistry` and `EveryMessageWritten` name in their formulas what the
code does not recover from (the loop died, the writer or the notifier died, a name
leaked, a connection closed); nothing else may stand in the way. `Checksum`,
`Configuration`, `GraphPages`, `Figures` and `Datafile` have no liveness property: they
are computations, or requests that people send and may give up.

## Proofs

The theorems hold for every value of the constants that satisfies the named
assumptions of the module: any number of results, connections, addresses,
lists, rows, workers, messages and records, any `SeqMod`, `AckTimeout` and
`MaxRecords`. The assumptions say that bounds are numbers, that placeholders are
not members of the sets they stand apart from, and that the database starts in a
state its own constraints allow. Every inductive invariant is found the same
way: it holds at the start, one lemma per action shows that a step keeps it, and
the properties follow.

| module | theorems | argument |
|---|---|---|
| `ResultDelivery_proofs` | `TypeCorrect` `DeliveryInvariant` `SinglePlaceAlways` `AccountedAlways` `OneLossAlways` `RequeuedLateAlways` `KeepsPromise` | `DeliveryInv`. `SinglePlace` and `Accounted` are not inductive: an ack may name any id. What is missing is that an id under way stands for one result (`FramesSound`), that an ack under way is for an accepted one (`AcksSound`), that the remembered cutoff selects late messages only (`StaleAreLate`) and that a connection which has cost a result is closed and without its transmit task (`LossesClosed`). `KeepsPromise` maps `pending` of `DeliveryPromise` to what the prober holds and shows that each step is one of the abstract steps or a stutter |
| `Pinger_proofs` | `TypeCorrect` `RoundInvariant` `CompleteAlways` `AnswersOwnAlways` | `RoundInv`: a packet's number is as far behind the thread's as the packet is old, modulo `SeqMod` (`NumberedBack`), so one that has the round's number is fresh, and a fresh one is of an address pinged in this round (`FreshAreOwn`); the tally is complete in between (`TallyComplete`) |
| `Collector_proofs` | `CollectorInvariant` `TypeCorrect` `VisitedAlwaysRegistered` `TargetsNeverGoBack` | `CollectorInv`, in two parts. The registry: what the loop has still to visit has no duplicate and is among the keys (`RestSound`). The versions: nobody is ahead of the database, and the answers of the one worker thread are in the order of the versions and none is behind what was sent; two threads would break it |
| `Configuration_proofs` | `TypeCorrect` `GroupsAreForms` `SteadyListed` `ListsUpToDate` | `FormInv` for the forms: how far the one worker at a group has got with it (`WorkSound`), and that a group at rest is as the last form left it unless forms overlapped or a row was deleted (`RestedHold`). `ReadInv` for the reader: what is steady and of a group that was read is in the list (`SteadySound`), and the list of a read that began after the last change and no message is owed to (`Clean`, `Owed`) is exact, as is the one sent last when no read runs (`CleanSound`); that names are unique makes the prober found the only one |
| `History_proofs` | `TypeCorrect` `OnePairAlways` `LastReportAlwaysStored` | `PairInv`: the pair that is being looked up is not in the cache, and as long as no prober was edited every pair is the only one of its name and destination, what the queries found is still so, and every point has its pair. A row that is created has no pair, so `Create` disturbs nothing. `StoredInv`: the reply that is written next comes after all that were written, so it hides those of its key and no other; the last message is written to its end when the next one is taken (`Resting`) |
| `Datafile_proofs` | `TypeCorrect` `FileInvariant` `ReadersSeeOldestChange` `RangesAlwaysRead` `KeepsLog` | `FileInv`: the ring holds the last records in order, but for a torn oldest one (`RingSound`); what a reader has is what was there, but for places the writer has been at since (`ReaderSound`, by the distance on the ring, `RingDistance`). `RangesAlwaysRead`: the first record at or after the start and the last one before or at the end exist, since a set of numbers has a least one, and everything between them is in the range. `KeepsLog` maps the log of `BoundedLog` to what a crash would leave |
| `Figures_proofs` | `LoopInvariant` `TypeCorrect` `BucketsAlwaysCover` `BucketsAlwaysByTime` `StatisticsAlwaysAgree` | `LoopInv`: the first two loops have the tally, or the points and lines, of the records they have seen (`StatisticsInv`, `FigureInv`); the finished buckets lie end to end and add up to the records before the last cut (`FinishedInv`); the open one has the records since, and starts a duration after the last finished one (`FillingInv`). That the sums over the buckets are those of the page is not inductive without the cut. The extremes need one more step: the record with the least latency is in some bucket (`InSomeBucket`), whose minimum it is (`ExtremesOfBuckets`). `NoLatency`, `IsTimeout` and `HasLatency` are told apart throughout: they agree on the records of an image only because the figure's loop fails at `None` |
| `GraphPages_proofs` | `PagesInvariant` `TypeCorrect` `AlwaysFresh` `AlwaysSameSeconds` `IndexAlwaysAgrees` | `PagesInv`: what a request has in hand is told by how far it is (`PageRequest`, `IndexRequest`). A query that pins its range has that range whenever it is computed (`PinnedTo`), and records lack only points stored after the time they are as old as: the read's, or the entry's in the cache less the duration of a query (`Complete`). `Fresh` is not inductive: it is about answers, and what an answer lacks is decided when another request fills the cache |
| `Pinger_proofs`, on `Checksum` | `SumInvariant` `AlwaysVerifies` | `SumInv`: the host's sum and the receiver's agree modulo 65535, up to the order of the bytes (a factor of 256), and the fold keeps the remainder; packets up to 65535 bytes never overflow the 32 bits |
| `Datafile_proofs`, on `Latency` | `AlwaysFits` `NoReplyAlwaysRead` `LatencyAlwaysRead` `LateAlwaysTimeout` `OrderAlwaysKept` | `round` is at most half a step away and keeps the order; everything else is arithmetic. `MCDatafile` evaluates the same statements for one number of ticks |

Every invariant, and every action property, that a run checks is a theorem too
(the types of `Checksum` are a part of `SumInv`).

Some of the arguments need induction over numbers: sums over the first n records,
the duration of a time window, the first record of a range. The induction theorems
of the library take an operator as a parameter, which the installed provers cannot
instantiate, so these proofs take the least counterexample instead: a set of
numbers that is not empty has a least member (`Least`, from the
well-foundedness of `<`). For the same reason `Duration` and `SumTo` are recursive
functions and not folds, `RangeIsRead` speaks of a part of the list and
`LastReportStored` of the places of replies.

Only model-checked: liveness. `Delivered`, `Notified`, `ClosedLeaveRegistry`,
`ListReported` and `EveryMessageWritten` rest on fairness, and the prover has no way to
reason about `ENABLED` here. `LoopGoesOn` is violated, see below.

## Findings

`collector_LoopGoesOn`: the docstring of `notify_probers` (`server.py:200`)
says "Send current target list to all connected probers (clients)". `for name in
clients` (`server.py:202`) awaits inside the loop. A prober that registers or leaves
during the wait for another one's list changes the size of the dictionary, the next turn
raises `RuntimeError` while there are probers left to visit, and nothing catches it: the
`check_server_messages` task ends without a word, and no change of the targets reaches
any connected prober until the collector is restarted. `LoopGoesOn` says that a loop
with probers left finds the dictionary as large as it began with; the run's trace is
two registered probers, of which one leaves during the await. A prober that is closed
while its list is looked up ends the task too, by `ConnectionClosed` from `send`.

What else the code does that a reader of the models should know. The models contain
these behaviours, or name them as left out; the properties are stated around them,
and each is a place to look at when the code is changed:

- *Prober.* An exception of `websockets.connect` or of the auth message that is not an
  `OSError` ends `maintain_collector_connection` (`probe.py:68`). The message
  whose send fails is lost (`probe.py:104`). If acks always take longer than the
  timeout, every message is sent again without end. A target can be reported
  without having been pinged, when the list changes between the two reads of it
  (`pinger.py:130`). Two targets with one address share a reply's key, and a timeout of one can take
  the place of an answer of the other.
- *Checksum.* With an odd number of bytes a big-endian host computes a wrong sum; the
  comment at `pinger.py:67` says "Endianness should be irrelevant in this case". The
  default packet has 63 bytes.
- *Collector.* A name leaks when sending the first target list fails
  (`server.py:151`), and the prober is refused as a duplicate from then on. When two
  sessions of one name overlap, the end of one removes the other's entry
  (`server.py:104`), and a connected prober is not in what line 26 calls "all connected
  clients". A `CollectorMessage` that is stored between the `SELECT` and the
  `UPDATE` is marked read unseen (`pingweb/models.py:147`): the press it came from sends
  nothing, which `UpToDate` lets off (`missed`). It lets off a notifier that
  has died too, which may be after the mark and before the first list is sent. An ack says "enqueued", and
  what is enqueued is in memory only; sessions go on acking after the writer has ended.
- *Writer.* Renaming or deleting a prober that is connected ends the thread
  (`database_influxdb.py:55`); renaming hides the older points from the web pages.
- *Configuration.* A list that is read while forms are saved may hold a combination that was
  never configured at one moment, and may miss a target that moves from one group to another.
- *Pages.* The options for points and timeouts are not used by the figure. For an
  invalid form the form shows `1h` while the page shows another range. An image that
  another process answers may be older than its page. `reduce_data_points` of no
  records raises `IndexError`. A docstring (`database_influxdb.py:118`) says that a latency
  of `None` stands for a timeout, and the page counts it as one; the figure and the
  buckets would raise `TypeError` (`graphing.py:127`, 180). Where all latencies of a
  bucket are negative its maximum is 0 (`graphing.py:99`), and where those of a page are
  zero or negative its maximum is `sys.float_info.min` (`database_influxdb.py:150`).
- *Data file.* `read_records` of an empty file raises `IndexError` (`datafile.py:291`). A
  range that lies between two records yields the record after the gap
  (`datafile.py:299`), where the docstring (line 285) says `[]`. A torn oldest record
  makes ranges empty that are before the newest one. The header of a file just created
  stays in the buffer, and after a crash the file cannot be opened.

## What is left out

The modules are checked apart, each with its neighbours as it sees them (see
[modules](#modules)); their product is not.

- *Inputs nobody sends:* messages that are not JSON or lack a field
  (`server.py:36`, `server.py:146`), blank names, colliding nonces, packets of other programs
  (also an echo request that would be taken for a reply, `pinger.py:218`).
- *Libraries:* InfluxDB's retention of four weeks; asyncio, websockets and Django
  beyond what the code relies on them for (the map marks these definitions external).
- *Data:* opening a data file with another `max_records` than it was written with
  (the header does not say), a crash that leaves a part of one record, the
  rounding of floating-point numbers in latencies.
- *Presentation:* templates, layout, drawing with matplotlib, log messages.
- *Parts without state of their own:* settings (`config.py`), environment variables,
  helpers, Django's scaffolding and migrations.
- *Code nobody runs:* `src/old/`, earlier versions that are kept for reference
  (`old/database_binary.py` imports a module that does not exist any more), and
  unused stubs (`probedb.py`, `db_queue.py`).
