-------------------------------- MODULE History --------------------------------
(***************************************************************************)
(* How results become points of the time series database: the writer       *)
(* thread of the collector (writer.py) with record_poll_data and           *)
(* src_dst_id (database_influxdb.py).                                      *)
(*                                                                         *)
(* A point is kept by the NAME of its prober; the web pages find it by a   *)
(* source-destination pair, a row that refers to the prober's ROW.  The    *)
(* writer makes the pair when it meets a name and a destination for the    *)
(* first time, with one query after the other, and remembers its key for   *)
(* a while.  Meanwhile the web server edits the rows of the probers.       *)
(***************************************************************************)
EXTENDS Integers, FiniteSets, Sequences

CONSTANTS
  Probers,       \* keys of the rows of probers
  Names,
  NoRow,
  InitialNames,  \* the name of each prober at the start, or NoRow
  Messages,      \* the output messages of probers: name, sent, replies
  MaxMessages,   \* that arrive (a model bound)
  MaxEdits,      \* of probers (a model bound)
  Ticks,         \* of the clock to a second
  NoReply,       \* the receive time of a timeout
  TimeoutValue   \* the latency that stands for one

Dsts == UNION {{m.replies[i].dst : i \in DOMAIN m.replies} : m \in Messages}

ASSUME BoundsAssumption ==
  MaxMessages \in Nat /\ MaxEdits \in Nat /\ Ticks \in Nat \ {0} /\ NoRow \notin Names

ASSUME MessagesAssumption ==
  \A m \in Messages :
    m.name \in Names /\ m.sent \in Nat /\ m.replies \in Seq([dst : Dsts, received : Int \cup {NoReply}])

ASSUME NamesAssumption ==
  /\ InitialNames \in [Probers -> Names \cup {NoRow}]
  /\ \A p, q \in Probers : InitialNames[p] # NoRow /\ InitialNames[p] = InitialNames[q] => p = q

VARIABLES
  names,    \* the name in the row of each prober
  pairs,    \* the rows of pairs, by their keys
  edits,    \* how many edits there have been
  queue,    \* write_queue
  cached,   \* class_cache: the keys of pairs by name and destination
  step,     \* the writer: idle, lookup, filter, owner, insert, write, stopped, dead
  at,       \* the reply it works on
  owner,    \* the prober it found
  keepGoing,
  points,   \* the points that are stored, each with its key
  \* --- history
  known,    \* names that a row had some time: probers connected under them
  arrived,  \* messages there have been
  taken,    \* messages the writer has taken
  edited,   \* a prober has been renamed or deleted
  failed    \* one of the databases has failed

configVars == <<names, edits, known, edited>>
queueVars == <<queue, arrived>>
vars == <<configVars, queueVars, pairs, cached, step, at, owner, keepGoing, points, taken, failed>>

-----------------------------------------------------------------------------
(* The web server edits probers *)

Exists(p) == names[p] # NoRow

\* prober.name is unique.
Free(n) == \A p \in Probers : names[p] # n

Edit(p, n) ==
  /\ edits < MaxEdits /\ edits' = edits + 1
  /\ names' = [names EXCEPT ![p] = n]
  /\ known' = known \cup ({n} \ {NoRow})
  /\ edited' = (edited \/ Exists(p))
  /\ UNCHANGED <<queueVars, pairs, cached, step, at, owner, keepGoing, points, taken, failed>>

\* list_prober: a new row.
Create(p, n) == ~Exists(p) /\ Free(n) /\ Edit(p, n)

\* edit_prober
Rename(p, n) == Exists(p) /\ Free(n) /\ Edit(p, n)

\* ProberDelete: the database refuses while a pair refers to the row.
Delete(p) == Exists(p) /\ (\A i \in DOMAIN pairs : pairs[i].prober # p) /\ Edit(p, NoRow)

-----------------------------------------------------------------------------
(* The collector's sessions *)

\* handle_output_message: a prober stays connected under the name it came with.
Enqueue(m) ==
  /\ m.name \in known /\ arrived < MaxMessages
  /\ arrived' = arrived + 1
  /\ queue' = Append(queue, m)
  /\ UNCHANGED <<configVars, pairs, cached, step, at, owner, keepGoing, points, taken, failed>>

-----------------------------------------------------------------------------
(* The writer *)

Message == taken[Len(taken)]
Reply == Message.replies[at]

WriterOnly == UNCHANGED <<configVars, arrived, keepGoing>>

\* run: the next message, and the first of its replies.
Take ==
  /\ step = "idle" /\ keepGoing /\ queue # <<>>
  /\ taken' = Append(taken, Head(queue)) /\ queue' = Tail(queue)
  /\ at' = 1
  /\ step' = IF Head(queue).replies = <<>> THEN "idle" ELSE "lookup"
  /\ UNCHANGED <<pairs, cached, owner, points, failed>> /\ WriterOnly

Entries == {e \in cached : e.name = Message.name /\ e.dst = Reply.dst}

\* src_dst_id is cached; what it returns is not used.
CacheHit ==
  /\ step = "lookup" /\ Entries # {}
  /\ step' = "write"
  /\ UNCHANGED <<queue, pairs, cached, at, owner, points, taken, failed>> /\ WriterOnly

CacheMiss ==
  /\ step = "lookup" /\ Entries = {}
  /\ step' = "filter"
  /\ UNCHANGED <<queue, pairs, cached, at, owner, points, taken, failed>> /\ WriterOnly

\* (mutant: the destination is forgotten)
PairsOfName == {i \in DOMAIN pairs : names[pairs[i].prober] = Message.name}

PairsFound == {i \in DOMAIN pairs : names[pairs[i].prober] = Message.name
                                      /\ pairs[i].dst = Reply.dst}

Remember(i) == cached' = cached \cup {[name |-> Message.name, dst |-> Reply.dst, id |-> i]}

\* (mutant: get() in place of filter(): it raises where there is no pair)
PairRaises == "dead"

\* Without a pair, its prober is looked up.
PairMissing == "owner"

\* SrcDst.objects.filter
FilterPairs ==
  /\ step = "filter"
  /\ \/ \E i \in PairsFound : Remember(i) /\ step' = "write"
     \/ PairsFound = {} /\ step' = PairMissing /\ UNCHANGED cached
  /\ UNCHANGED <<queue, pairs, at, owner, points, taken, failed>> /\ WriterOnly

\* get_prober_id_by_name; DoesNotExist ends the thread.
FindOwner ==
  /\ step = "owner"
  /\ \/ \E p \in Probers : names[p] = Message.name /\ owner' = p /\ step' = "insert"
     \/ Free(Message.name) /\ step' = "dead" /\ UNCHANGED owner
  /\ UNCHANGED <<queue, pairs, cached, at, points, taken, failed>> /\ WriterOnly

\* src_dst.save; the row of the prober may have gone, and the key is refused.
InsertPair ==
  /\ step = "insert"
  /\ IF Exists(owner)
       THEN /\ pairs' = Append(pairs, [prober |-> owner, dst |-> Reply.dst])
            /\ Remember(Len(pairs) + 1)
            /\ step' = "write"
       ELSE step' = "dead" /\ UNCHANGED <<pairs, cached>>
  /\ owner' = NoRow
  /\ UNCHANGED <<queue, at, points, taken, failed>> /\ WriterOnly

\* int(send_time), and the difference of the times.
Second(m) == m.sent \div Ticks
Latency(m, r) == IF r.received = NoReply THEN TimeoutValue ELSE r.received - m.sent

\* (mutant: the tag of the destination is left out)
KeyOfName(m, r) == [name |-> m.name, second |-> Second(m)]

\* The tags and the time of a point.
PointKey(m, r) == [name |-> m.name, dst |-> r.dst, second |-> Second(m)]

Point(m, r) == [key |-> PointKey(m, r), latency |-> Latency(m, r)]

\* write_points: a point of the same tags and time is replaced.
WritePoint ==
  /\ step = "write"
  /\ points' = {q \in points : q.key # PointKey(Message, Reply)} \cup {Point(Message, Reply)}
  /\ IF at < Len(Message.replies)
       THEN step' = "lookup" /\ at' = at + 1
       ELSE step' = "idle" /\ at' = 0
  /\ UNCHANGED <<queue, pairs, cached, owner, taken, failed>> /\ WriterOnly

\* A query raises, and nobody catches it.
DatabaseFails ==
  /\ step \in {"filter", "owner", "insert", "write"}
  /\ step' = "dead" /\ failed' = TRUE
  /\ UNCHANGED <<queue, pairs, cached, at, owner, points, taken>> /\ WriterOnly

\* The cache forgets: after a minute, or for want of room.
Expire ==
  /\ \E e \in cached : cached' = cached \ {e}
  /\ UNCHANGED <<queue, pairs, step, at, owner, points, taken, failed>> /\ WriterOnly

\* KeyboardInterrupt: stop() ...
Stop ==
  /\ keepGoing /\ keepGoing' = FALSE
  /\ UNCHANGED <<configVars, queueVars, pairs, cached, step, at, owner, points, taken, failed>>

\* ... ends the loop after the message it works on; the others are lost.
EndLoop ==
  /\ step = "idle" /\ ~keepGoing
  /\ step' = "stopped"
  /\ UNCHANGED <<queue, pairs, cached, at, owner, points, taken, failed>> /\ WriterOnly

-----------------------------------------------------------------------------
Init ==
  /\ names = InitialNames
  /\ known = {n \in Names : \E p \in Probers : names[p] = n}
  /\ pairs = <<>> /\ edits = 0 /\ queue = <<>> /\ arrived = 0
  /\ cached = {} /\ points = {}
  /\ step = "idle" /\ at = 0 /\ owner = NoRow /\ keepGoing = TRUE
  /\ taken = <<>> /\ edited = FALSE /\ failed = FALSE

WebServer ==
  \E p \in Probers : Delete(p) \/ \E n \in Names : Create(p, n) \/ Rename(p, n)

Writer ==
  \/ Take \/ CacheHit \/ CacheMiss \/ FilterPairs \/ FindOwner \/ InsertPair
  \/ WritePoint \/ EndLoop

Next ==
  \/ WebServer \/ (\E m \in Messages : Enqueue(m)) \/ Writer
  \/ DatabaseFails \/ Expire \/ Stop

Spec == Init /\ [][Next]_vars

\* The thread runs.
FairSpec == Spec /\ WF_vars(Writer)

-----------------------------------------------------------------------------
(* Properties *)

Working == step \in {"lookup", "filter", "owner", "insert", "write"}

NamesOK ==
  /\ names \in [Probers -> Names \cup {NoRow}]
  /\ \A p, q \in Probers : Exists(p) /\ names[p] = names[q] => p = q

PairsOK ==
  /\ pairs \in Seq([prober : Probers, dst : Dsts])
  /\ \A i \in DOMAIN pairs : Exists(pairs[i].prober)
  /\ cached \subseteq [name : Names, dst : Dsts, id : DOMAIN pairs]
  /\ \A e \in cached : pairs[e.id].dst = e.dst
  /\ \A d, e \in cached : d.name = e.name /\ d.dst = e.dst => d = e

WriterOK ==
  /\ queue \in Seq(Messages) /\ taken \in Seq(Messages)
  /\ Working \/ step \in {"idle", "stopped", "dead"}
  /\ Working => taken # <<>> /\ at \in DOMAIN Message.replies
  /\ step = "insert" => owner \in Probers

PointsOK == \A q \in points : q.key \in [name : Names, dst : Dsts, second : Nat]

TypeOK == NamesOK /\ PairsOK /\ WriterOK /\ PointsOK

\* As long as no prober has been renamed or deleted, every point is reached by
\* one pair, and by one only, although the pair is made with three queries and
\* remembered (database_influxdb.py:66).
OnePair ==
  ~edited => \A q \in points :
    Cardinality({i \in DOMAIN pairs :
                   names[pairs[i].prober] = q.key.name /\ pairs[i].dst = q.key.dst}) = 1

\* How many replies of the j-th message the writer has written.
Done(j) == IF j = Len(taken) /\ at # 0 THEN at - 1 ELSE Len(taken[j].replies)

\* The replies that have been written, by message and place, and their order.
Written == UNION {{j} \X (1 .. Done(j)) : j \in DOMAIN taken}

Before(v, w) == v[1] < w[1] \/ (v[1] = w[1] /\ v[2] < w[2])

\* What a reply says, as a point.
Report(w) ==
  LET m == taken[w[1]]
      r == m.replies[w[2]]
  IN  [key |-> [name |-> m.name, dst |-> r.dst, second |-> m.sent \div Ticks],
       latency |-> IF r.received = NoReply THEN TimeoutValue ELSE r.received - m.sent]

Overwritten(v) == \E w \in Written : Before(v, w) /\ Report(w).key = Report(v).key

\* What is stored is what the messages reported, in the order of the queue and,
\* of a message that failed, up to the failure; a point is lost only to a later
\* one of the same prober, destination and second (writer.py:37,
\* database_influxdb.py:198).
LastReportStored == points = {Report(w) : w \in {v \in Written : ~Overwritten(v)}}

\* Every message is taken and written to the end, as long as the collector is
\* not stopped, no database fails and no prober is renamed or deleted.
EveryMessageWritten ==
  queue # <<>> \/ step = "lookup" ~>
    (queue = <<>> /\ step = "idle") \/ ~keepGoing \/ failed \/ edited
=============================================================================
