----------------------------- MODULE History_proofs -----------------------------
(* Proofs about History, for any probers, names, messages and edits. *)
EXTENDS History, FiniteSetTheorems, TLAPS

\* The pairs that reach a name and a destination.
PairsTo(name, dst) == {i \in DOMAIN pairs : names[pairs[i].prober] = name /\ pairs[i].dst = dst}

\* The writer asks for a pair only of what it has not in its cache.
NotCached == step \in {"filter", "owner", "insert"} => Entries = {}

\* There are no two pairs of one row and one destination, and a key that is
\* remembered is of the name it was found by.
PairsSound ==
  /\ \A i, j \in DOMAIN pairs : pairs[i] = pairs[j] => i = j
  /\ \A e \in cached : names[pairs[e.id].prober] = e.name

\* What the queries have found is still so at the next one.
QueriesSound ==
  /\ step \in {"owner", "insert"} => PairsFound = {}
  /\ step = "insert" => names[owner] = Message.name
  /\ step = "write" => PairsFound # {}

PointsReached == \A q \in points : PairsTo(q.key.name, q.key.dst) # {}

Unedited == ~edited => PairsSound /\ QueriesSound /\ PointsReached

PairInv == TypeOK /\ NotCached /\ Unedited

USE DEF configVars, queueVars

-----------------------------------------------------------------------------
(* Types *)

LEMMA WorkTypes ==
  ASSUME WriterOK, Working
  PROVE  /\ Message \in Messages /\ Message.name \in Names /\ Message.sent \in Nat
         /\ Message.replies \in Seq([dst : Dsts, received : Int \cup {NoReply}])
         /\ at \in 1 .. Len(Message.replies) /\ Reply \in [dst : Dsts, received : Int \cup {NoReply}]
         /\ Reply.dst \in Dsts
  <1>1. Message \in Messages
    BY DEF WriterOK, Message
  <1>2. Message.name \in Names /\ Message.sent \in Nat
        /\ Message.replies \in Seq([dst : Dsts, received : Int \cup {NoReply}])
    BY <1>1, MessagesAssumption
  <1>3. at \in 1 .. Len(Message.replies)
    BY <1>2 DEF WriterOK
  <1>4. Reply \in [dst : Dsts, received : Int \cup {NoReply}]
    <2> DEFINE S == [dst : Dsts, received : Int \cup {NoReply}]
    <2>1. Message.replies \in Seq(S)
      BY <1>2
    <2> HIDE DEF S
    <2>2. Message.replies[at] \in S
      BY <2>1, <1>3
    <2> QED BY <2>2 DEF Reply, S
  <1> QED BY <1>1, <1>2, <1>3, <1>4

LEMMA PairTypes ==
  ASSUME PairsOK, NEW i \in DOMAIN pairs
  PROVE  /\ pairs[i] \in [prober : Probers, dst : Dsts]
         /\ pairs[i].prober \in Probers /\ Exists(pairs[i].prober)
  <1> DEFINE S == [prober : Probers, dst : Dsts]
  <1>1. pairs \in Seq(S)
    BY DEF PairsOK
  <1> HIDE DEF S
  <1>2. pairs[i] \in S
    BY <1>1
  <1>3. Exists(pairs[i].prober)
    BY DEF PairsOK
  <1> QED BY <1>2, <1>3 DEF S

\* A number of seconds is one.
LEMMA SecondType == ASSUME NEW n \in Nat PROVE n \div Ticks \in Nat
  BY BoundsAssumption, Z3

LEMMA InitTypes == Init => TypeOK
  <1> SUFFICES ASSUME Init PROVE TypeOK
    OBVIOUS
  <1>1. NamesOK
    BY NamesAssumption DEF Init, NamesOK, Exists
  <1>2. PairsOK /\ WriterOK /\ PointsOK
    BY DEF Init, PairsOK, WriterOK, PointsOK, Working
  <1> QED BY <1>1, <1>2 DEF TypeOK

\* A row of a prober is made, renamed, or goes; no pair refers to it then.
LEMMA EditTypes ==
  ASSUME TypeOK, NEW p \in Probers, NEW n \in Names \cup {NoRow}, Edit(p, n),
         n = NoRow \/ Free(n), n = NoRow => \A i \in DOMAIN pairs : pairs[i].prober # p
  PROVE  TypeOK'
  <1>1. \A q \in Probers : names'[q] = IF q = p THEN n ELSE names[q]
    BY DEF Edit, TypeOK, NamesOK
  <1>2. NamesOK'
    <2>1. names' \in [Probers -> Names \cup {NoRow}]
      BY DEF Edit, TypeOK, NamesOK
    <2>2. ASSUME NEW q \in Probers, NEW r \in Probers, Exists(q)', names'[q] = names'[r]
          PROVE  q = r
      BY <2>2, <1>1 DEF TypeOK, NamesOK, Exists, Free
    <2> QED BY <2>1, <2>2 DEF NamesOK
  <1>3. PairsOK'
    <2>1. \A i \in DOMAIN pairs : Exists(pairs[i].prober)'
      BY <1>1 DEF Edit, TypeOK, PairsOK, Exists, Free
    <2> QED BY <2>1 DEF Edit, TypeOK, PairsOK, Exists
  <1>4. WriterOK' /\ PointsOK'
    BY DEF Edit, TypeOK, WriterOK, PointsOK, Working, Message
  <1> QED BY <1>2, <1>3, <1>4 DEF TypeOK

LEMMA WebTypes ==
  ASSUME TypeOK, WebServer
  PROVE  TypeOK'
  <1>1. ASSUME NEW p \in Probers, Delete(p) PROVE TypeOK'
    BY <1>1, EditTypes DEF Delete
  <1>2. ASSUME NEW p \in Probers, NEW n \in Names, Create(p, n) \/ Rename(p, n) PROVE TypeOK'
    BY <1>2, BoundsAssumption, EditTypes DEF Create, Rename
  <1> QED BY <1>1, <1>2 DEF WebServer

LEMMA SameTypes ==
  /\ NamesOK /\ UNCHANGED names => NamesOK'
  /\ PairsOK /\ UNCHANGED <<names, pairs, cached>> => PairsOK'
  /\ PointsOK /\ UNCHANGED points => PointsOK'
  BY DEF NamesOK, PairsOK, PointsOK, Exists

\* The writer goes on within a message.
LEMMA WriterGoes ==
  ASSUME WriterOK, Working, UNCHANGED <<queue, taken, at>>,
         step' \in {"lookup", "filter", "owner", "insert", "write", "dead"},
         step' = "insert" => owner' \in Probers
  PROVE  WriterOK'
  BY DEF WriterOK, Working, Message

\* A key that is remembered.
LEMMA RememberTypes ==
  ASSUME TypeOK, NotCached, step \in {"filter", "insert"}, NEW i \in DOMAIN pairs', Remember(i),
         pairs' \in Seq([prober : Probers, dst : Dsts]), UNCHANGED names,
         \A j \in DOMAIN pairs : j \in DOMAIN pairs' /\ pairs'[j] = pairs[j],
         \A j \in DOMAIN pairs' : Exists(pairs'[j].prober), pairs'[i].dst = Reply.dst
  PROVE  PairsOK'
  <1>1. Working
    BY DEF Working
  <1>2. Message.name \in Names /\ Reply.dst \in Dsts
    BY <1>1, WorkTypes DEF TypeOK
  <1> DEFINE new == [name |-> Message.name, dst |-> Reply.dst, id |-> i]
  <1>3. cached' = cached \cup {new} /\ new \in [name : Names, dst : Dsts, id : DOMAIN pairs']
    BY <1>2 DEF Remember
  <1>4. cached' \subseteq [name : Names, dst : Dsts, id : DOMAIN pairs']
    BY <1>3 DEF TypeOK, PairsOK
  <1>5. \A e \in cached' : pairs'[e.id].dst = e.dst
    BY <1>3 DEF TypeOK, PairsOK
  <1>6. \A d, e \in cached' : d.name = e.name /\ d.dst = e.dst => d = e
    <2>1. \A e \in cached : ~(e.name = new.name /\ e.dst = new.dst)
      BY DEF NotCached, Entries
    <2> QED BY <1>3, <2>1 DEF TypeOK, PairsOK
  <1> QED BY <1>4, <1>5, <1>6 DEF PairsOK, Exists

LEMMA TakeTypes ==
  ASSUME TypeOK, Take
  PROVE  TypeOK'
  <1>1. queue \in Seq(Messages) /\ queue # <<>> /\ taken \in Seq(Messages)
    BY DEF Take, TypeOK, WriterOK
  <1>2. Head(queue) \in Messages /\ Tail(queue) \in Seq(Messages)
    BY <1>1
  <1>3. /\ taken' = Append(taken, Head(queue)) /\ queue' = Tail(queue) /\ at' = 1
        /\ step' = IF Head(queue).replies = <<>> THEN "idle" ELSE "lookup"
    BY DEF Take
  <1>4. taken' \in Seq(Messages) /\ taken' # <<>> /\ Message' = Head(queue)
    BY <1>1, <1>2, <1>3 DEF Message
  <1>5. Head(queue).replies # <<>> => 1 \in DOMAIN Head(queue).replies
    BY <1>2, MessagesAssumption
  <1>6. WriterOK'
    BY <1>2, <1>3, <1>4, <1>5 DEF WriterOK, Working
  <1> QED BY <1>6, SameTypes DEF Take, WriterOnly, TypeOK

LEMMA FilterPairsTypes ==
  ASSUME TypeOK, NotCached, FilterPairs
  PROVE  TypeOK'
  <1>1. step = "filter" /\ Working
        /\ UNCHANGED <<queue, pairs, at, owner, points, taken>> /\ WriterOnly
    BY DEF FilterPairs, Working
  <1>2. CASE \E i \in PairsFound : Remember(i) /\ step' = "write"
    <2>1. PICK i \in PairsFound : Remember(i) /\ step' = "write"
      BY <1>2
    <2>2. PairsOK'
      BY <1>1, <2>1, RememberTypes DEF PairsFound, WriterOnly, TypeOK, PairsOK
    <2> QED BY <1>1, <2>1, <2>2, WriterGoes, SameTypes DEF WriterOnly, TypeOK
  <1>3. CASE PairsFound = {} /\ step' = PairMissing /\ UNCHANGED cached
    BY <1>1, <1>3, WriterGoes, SameTypes DEF WriterOnly, TypeOK, PairMissing
  <1> QED BY <1>2, <1>3 DEF FilterPairs

LEMMA InsertPairTypes ==
  ASSUME TypeOK, NotCached, InsertPair
  PROVE  TypeOK'
  <1>1. step = "insert" /\ Working /\ owner \in Probers
        /\ UNCHANGED <<queue, at, points, taken, names>>
    BY DEF InsertPair, WriterOnly, Working, TypeOK, WriterOK
  <1>2. CASE Exists(owner)
    <2> DEFINE new == [prober |-> owner, dst |-> Reply.dst]
    <2>1. pairs' = Append(pairs, new) /\ Remember(Len(pairs) + 1) /\ step' = "write"
      BY <1>2 DEF InsertPair
    <2>2. new \in [prober : Probers, dst : Dsts]
      BY <1>1, WorkTypes DEF TypeOK
    <2>3. /\ pairs' \in Seq([prober : Probers, dst : Dsts]) /\ Len(pairs) + 1 \in DOMAIN pairs'
          /\ \A j \in DOMAIN pairs : j \in DOMAIN pairs' /\ pairs'[j] = pairs[j]
          /\ \A j \in DOMAIN pairs' : j \in DOMAIN pairs \/ pairs'[j] = new
          /\ pairs'[Len(pairs) + 1] = new
      BY <2>1, <2>2 DEF TypeOK, PairsOK
    <2>4. \A j \in DOMAIN pairs' : Exists(pairs'[j].prober)
      BY <1>2, <2>3 DEF TypeOK, PairsOK
    <2>5. PairsOK'
      <3>1. PICK i : i = Len(pairs) + 1
        OBVIOUS
      <3>2. i \in DOMAIN pairs' /\ Remember(i) /\ pairs'[i].dst = Reply.dst
        BY <2>1, <2>3, <3>1
      <3> QED BY <1>1, <2>3, <2>4, <3>2, RememberTypes
    <2> QED BY <1>1, <2>1, <2>5, WriterGoes, SameTypes DEF TypeOK
  <1>3. CASE ~Exists(owner)
    BY <1>1, <1>3, WriterGoes, SameTypes DEF InsertPair, TypeOK
  <1> QED BY <1>2, <1>3

LEMMA WritePointTypes ==
  ASSUME TypeOK, WritePoint
  PROVE  TypeOK'
  <1>1. step = "write" /\ Working
    BY DEF WritePoint, Working
  <1>2. /\ Message.name \in Names /\ Message.sent \in Nat /\ Reply.dst \in Dsts
        /\ Message.replies \in Seq([dst : Dsts, received : Int \cup {NoReply}])
        /\ at \in 1 .. Len(Message.replies)
    BY <1>1, WorkTypes DEF TypeOK
  <1>3. PointKey(Message, Reply) \in [name : Names, dst : Dsts, second : Nat]
    BY <1>2, SecondType DEF PointKey, Second
  <1>4. PointsOK'
    BY <1>3 DEF WritePoint, Point, TypeOK, PointsOK
  <1>5. WriterOK'
    BY <1>1, <1>2 DEF WritePoint, WriterOnly, TypeOK, WriterOK, Working, Message
  <1> QED BY <1>4, <1>5, SameTypes DEF WritePoint, WriterOnly, TypeOK

LEMMA StepTypes == TypeOK /\ NotCached /\ [Next]_vars => TypeOK'
  <1> SUFFICES ASSUME TypeOK, NotCached, [Next]_vars PROVE TypeOK'
    OBVIOUS
  <1>1. CASE WebServer
    BY <1>1, WebTypes
  <1>2. ASSUME NEW m \in Messages, Enqueue(m) PROVE TypeOK'
    <2>1. WriterOK'
      BY <1>2 DEF Enqueue, TypeOK, WriterOK, Working, Message
    <2> QED BY <1>2, <2>1, SameTypes DEF Enqueue, TypeOK
  <1>3. CASE Take
    BY <1>3, TakeTypes
  <1>4. CASE CacheHit \/ CacheMiss \/ FindOwner \/ DatabaseFails
    <2>1. Working /\ UNCHANGED <<names, queue, pairs, cached, at, points, taken>>
      BY <1>4 DEF CacheHit, CacheMiss, FindOwner, DatabaseFails, WriterOnly, Working
    <2>2. /\ step' \in {"lookup", "filter", "owner", "insert", "write", "dead"}
          /\ step' = "insert" => owner' \in Probers
      BY <1>4 DEF CacheHit, CacheMiss, FindOwner, DatabaseFails
    <2> QED BY <2>1, <2>2, WriterGoes, SameTypes DEF TypeOK
  <1>5. CASE FilterPairs
    BY <1>5, FilterPairsTypes
  <1>6. CASE InsertPair
    BY <1>6, InsertPairTypes
  <1>7. CASE WritePoint
    BY <1>7, WritePointTypes
  <1>8. CASE EndLoop \/ Stop \/ UNCHANGED vars
    <2>1. WriterOK'
      BY <1>8 DEF EndLoop, Stop, WriterOnly, vars, TypeOK, WriterOK, Working, Message
    <2> QED BY <1>8, <2>1, SameTypes DEF EndLoop, Stop, WriterOnly, vars, TypeOK
  <1>9. CASE Expire
    <2>1. WriterOK'
      BY <1>9 DEF Expire, WriterOnly, TypeOK, WriterOK, Working, Message
    <2>2. cached' \subseteq cached
      BY <1>9 DEF Expire
    <2>3. PairsOK'
      BY <1>9, <2>2 DEF Expire, WriterOnly, TypeOK, PairsOK, Exists
    <2> QED BY <1>9, <2>1, <2>3, SameTypes DEF Expire, WriterOnly, TypeOK
  <1> QED BY <1>1, <1>2, <1>3, <1>4, <1>5, <1>6, <1>7, <1>8, <1>9 DEF Next, Writer

-----------------------------------------------------------------------------
(* Pairs *)

LEMMA InitPairs == Init => PairInv
  <1> SUFFICES ASSUME Init PROVE PairInv
    OBVIOUS
  <1>1. NotCached
    BY DEF Init, NotCached
  <1>2. Unedited
    BY DEF Init, Unedited, PairsSound, QueriesSound, PointsReached
  <1> QED BY <1>1, <1>2, InitTypes DEF PairInv

LEMMA StepNotCached == TypeOK /\ NotCached /\ [Next]_vars => NotCached'
  <1> SUFFICES ASSUME TypeOK, NotCached, [Next]_vars, step' \in {"filter", "owner", "insert"}
               PROVE  Entries' = {}
    BY DEF NotCached
  <1>1. CASE UNCHANGED <<taken, at, cached>> /\ step \in {"filter", "owner", "insert"}
    BY <1>1 DEF NotCached, Entries, Message, Reply
  <1>2. CASE CacheMiss
    BY <1>2 DEF CacheMiss, Entries, Message, Reply
  <1>3. CASE Expire
    BY <1>3 DEF Expire, WriterOnly, NotCached, Entries, Message, Reply
  <1>4. CASE WebServer \/ (\E m \in Messages : Enqueue(m)) \/ Stop \/ UNCHANGED vars
    BY <1>1, <1>4 DEF WebServer, Create, Rename, Delete, Edit, Enqueue, Stop, vars
  <1>5. CASE Take \/ CacheHit \/ InsertPair \/ WritePoint \/ EndLoop \/ DatabaseFails
    BY <1>5 DEF Take, CacheHit, InsertPair, WritePoint, EndLoop, DatabaseFails
  <1>6. CASE FilterPairs \/ FindOwner
    BY <1>1, <1>6 DEF FilterPairs, FindOwner
  <1> QED BY <1>2, <1>3, <1>4, <1>5, <1>6 DEF Next, Writer

\* A step after which no prober has been renamed or deleted: the rows that pairs
\* refer to have their names.
LEMMA NamesStay ==
  ASSUME TypeOK, [Next]_vars, ~edited'
  PROVE  /\ ~edited /\ \A p \in Probers : Exists(p) => names'[p] = names[p]
         /\ \A i \in DOMAIN pairs : names'[pairs[i].prober] = names[pairs[i].prober]
  <1>1. ~edited /\ \A p \in Probers : Exists(p) => names'[p] = names[p]
    <2>1. CASE WebServer
      <3>1. PICK p \in Probers, n \in Names \cup {NoRow} : Edit(p, n)
        BY <2>1 DEF WebServer, Create, Rename, Delete
      <3> QED BY <3>1 DEF Edit, TypeOK, NamesOK
    <2>2. CASE ~WebServer
      BY <2>2 DEF Next, Enqueue, Writer, Take, CacheHit, CacheMiss, FilterPairs, FindOwner, InsertPair,
                  WritePoint, EndLoop, DatabaseFails, Expire, Stop, WriterOnly, vars
    <2> QED BY <2>1, <2>2
  <1>2. \A i \in DOMAIN pairs : pairs[i].prober \in Probers /\ Exists(pairs[i].prober)
    BY PairTypes DEF TypeOK
  <1> QED BY <1>1, <1>2

\* No step drops a pair, and only one adds one.
LEMMA PairsStay ==
  ASSUME TypeOK, [Next]_vars
  PROVE  UNCHANGED pairs \/ InsertPair
  BY DEF Next, WebServer, Create, Rename, Delete, Edit, Enqueue, Writer, Take, CacheHit, CacheMiss,
         FilterPairs, FindOwner, WritePoint, EndLoop, DatabaseFails, Expire, Stop, WriterOnly, vars

\* The names of the pairs stay, and the pairs: what is found of them stays.
LEMMA FoundStays ==
  ASSUME UNCHANGED pairs, \A i \in DOMAIN pairs : names'[pairs[i].prober] = names[pairs[i].prober]
  PROVE  /\ \A name, dst : PairsTo(name, dst)' = PairsTo(name, dst)
         /\ UNCHANGED <<taken, at>> => PairsFound' = PairsFound
         /\ UNCHANGED points /\ PointsReached => PointsReached'
         /\ cached' \subseteq cached /\ TypeOK /\ PairsSound => PairsSound'
  BY DEF PairsTo, PairsFound, Message, Reply, PointsReached, PairsSound, TypeOK, PairsOK

\* A step that goes no further with the queries.
LEMMA QueriesStay ==
  ASSUME TypeOK, QueriesSound, UNCHANGED <<pairs, taken, at, owner>>,
         \A i \in DOMAIN pairs : names'[pairs[i].prober] = names[pairs[i].prober],
         \A p \in Probers : Exists(p) => names'[p] = names[p],
         step' = step \/ step' \notin {"owner", "insert", "write"}
  PROVE  QueriesSound'
  <1>1. PairsFound' = PairsFound
    BY FoundStays
  <1>2. ASSUME step' = "insert" PROVE names'[owner'] = Message'.name
    <2>1. Working /\ owner \in Probers /\ names[owner] = Message.name
      BY <1>2 DEF Working, TypeOK, WriterOK, QueriesSound
    <2>2. names[owner] # NoRow
      BY <2>1, WorkTypes, BoundsAssumption DEF TypeOK
    <2> QED BY <2>1, <2>2 DEF Exists, Message
  <1> QED BY <1>1, <1>2 DEF QueriesSound

LEMMA FilterPairsPairs ==
  ASSUME TypeOK, NotCached, PairsSound, QueriesSound, PointsReached, FilterPairs
  PROVE  PairsSound' /\ QueriesSound' /\ PointsReached'
  <1>1. UNCHANGED <<names, pairs, taken, at, points, owner>>
    BY DEF FilterPairs, WriterOnly
  <1>2. PairsFound' = PairsFound /\ PointsReached'
    BY <1>1, FoundStays
  <1>3. CASE \E i \in PairsFound : Remember(i) /\ step' = "write"
    <2>1. PICK i \in PairsFound : Remember(i) /\ step' = "write"
      BY <1>3
    <2>2. \A e \in cached' : e \in cached \/ (e.id = i /\ e.name = Message.name)
      BY <2>1 DEF Remember
    <2>3. names[pairs[i].prober] = Message.name
      BY DEF PairsFound
    <2>4. PairsSound'
      BY <1>1, <2>2, <2>3 DEF PairsSound
    <2> QED BY <1>2, <2>1, <2>4 DEF QueriesSound
  <1>4. CASE PairsFound = {} /\ step' = PairMissing /\ UNCHANGED cached
    BY <1>1, <1>2, <1>4 DEF PairMissing, QueriesSound, PairsSound
  <1> QED BY <1>3, <1>4 DEF FilterPairs

LEMMA InsertPairPairs ==
  ASSUME TypeOK, NotCached, PairsSound, QueriesSound, PointsReached, InsertPair
  PROVE  PairsSound' /\ QueriesSound' /\ PointsReached'
  <1>1. step = "insert" /\ UNCHANGED <<names, taken, at, points>>
    BY DEF InsertPair, WriterOnly
  <1>2. PairsFound = {} /\ names[owner] = Message.name /\ owner \in Probers
    BY <1>1 DEF QueriesSound, TypeOK, WriterOK
  <1>3. Working /\ Message.name \in Names /\ Reply.dst \in Dsts
    BY <1>1, WorkTypes DEF Working, TypeOK
  <1>4. Exists(owner)
    BY <1>2, <1>3, BoundsAssumption DEF Exists
  <1> DEFINE new == [prober |-> owner, dst |-> Reply.dst]
  <1>5. pairs' = Append(pairs, new) /\ Remember(Len(pairs) + 1) /\ step' = "write"
    BY <1>4 DEF InsertPair
  <1>6. PICK k : k = Len(pairs) + 1
    OBVIOUS
  <1>7. /\ k \in DOMAIN pairs' /\ pairs'[k] = new /\ k \notin DOMAIN pairs
        /\ \A j \in DOMAIN pairs : j \in DOMAIN pairs' /\ pairs'[j] = pairs[j]
        /\ \A j \in DOMAIN pairs' : j \in DOMAIN pairs \/ j = k
    BY <1>2, <1>3, <1>5, <1>6 DEF TypeOK, PairsOK
  <1>8. \A j \in DOMAIN pairs : pairs[j] # new
    BY <1>2 DEF PairsFound
  <1>9. \A e \in cached' : e \in cached \/ (e.id = k /\ e.name = Message.name)
    BY <1>5, <1>6 DEF Remember
  <1>10. PairsSound'
    <2>1. \A i, j \in DOMAIN pairs' : pairs'[i] = pairs'[j] => i = j
      BY <1>7, <1>8 DEF PairsSound
    <2>2. \A e \in cached : e.id \in DOMAIN pairs
      BY DEF TypeOK, PairsOK
    <2>3. \A e \in cached' : names'[pairs'[e.id].prober] = e.name
      BY <1>1, <1>2, <1>7, <1>9, <2>2 DEF PairsSound
    <2> QED BY <2>1, <2>3 DEF PairsSound
  <1>11. k \in PairsFound'
    BY <1>1, <1>2, <1>7 DEF PairsFound, Message, Reply
  <1>12. PointsReached'
    BY <1>1, <1>7 DEF PointsReached, PairsTo
  <1> QED BY <1>5, <1>10, <1>11, <1>12 DEF QueriesSound

LEMMA StepUnedited == PairInv /\ [Next]_vars => Unedited'
  <1> SUFFICES ASSUME PairInv, [Next]_vars, ~edited'
               PROVE  PairsSound' /\ QueriesSound' /\ PointsReached'
    BY DEF Unedited
  <1>1. /\ \A p \in Probers : Exists(p) => names'[p] = names[p]
        /\ \A i \in DOMAIN pairs : names'[pairs[i].prober] = names[pairs[i].prober]
        /\ TypeOK /\ NotCached /\ PairsSound /\ QueriesSound /\ PointsReached
    BY NamesStay DEF PairInv, Unedited
  <1>2. CASE WebServer \/ (\E m \in Messages : Enqueue(m)) \/ Stop \/ UNCHANGED vars
    <2>1. UNCHANGED <<pairs, cached, taken, at, owner, points, step>>
      BY <1>2 DEF WebServer, Create, Rename, Delete, Edit, Enqueue, Stop, vars
    <2> QED BY <1>1, <2>1, FoundStays, QueriesStay
  <1>3. CASE EndLoop \/ DatabaseFails \/ CacheMiss
    <2>1. /\ UNCHANGED <<pairs, cached, taken, at, owner, points>>
          /\ step' \notin {"owner", "insert", "write"}
      BY <1>3 DEF EndLoop, DatabaseFails, CacheMiss
    <2> QED BY <1>1, <2>1, FoundStays, QueriesStay
  <1>4. CASE Expire
    <2>1. UNCHANGED <<pairs, taken, at, owner, points, step>> /\ cached' \subseteq cached
      BY <1>4 DEF Expire
    <2> QED BY <1>1, <2>1, FoundStays, QueriesStay
  <1>5. CASE Take
    <2>1. UNCHANGED <<pairs, cached, points>> /\ step' \notin {"owner", "insert", "write"}
      BY <1>5 DEF Take
    <2> QED BY <1>1, <2>1, FoundStays DEF QueriesSound
  <1>6. CASE CacheHit
    <2>1. UNCHANGED <<pairs, cached, taken, at, points>> /\ step' = "write"
      BY <1>6 DEF CacheHit
    <2>2. PICK e \in cached : e.name = Message.name /\ e.dst = Reply.dst
      BY <1>6 DEF CacheHit, Entries
    <2>3. e.id \in PairsFound
      BY <1>1, <2>2 DEF PairsFound, PairsSound, TypeOK, PairsOK
    <2>4. PairsFound' = PairsFound
      BY <1>1, <2>1, FoundStays
    <2> QED BY <1>1, <2>1, <2>3, <2>4, FoundStays DEF QueriesSound
  <1>7. CASE FilterPairs
    BY <1>1, <1>7, FilterPairsPairs
  <1>8. CASE FindOwner
    <2>1. /\ UNCHANGED <<pairs, cached, taken, at, points, names>> /\ step = "owner"
          /\ step' = "insert" => names[owner'] = Message.name
          /\ step' # "write"
      BY <1>8 DEF FindOwner, WriterOnly
    <2>2. PairsFound' = PairsFound /\ Message' = Message
      BY <1>1, <2>1, FoundStays DEF Message
    <2> QED BY <1>1, <2>1, <2>2, FoundStays DEF QueriesSound
  <1>9. CASE InsertPair
    BY <1>1, <1>9, InsertPairPairs
  <1>10. CASE WritePoint
    <2>1. UNCHANGED <<pairs, cached>> /\ step = "write" /\ step' \in {"lookup", "idle"}
      BY <1>10 DEF WritePoint
    <2>2. PairsTo(Message.name, Reply.dst) # {}
      BY <1>1, <2>1 DEF QueriesSound, PairsFound, PairsTo
    <2>3. \A q \in points' : q \in points \/ (q.key.name = Message.name /\ q.key.dst = Reply.dst)
      BY <1>10 DEF WritePoint, Point, PointKey
    <2>4. PointsReached'
      BY <1>1, <2>1, <2>2, <2>3, FoundStays DEF PointsReached
    <2> QED BY <1>1, <2>1, <2>4, FoundStays DEF QueriesSound
  <1> QED BY <1>2, <1>3, <1>4, <1>5, <1>6, <1>7, <1>8, <1>9, <1>10 DEF Next, Writer

LEMMA PairInvariant == Spec => []PairInv
  <1>1. PairInv /\ [Next]_vars => PairInv'
    BY StepTypes, StepNotCached, StepUnedited DEF PairInv
  <1> QED BY <1>1, InitPairs, PTL DEF Spec

\* Rows, pairs, the writer's queue and its cache are what TypeOK says of them: a
\* pair refers to a row that is there, the cache has one key for a name and a
\* destination (database_influxdb.py:66).
THEOREM TypeCorrect == Spec => []TypeOK
  <1>1. PairInv => TypeOK
    BY DEF PairInv
  <1> QED BY <1>1, PairInvariant, PTL

\* Without a rename or a deletion every point is reached by one pair, whatever
\* rows are made and whenever the cache forgets (database_influxdb.py:66).
THEOREM OnePairAlways == Spec => []OnePair
  <1>1. PairInv => OnePair
    <2> SUFFICES ASSUME PairInv, ~edited, NEW q \in points
                 PROVE  Cardinality(PairsTo(q.key.name, q.key.dst)) = 1
      BY DEF OnePair, PairsTo
    <2>1. PICK i : i \in PairsTo(q.key.name, q.key.dst)
      BY DEF PairInv, Unedited, PointsReached
    <2>2. ASSUME NEW j \in PairsTo(q.key.name, q.key.dst) PROVE j = i
      <3>1. /\ i \in DOMAIN pairs /\ pairs[i] \in [prober : Probers, dst : Dsts]
            /\ j \in DOMAIN pairs /\ pairs[j] \in [prober : Probers, dst : Dsts]
        BY <2>1, PairTypes DEF PairsTo, PairInv, TypeOK
      <3>2. pairs[i].dst = pairs[j].dst /\ pairs[i].prober = pairs[j].prober
        <4>1. names[pairs[i].prober] = names[pairs[j].prober] /\ pairs[i].dst = pairs[j].dst
          BY <2>1 DEF PairsTo
        <4>2. pairs[i].prober \in Probers /\ pairs[j].prober \in Probers /\ Exists(pairs[i].prober)
          BY <3>1, PairTypes DEF PairInv, TypeOK
        <4> QED BY <4>1, <4>2 DEF PairInv, TypeOK, NamesOK
      <3>3. pairs[i] = pairs[j]
        BY <3>1, <3>2
      <3> QED BY <3>1, <3>3 DEF PairInv, Unedited, PairsSound
    <2>3. PairsTo(q.key.name, q.key.dst) = {i}
      BY <2>1, <2>2
    <2> QED BY <2>3, FS_Singleton
  <1> QED BY <1>1, PairInvariant, PTL
-----------------------------------------------------------------------------
(* What is stored *)

\* Between messages the last one is written to its end.
Resting == step = "idle" /\ at # 0 => taken # <<>> /\ at - 1 = Len(Message.replies)

StoredInv == Resting /\ LastReportStored

LEMMA InWritten ==
  ASSUME NEW w
  PROVE  w \in Written <=> \E j \in DOMAIN taken : w \in {j} \X (1 .. Done(j))
  BY DEF Written

\* Nothing is reported or written that was not before: the points stay.
LEMMA StoredStays ==
  ASSUME LastReportStored, UNCHANGED points, Written' = Written,
         \A w \in Written : Report(w)' = Report(w)
  PROVE  LastReportStored'
  <1>1. \A v \in Written : Overwritten(v)' <=> Overwritten(v)
    BY DEF Overwritten
  <1> QED BY <1>1 DEF LastReportStored

\* A step that takes no message and writes no reply.
LEMMA StoredSame ==
  ASSUME StoredInv, UNCHANGED <<taken, at, points>>, step' = "idle" => step = "idle"
  PROVE  StoredInv'
  <1>1. Written' = Written
    BY DEF Written, Done
  <1>2. \A w \in Written : Report(w)' = Report(w)
    BY DEF Report
  <1>3. LastReportStored'
    BY <1>1, <1>2, StoredStays DEF StoredInv
  <1> QED BY <1>3 DEF StoredInv, Resting, Message

LEMMA TakeStored ==
  ASSUME TypeOK, StoredInv, Take
  PROVE  StoredInv'
  <1> DEFINE n == Len(taken)
             m == Head(queue)
  <1>1. step = "idle" /\ queue \in Seq(Messages) /\ queue # <<>> /\ taken \in Seq(Messages)
    BY DEF Take, TypeOK, WriterOK
  <1>2. /\ taken' = Append(taken, m) /\ at' = 1 /\ UNCHANGED points
        /\ step' = IF m.replies = <<>> THEN "idle" ELSE "lookup"
    BY DEF Take
  <1>3. m \in Messages
    BY <1>1
  <1>4. /\ n \in Nat /\ DOMAIN taken = 1 .. n /\ DOMAIN taken' = 1 .. n + 1 /\ Len(taken') = n + 1
        /\ taken' # <<>> /\ taken'[n + 1] = m /\ \A j \in 1 .. n : taken'[j] = taken[j]
    BY <1>1, <1>2, <1>3
  <1>5. \A j \in 1 .. n : Done(j)' = Done(j)
    <2> TAKE j \in 1 .. n
    <2>1. Done(j)' = Len(taken[j].replies)
      BY <1>4 DEF Done
    <2>2. Done(j) = Len(taken[j].replies)
      BY <1>1, <1>4 DEF Done, StoredInv, Resting, Message
    <2> QED BY <2>1, <2>2
  <1>6. \A j : j = n + 1 => Done(j)' = 0
    BY <1>2, <1>4 DEF Done
  <1>7. Written' = Written
    <2>1. Written' = UNION {{j} \X (1 .. Done(j)') : j \in DOMAIN taken'}
      BY DEF Written
    <2>2. \A j : j = n + 1 => {j} \X (1 .. Done(j)') = {}
      BY <1>6
    <2>3. \A w : w \in Written' <=> \E j \in 1 .. n + 1 : w \in {j} \X (1 .. Done(j)')
      BY <1>4, <2>1
    <2>4. \A j \in 1 .. n : {j} \X (1 .. Done(j)') = {j} \X (1 .. Done(j))
      BY <1>5
    <2>5. \A w : w \in Written <=> \E j \in 1 .. n : w \in {j} \X (1 .. Done(j))
      BY <1>4, InWritten
    <2>6. \A j \in 1 .. n + 1 : j \in 1 .. n \/ j = n + 1
      BY <1>4
    <2>7. \A j \in 1 .. n : j \in 1 .. n + 1
      BY <1>4
    <2> HIDE DEF n
    <2>8. \A w : w \in Written' <=> w \in Written
      BY <2>2, <2>3, <2>4, <2>5, <2>6, <2>7
    <2> QED BY <2>8
  <1>8. \A w \in Written : Report(w)' = Report(w)
    <2>1. \A w \in Written : w[1] \in 1 .. n
      BY <1>4, InWritten
    <2> QED BY <1>4, <2>1 DEF Report
  <1>9. LastReportStored'
    BY <1>2, <1>7, <1>8, StoredStays DEF StoredInv
  <1>10. Resting'
    <2>1. m.replies = <<>> => Len(m.replies) = 0
      OBVIOUS
    <2> QED BY <1>2, <1>4, <2>1 DEF Resting, Message
  <1> QED BY <1>9, <1>10 DEF StoredInv

LEMMA WritePointStored ==
  ASSUME TypeOK, StoredInv, WritePoint
  PROVE  StoredInv'
  <1> DEFINE n == Len(taken)
             new == <<n, at>>
  <1>1. step = "write" /\ Working
    BY DEF WritePoint, Working
  <1>2. /\ taken \in Seq(Messages) /\ taken # <<>>
        /\ Message.replies \in Seq([dst : Dsts, received : Int \cup {NoReply}])
        /\ at \in 1 .. Len(Message.replies)
    BY <1>1, WorkTypes DEF TypeOK, WriterOK
  <1>3. n \in Nat /\ n # 0 /\ DOMAIN taken = 1 .. n /\ Message = taken[n]
        /\ Len(Message.replies) \in Nat
    BY <1>2 DEF Message
  <1>4. UNCHANGED taken
    BY DEF WritePoint
  <1>5. \A j \in 1 .. n - 1 : Done(j)' = Done(j)
    <2> TAKE j \in 1 .. n - 1
    <2>1. j # n
      <3> HIDE DEF n
      <3> QED BY <1>3
    <2>2. j # Len(taken) /\ j # Len(taken')
      BY <1>4, <2>1
    <2> QED BY <1>4, <2>2 DEF Done
  <1>6. Done(n) = at - 1
    BY <1>2, <1>3 DEF Done
  <1>7. Done(n)' = at
    <2>1. CASE at < Len(Message.replies)
      BY <1>2, <1>3, <1>4, <2>1 DEF WritePoint, Done
    <2>2. CASE ~(at < Len(Message.replies))
      <3>1. at' = 0 /\ at = Len(Message.replies)
        BY <1>2, <1>3, <2>2 DEF WritePoint
      <3> QED BY <1>3, <1>4, <3>1 DEF Done
    <2> QED BY <2>1, <2>2
  <1>8. Written' = Written \cup {new}
    <2>1. Written' = UNION {{j} \X (1 .. Done(j)') : j \in DOMAIN taken}
      BY <1>4 DEF Written
    <2>2. 1 .. at = (1 .. at - 1) \cup {at}
      BY <1>2
    <2>3. DOMAIN taken = (1 .. n - 1) \cup {n}
      BY <1>3
    <2>4. {n} \X (1 .. at) = ({n} \X (1 .. at - 1)) \cup {new}
      BY <2>2
    <2>5. \A j : j = n => Done(j)' = at
      BY <1>4, <1>7
    <2>6. \A w : w \in Written' <=>
                   w \in {n} \X (1 .. at) \/ \E j \in 1 .. n - 1 : w \in {j} \X (1 .. Done(j))
      BY <1>5, <2>1, <2>3, <2>5
    <2>7. \A w : w \in Written <=>
                   \/ w \in {n} \X (1 .. at - 1)
                   \/ \E j \in 1 .. n - 1 : w \in {j} \X (1 .. Done(j))
      BY <1>6, <2>3, InWritten
    <2>8. \A w : w \in Written' <=> w \in Written \/ w = new
      BY <2>4, <2>6, <2>7
    <2> QED BY <2>8
  <1>9. \A w : Report(w)' = Report(w)
    BY <1>4 DEF Report
  <1>10. \A w \in Written : Before(w, new) /\ ~Before(new, w)
    <2> TAKE w \in Written
    <2>1. PICK j \in 1 .. n : w \in {j} \X (1 .. Done(j))
      BY <1>3, InWritten
    <2>2. w[1] = j /\ w[2] \in 1 .. Done(j)
      BY <2>1
    <2>3. j = n => w[2] \in 1 .. at - 1
      BY <1>6, <2>2
    <2>4. at \in Nat
      BY <1>2, <1>3
    <2>5. new[1] = n /\ new[2] = at
      OBVIOUS
    <2>6. w[1] < n \/ (w[1] = n /\ w[2] \in Int /\ w[2] < at)
      <3> HIDE DEF n
      <3>1. j \in 1 .. n /\ (j < n \/ j = n)
        BY <1>3
      <3>2. j = n => w[2] \in Int /\ w[2] < at
        BY <2>3, <2>4
      <3> QED BY <2>2, <3>1, <3>2
    <2>7. w[1] \in Int
      BY <1>3, <2>2
    <2> HIDE DEF n, new
    <2> QED BY <1>3, <2>4, <2>5, <2>6, <2>7 DEF Before
  <1>11. ~Before(new, new)
    BY <1>2, <1>3 DEF Before
  <1>12. Report(new) = Point(Message, Reply)
    BY <1>3 DEF Report, Point, PointKey, Second, Latency, Reply
  <1>13. Report(new).key = PointKey(Message, Reply)
    BY <1>12 DEF Point
  <1>14. points' = {q \in points : q.key # Report(new).key} \cup {Report(new)}
    BY <1>12, <1>13 DEF WritePoint
  <1>15. \A v : v = new => ~Overwritten(v)'
    BY <1>8, <1>9, <1>10, <1>11 DEF Overwritten
  <1>16. \A v \in Written :
           Overwritten(v)' <=> Overwritten(v) \/ Report(v).key = Report(new).key
    BY <1>8, <1>9, <1>10 DEF Overwritten
  <1>17. LastReportStored'
    <2>1. \A q : q \in points <=> \E w \in Written : ~Overwritten(w) /\ q = Report(w)
      BY DEF StoredInv, LastReportStored
    <2>2. \A q : q \in points' <=>
                   \/ q = Report(new)
                   \/ \E w \in Written : /\ ~Overwritten(w) /\ Report(w).key # Report(new).key
                                         /\ q = Report(w)
      BY <1>14, <2>1
    <2>3. \A q : q \in points' <=> \E w \in Written' : ~Overwritten(w)' /\ q = Report(w)'
      BY <1>8, <1>9, <1>15, <1>16, <2>2
    <2> QED BY <2>3 DEF LastReportStored
  <1>18. Resting'
    BY <1>2, <1>3 DEF WritePoint, Resting
  <1> QED BY <1>17, <1>18 DEF StoredInv

\* What is stored is what was reported of the replies written, and of those with
\* the same prober, destination and second the last one (writer.py:37,
\* database_influxdb.py:198).
THEOREM LastReportAlwaysStored == Spec => []LastReportStored
  <1>1. Init => StoredInv
    <2> SUFFICES ASSUME Init PROVE StoredInv
      OBVIOUS
    <2>1. Written = {}
      BY DEF Init, Written
    <2> QED BY <2>1 DEF Init, StoredInv, Resting, LastReportStored
  <1>2. PairInv /\ StoredInv /\ [Next]_vars => StoredInv'
    <2> SUFFICES ASSUME TypeOK, StoredInv, [Next]_vars PROVE StoredInv'
      BY DEF PairInv
    <2>1. CASE Take
      BY <2>1, TakeStored
    <2>2. CASE WritePoint
      BY <2>2, WritePointStored
    <2>3. CASE ~Take /\ ~WritePoint
      <3>1. UNCHANGED <<taken, at, points>> /\ (step' = "idle" => step = "idle")
        BY <2>3 DEF Next, WebServer, Create, Rename, Delete, Edit, Enqueue, Writer, CacheHit,
             CacheMiss, FilterPairs, PairMissing, FindOwner, InsertPair, EndLoop, DatabaseFails,
             Expire, Stop, WriterOnly, vars
      <3> QED BY <3>1, StoredSame
    <2> QED BY <2>1, <2>2, <2>3
  <1>3. StoredInv => LastReportStored
    BY DEF StoredInv
  <1> QED BY <1>1, <1>2, <1>3, PairInvariant, PTL DEF Spec
=============================================================================
