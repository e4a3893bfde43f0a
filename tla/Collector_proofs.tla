---------------------------- MODULE Collector_proofs ----------------------------
(* Proofs about Collector, for any names, connections and messages. *)
EXTENDS Collector, SequenceTheorems, TLAPS

NoDuplicates(s) == \A i, j \in DOMAIN s : s[i] = s[j] => i = j

\* The notifier's loop visits names that are keys, each of them once; between its
\* loops it has none to visit.
RestSound ==
  /\ NoDuplicates(rest)
  /\ Range(rest) \subseteq Range(keys)
  /\ npc \notin {"notifying", "awaiting"} => rest = <<>>

\* No version is ahead of the database.
NoneAhead ==
  /\ \A c \in Conns : targets[Who[c]] # 0 => sent[c] <= targets[Who[c]]
  /\ \A i \in DOMAIN results :
       targets[Who[results[i].c]] # 0 => results[i].v <= targets[Who[results[i].c]]

\* Answers are in the order of versions, and none is behind what was sent.
AnswersOrdered ==
  /\ \A i \in DOMAIN results : results[i].v # 0 => sent[results[i].c] <= results[i].v
  /\ \A i, j \in DOMAIN results :
       i < j /\ results[i].c = results[j].c /\ results[j].v # 0 => results[i].v <= results[j].v

RegistryInv == TypeOK /\ VisitedAreRegistered /\ RestSound

VersionInv == NoneAhead /\ AnswersOrdered

CollectorInv == RegistryInv /\ VersionInv
-----------------------------------------------------------------------------
(* Sequences *)

LEMMA RemovedProperties ==
  ASSUME NEW S, NEW s \in Seq(S), NEW i \in DOMAIN s
  PROVE  /\ RemoveAt(s, i) \in Seq(S)
         /\ Len(RemoveAt(s, i)) = Len(s) - 1
         /\ \A j \in 1 .. Len(s) - 1 :
              RemoveAt(s, i)[j] = IF j < i THEN s[j] ELSE s[j + 1]
  <1> DEFINE head == SubSeq(s, 1, i - 1)
             tail == SubSeq(s, i + 1, Len(s))
  <1>1. Len(s) \in Nat /\ i \in 1 .. Len(s) /\ \A j \in 1 .. Len(s) : s[j] \in S
    OBVIOUS
  <1>2. /\ head \in Seq(S) /\ Len(head) = i - 1
        /\ \A j \in 1 .. i - 1 : head[j] = s[j]
    BY <1>1, SubSeqProperties
  <1>3. /\ tail \in Seq(S) /\ Len(tail) = Len(s) - i
        /\ \A j \in 1 .. Len(s) - i : tail[j] = s[i + j]
    BY <1>1, SubSeqProperties
  <1>4. /\ head \o tail \in Seq(S) /\ Len(head \o tail) = Len(head) + Len(tail)
        /\ \A j \in 1 .. Len(head) + Len(tail) :
             (head \o tail)[j] = IF j <= Len(head) THEN head[j] ELSE tail[j - Len(head)]
    BY <1>2, <1>3, ConcatProperties
  <1> DEFINE cat == head \o tail
  <1>5. RemoveAt(s, i) = cat
    BY DEF RemoveAt
  <1> HIDE DEF head, tail, cat
  <1>6. (i - 1) + (Len(s) - i) = Len(s) - 1
    BY <1>1
  <1>7. /\ cat \in Seq(S) /\ Len(cat) = Len(s) - 1
        /\ \A j \in 1 .. Len(s) - 1 :
             cat[j] = IF j <= i - 1 THEN head[j] ELSE tail[j - (i - 1)]
    BY <1>2, <1>3, <1>4, <1>6 DEF cat
  <1>8. ASSUME NEW j \in 1 .. Len(s) - 1
        PROVE  cat[j] = IF j < i THEN s[j] ELSE s[j + 1]
    <2>1. CASE j < i
      <3>1. j <= i - 1 /\ j \in 1 .. i - 1
        BY <2>1, <1>1
      <3> QED BY <2>1, <3>1, <1>2, <1>7
    <2>2. CASE ~(j < i)
      <3>1. /\ ~(j <= i - 1) /\ j - (i - 1) \in 1 .. Len(s) - i
            /\ i + (j - (i - 1)) = j + 1
        BY <2>2, <1>1
      <3>2. cat[j] = tail[j - (i - 1)]
        BY <3>1, <1>7
      <3>3. tail[j - (i - 1)] = s[i + (j - (i - 1))]
        BY <3>1, <1>3
      <3> QED BY <2>2, <3>1, <3>2, <3>3
    <2> QED BY <2>1, <2>2
  <1> QED BY <1>5, <1>7, <1>8

LEMMA RangeIsElements ==
  ASSUME NEW S, NEW s \in Seq(S), NEW x
  PROVE  x \in Range(s) <=> \E i \in DOMAIN s : s[i] = x
  BY DEF Range

LEMMA WithoutProperties ==
  ASSUME NEW S, NEW s \in Seq(S), NoDuplicates(s), NEW n
  PROVE  /\ Without(s, n) \in Seq(S)
         /\ NoDuplicates(Without(s, n))
         /\ Range(Without(s, n)) = Range(s) \ {n}
  <1>1. CASE n \notin Range(s)
    BY <1>1 DEF Without
  <1>2. CASE n \in Range(s)
    <2> DEFINE i == CHOOSE j \in DOMAIN s : s[j] = n
               r == RemoveAt(s, i)
    <2>1. i \in DOMAIN s /\ s[i] = n
      BY <1>2, RangeIsElements
    <2>2. Without(s, n) = r
      BY <1>2 DEF Without
    <2> HIDE DEF i
    <2>3. /\ r \in Seq(S) /\ Len(r) = Len(s) - 1
          /\ \A j \in 1 .. Len(s) - 1 : r[j] = IF j < i THEN s[j] ELSE s[j + 1]
      BY <2>1, RemovedProperties
    <2> HIDE DEF r
    <2>4. /\ Len(s) \in Nat /\ DOMAIN s = 1 .. Len(s) /\ i \in 1 .. Len(s)
          /\ DOMAIN r = 1 .. Len(s) - 1
      BY <2>1, <2>3, LenProperties
    <2>5. NoDuplicates(r)
      <3> DEFINE from(j) == IF j < i THEN j ELSE j + 1
      <3>1. ASSUME NEW j \in 1 .. Len(s) - 1
            PROVE  from(j) \in DOMAIN s /\ r[j] = s[from(j)]
        BY <2>3, <2>4
      <3>2. ASSUME NEW j \in 1 .. Len(s) - 1, NEW k \in 1 .. Len(s) - 1, from(j) = from(k)
            PROVE  j = k
        BY <3>2, <2>4
      <3> HIDE DEF from
      <3>3. ASSUME NEW j \in 1 .. Len(s) - 1, NEW k \in 1 .. Len(s) - 1, r[j] = r[k]
            PROVE  j = k
        <4>1. from(j) = from(k)
          BY <3>1, <3>3 DEF NoDuplicates
        <4> QED BY <3>2, <4>1
      <3> QED BY <2>4, <3>3 DEF NoDuplicates
    <2>6. ASSUME NEW x \in Range(r) PROVE x \in Range(s) \ {n}
      <3>1. PICK j \in 1 .. Len(s) - 1 : r[j] = x
        BY <2>3, <2>4, RangeIsElements
      <3>2. PICK k \in DOMAIN s : k # i /\ s[k] = x
        BY <2>3, <2>4, <3>1
      <3>3. x # n
        BY <2>1, <3>2 DEF NoDuplicates
      <3> QED BY <3>2, <3>3, RangeIsElements
    <2>7. ASSUME NEW x \in Range(s) \ {n} PROVE x \in Range(r)
      <3>1. PICK k \in 1 .. Len(s) : s[k] = x
        BY <2>4, RangeIsElements
      <3>2. k # i
        BY <2>1, <3>1
      <3>3. CASE k < i
        <4>1. k \in 1 .. Len(s) - 1 /\ r[k] = x
          BY <2>3, <2>4, <3>1, <3>3
        <4> QED BY <2>3, <2>4, <4>1, RangeIsElements
      <3>4. CASE k > i
        <4>1. k - 1 \in 1 .. Len(s) - 1 /\ ~(k - 1 < i) /\ (k - 1) + 1 = k
          BY <2>4, <3>4
        <4>2. r[k - 1] = x
          BY <2>3, <3>1, <4>1
        <4> QED BY <2>3, <2>4, <4>1, <4>2, RangeIsElements
      <3> QED BY <2>4, <3>2, <3>3, <3>4
    <2> QED BY <2>2, <2>3, <2>5, <2>6, <2>7
  <1> QED BY <1>1, <1>2

LEMMA AppendRange ==
  ASSUME NEW S, NEW s \in Seq(S), NEW e \in S
  PROVE  /\ Append(s, e) \in Seq(S)
         /\ Range(Append(s, e)) = Range(s) \cup {e}
         /\ NoDuplicates(s) /\ e \notin Range(s) => NoDuplicates(Append(s, e))
  <1> DEFINE a == Append(s, e)
  <1>1. /\ a \in Seq(S) /\ Len(a) = Len(s) + 1 /\ Len(s) \in Nat
        /\ DOMAIN s = 1 .. Len(s) /\ DOMAIN a = 1 .. Len(s) + 1
        /\ \A i \in 1 .. Len(s) : a[i] = s[i]
        /\ a[Len(s) + 1] = e
    BY AppendProperties, LenProperties
  <1> HIDE DEF a
  <1>2. Range(a) = Range(s) \cup {e}
    <2>1. \A x : x \in Range(a) <=> \E i \in 1 .. Len(s) + 1 : a[i] = x
      BY <1>1, RangeIsElements
    <2>2. \A x : x \in Range(s) <=> \E i \in 1 .. Len(s) : s[i] = x
      BY <1>1, RangeIsElements
    <2> QED BY <1>1, <2>1, <2>2
  <1>3. ASSUME NoDuplicates(s), e \notin Range(s) PROVE NoDuplicates(a)
    <2>1. \A i \in 1 .. Len(s) : s[i] # e
      BY <1>1, <1>3, RangeIsElements
    <2> QED BY <1>1, <1>3, <2>1 DEF NoDuplicates
  <1> QED BY <1>1, <1>2, <1>3 DEF a

LEMMA TailRange ==
  ASSUME NEW S, NEW s \in Seq(S), s # <<>>
  PROVE  /\ Tail(s) \in Seq(S) /\ Head(s) \in Range(s) /\ Head(s) \in S
         /\ Range(Tail(s)) \subseteq Range(s)
         /\ NoDuplicates(s) => NoDuplicates(Tail(s))
  <1> DEFINE t == Tail(s)
  <1>1. /\ t \in Seq(S) /\ Len(t) = Len(s) - 1 /\ Len(s) \in Nat \ {0}
        /\ DOMAIN s = 1 .. Len(s) /\ DOMAIN t = 1 .. Len(s) - 1
        /\ \A i \in 1 .. Len(s) - 1 : t[i] = s[i + 1]
        /\ Head(s) = s[1] /\ Head(s) \in S
    BY HeadTailProperties, LenProperties, EmptySeq
  <1> HIDE DEF t
  <1>2. Head(s) \in Range(s)
    BY <1>1, RangeIsElements
  <1>3. Range(t) \subseteq Range(s)
    <2> SUFFICES ASSUME NEW x \in Range(t) PROVE x \in Range(s)
      OBVIOUS
    <2>1. PICK i \in 1 .. Len(s) - 1 : t[i] = x
      BY <1>1, RangeIsElements
    <2>2. i + 1 \in DOMAIN s /\ s[i + 1] = x
      BY <1>1, <2>1
    <2> QED BY <2>2, RangeIsElements
  <1>4. NoDuplicates(s) => NoDuplicates(t)
    BY <1>1 DEF NoDuplicates
  <1> QED BY <1>1, <1>2, <1>3, <1>4 DEF t

-----------------------------------------------------------------------------
(* The registry *)

USE DEF dbVars, sessionVars, workerVars, notifierVars, historyVars

LEMMA InitRegistry == Init => RegistryInv
  <1> SUFFICES ASSUME Init PROVE RegistryInv
    OBVIOUS
  <1>1. MaxVersion \in Nat /\ MaxVersion >= 1 /\ Who \in [Conns -> Names]
    BY VersionAssumption, WhoAssumption
  <1>2. /\ <<>> \in Seq(Names) /\ <<>> \in Seq(Job) /\ <<>> \in Seq(Answer)
        /\ DOMAIN <<>> = {}
    BY EmptySeq
  <1>3. TypeOK
    BY <1>1, <1>2 DEF Init, TypeOK
  <1>4. Range(keys) = {}
    BY <1>2 DEF Init, Range
  <1>5. VisitedAreRegistered /\ RestSound
    BY <1>2, <1>4 DEF Init, VisitedAreRegistered, Registered, RestSound, NoDuplicates
  <1> QED BY <1>3, <1>5 DEF RegistryInv

\* What leaves the registry and the notifier's loop alone, or ends the loop.
LEMMA RegistryUntouched ==
  ASSUME VisitedAreRegistered, RestSound, UNCHANGED <<clients, keys>>,
         \/ rest' = rest /\ (npc' = npc \/ rest = <<>> \/ npc' \in {"notifying", "awaiting"})
         \/ rest' = <<>>
  PROVE  VisitedAreRegistered' /\ RestSound'
  <1>1. DOMAIN <<>> = {} /\ Range(<<>>) = {}
    BY DEF Range
  <1>2. NoDuplicates(rest') /\ Range(rest') \subseteq Range(keys')
    BY <1>1 DEF RestSound, NoDuplicates
  <1>3. npc' \notin {"notifying", "awaiting"} => rest' = <<>>
    BY DEF RestSound
  <1>4. RestSound'
    BY <1>2, <1>3 DEF RestSound, NoDuplicates
  <1> QED BY <1>2, <1>4 DEF VisitedAreRegistered, Registered

LEMMA WebRegistry ==
  ASSUME RegistryInv, WebServer
  PROVE  RegistryInv'
  <1>1. VisitedAreRegistered' /\ RestSound'
    BY RegistryUntouched DEF RegistryInv, WebServer, Edit, Delete, Post
  <1>2. TypeOK'
    <2>1. CASE \E n \in Names : Edit(n)
      <3>1. PICK n \in Names : Edit(n)
        BY <2>1
      <3>2. targets' \in [Names -> 0 .. MaxVersion]
        BY <3>1, VersionAssumption DEF RegistryInv, TypeOK, Edit
      <3> QED BY <3>1, <3>2 DEF RegistryInv, TypeOK, Edit
    <2>2. CASE \E n \in Names : Delete(n)
      <3>1. PICK n \in Names : Delete(n)
        BY <2>2
      <3>2. targets' \in [Names -> 0 .. MaxVersion]
        BY <3>1, VersionAssumption DEF RegistryInv, TypeOK, Delete
      <3> QED BY <3>1, <3>2 DEF RegistryInv, TypeOK, Delete
    <2>3. CASE \E m \in Messages : Post(m)
      BY <2>3 DEF RegistryInv, TypeOK, Post
    <2> QED BY <2>1, <2>2, <2>3 DEF WebServer
  <1> QED BY <1>1, <1>2 DEF RegistryInv

\* An answer that is taken up is one of the worker's.
LEMMA TakenAnswer ==
  ASSUME TypeOK, NEW i \in NextAnswer, NEW kind, NEW c, TakeUp(i, kind, c)
  PROVE  /\ i = 1 /\ 1 \in DOMAIN results /\ results[1] \in Answer
         /\ results[1].kind = kind /\ results[1].c = c
         /\ c \in Conns /\ results[1].v \in 0 .. MaxVersion
         /\ results' \in Seq(Answer)
         /\ DOMAIN results = 1 .. Len(results) /\ DOMAIN results' = 1 .. Len(results) - 1
         /\ \A j \in 1 .. Len(results) - 1 : results'[j] = results[j + 1]
  <1>1. i = 1 /\ 1 \in DOMAIN results /\ results \in Seq(Answer)
    BY DEF NextAnswer, TypeOK
  <1>2. results[1] \in Answer /\ DOMAIN results = 1 .. Len(results) /\ Len(results) \in Nat
    BY <1>1, LenProperties, ElementOfSeq
  <1>3. results' = RemoveAt(results, 1)
    BY <1>1 DEF TakeUp
  <1>4. /\ results' \in Seq(Answer) /\ Len(results') = Len(results) - 1
        /\ \A j \in 1 .. Len(results) - 1 :
             results'[j] = IF j < 1 THEN results[j] ELSE results[j + 1]
    BY <1>1, <1>3, RemovedProperties
  <1>5. \A j \in 1 .. Len(results) - 1 : ~(j < 1)
    BY <1>2
  <1> QED BY <1>1, <1>2, <1>4, <1>5, LenProperties DEF TakeUp, Answer

LEMMA WorkerRegistry ==
  ASSUME RegistryInv, Worker
  PROVE  RegistryInv'
  <1>1. VisitedAreRegistered' /\ RestSound'
    BY RegistryUntouched DEF RegistryInv, Worker
  <1> DEFINE answer == [kind |-> Head(jobs).kind, c |-> Head(jobs).c,
                        v |-> targets[Who[Head(jobs).c]]]
  <1>2. Head(jobs) \in Job /\ jobs' \in Seq(Job)
    BY TailRange DEF RegistryInv, TypeOK, Worker
  <1>3. answer \in Answer
    BY <1>2, WhoAssumption DEF Job, Answer, RegistryInv, TypeOK
  <1>4. results' \in Seq(Answer)
    BY <1>3, AppendProperties DEF RegistryInv, TypeOK, Worker
  <1>5. TypeOK'
    BY <1>2, <1>4 DEF RegistryInv, TypeOK, Worker
  <1> QED BY <1>1, <1>5 DEF RegistryInv

LEMMA ConnectionRegistry ==
  ASSUME RegistryInv, NEW c \in Conns,
         Connect(c) \/ Disconnect(c) \/ AuthUnregistered(c) \/ AuthDuplicate(c)
  PROVE  RegistryInv'
  <1>1. VisitedAreRegistered' /\ RestSound'
    BY RegistryUntouched
      DEF RegistryInv, Connect, Disconnect, AuthUnregistered, AuthDuplicate, CloseSession
  <1>2. CASE Connect(c) \/ Disconnect(c) \/ AuthDuplicate(c)
    BY <1>1, <1>2 DEF RegistryInv, TypeOK, Connect, Disconnect, AuthDuplicate, CloseSession
  <1>3. CASE AuthUnregistered(c)
    <2>1. jobs' \in Seq(Job)
      BY <1>3, AppendProperties DEF AuthUnregistered, RegistryInv, TypeOK, Job
    <2>2. TypeOK'
      BY <1>3, <2>1 DEF RegistryInv, TypeOK, AuthUnregistered
    <2> QED BY <1>1, <2>2 DEF RegistryInv
  <1> QED BY <1>2, <1>3

LEMMA RegisterRegistry ==
  ASSUME RegistryInv, NEW c \in Conns, Register(c)
  PROVE  RegistryInv'
  <1> DEFINE n == Who[c]
  <1>1. n \in Names /\ c # NoConn
    BY WhoAssumption, NoConnAssumption
  <1>2. results' \in Seq(Answer)
    BY TakenAnswer DEF Register, RegistryInv
  <1>3. jobs' \in Seq(Job)
    BY AppendProperties DEF Register, RegistryInv, TypeOK, Job
  <1>4. keys \in Seq(Names) /\ rest \in Seq(Names) /\ NoDuplicates(keys) /\ NoDuplicates(rest)
    BY DEF RegistryInv, TypeOK, RestSound, NoDuplicates
  <1>5. keys' \in Seq(Names) /\ NoDuplicates(keys') /\ Range(keys') = Range(keys) \cup {n}
    BY <1>1, <1>4, AppendRange DEF Register, KeysWith, Registered
  <1>6. rest' \in Seq(Names) /\ NoDuplicates(rest') /\ Range(rest') \subseteq Range(keys')
    <2>1. Range(rest) \subseteq Range(keys)
      BY DEF RegistryInv, RestSound
    <2>2. CASE rest' = rest
      BY <2>1, <2>2, <1>4, <1>5
    <2>3. CASE n \notin Range(keys) /\ rest' = Append(rest, n)
      BY <2>1, <2>3, <1>1, <1>4, <1>5, AppendRange
    <2> QED BY <2>2, <2>3 DEF Register, Registered
  <1>7. RestSound'
    BY <1>6 DEF RestSound, RegistryInv, Register, NoDuplicates
  <1>8. VisitedAreRegistered'
    <2>1. \A m \in Names : clients'[m] = IF m = n THEN c ELSE clients[m]
      BY <1>1 DEF Register, RegistryInv, TypeOK
    <2>2. \A m \in Names : clients[m] # NoConn <=> m \in Range(keys)
      BY DEF RegistryInv, VisitedAreRegistered, Registered
    <2>3. \A m \in Names : clients'[m] # NoConn <=> m \in Range(keys')
      BY <1>1, <1>5, <2>1, <2>2
    <2> QED BY <1>6, <2>3 DEF VisitedAreRegistered, Registered
  <1>9. TypeOK'
    BY <1>1, <1>2, <1>3, <1>5, <1>6 DEF RegistryInv, TypeOK, Register, NoDuplicates
  <1> QED BY <1>7, <1>8, <1>9 DEF RegistryInv

LEMMA AnswerRegistry ==
  ASSUME RegistryInv, NEW c \in Conns,
         RejectUnknown(c) \/ SessionTargets(c) \/ SessionTargetsFail(c)
  PROVE  RegistryInv'
  <1>1. VisitedAreRegistered' /\ RestSound'
    BY RegistryUntouched
      DEF RegistryInv, RejectUnknown, SessionTargets, SessionTargetsFail, CloseSession
  <1>2. results' \in Seq(Answer)
    BY TakenAnswer DEF RegistryInv, RejectUnknown, SessionTargets, SessionTargetsFail
  <1>3. CASE RejectUnknown(c)
    BY <1>1, <1>2, <1>3 DEF RegistryInv, TypeOK, RejectUnknown, CloseSession
  <1>4. CASE SessionTargets(c)
    <2>1. sent' \in [Conns -> 0 .. MaxVersion] /\ sopen' \in [Conns -> BOOLEAN]
      <3>1. PICK i \in NextAnswer : TakeUp(i, "session", c) /\ SendTargets(c, results[i].v)
        BY <1>4 DEF SessionTargets
      <3>2. results[i].v \in 0 .. MaxVersion
        BY <3>1, TakenAnswer DEF RegistryInv
      <3> QED BY <3>1, <3>2 DEF SendTargets, RegistryInv, TypeOK
    <2> QED BY <1>1, <1>2, <1>4, <2>1 DEF RegistryInv, TypeOK, SessionTargets
  <1>5. CASE SessionTargetsFail(c)
    BY <1>1, <1>2, <1>5 DEF RegistryInv, TypeOK, SessionTargetsFail
  <1> QED BY <1>3, <1>4, <1>5

LEMMA EndRegistry ==
  ASSUME RegistryInv, NEW c \in Conns, SessionEnds(c)
  PROVE  RegistryInv'
  <1> DEFINE n == Who[c]
  <1>1. n \in Names
    BY WhoAssumption
  <1>2. CASE UNCHANGED <<clients, keys, rest>>
    <2>1. VisitedAreRegistered' /\ RestSound'
      BY <1>2, RegistryUntouched DEF RegistryInv, SessionEnds
    <2> QED BY <1>2, <2>1 DEF RegistryInv, TypeOK, SessionEnds
  <1>3. CASE PopName(n)
    <2>1. keys \in Seq(Names) /\ rest \in Seq(Names) /\ NoDuplicates(keys) /\ NoDuplicates(rest)
      BY DEF RegistryInv, TypeOK, RestSound, NoDuplicates
    <2>2. /\ keys' \in Seq(Names) /\ NoDuplicates(keys') /\ Range(keys') = Range(keys) \ {n}
          /\ rest' \in Seq(Names) /\ NoDuplicates(rest') /\ Range(rest') = Range(rest) \ {n}
      BY <1>3, <2>1, WithoutProperties DEF PopName
    <2>3. \A m \in Names : clients'[m] = IF m = n THEN NoConn ELSE clients[m]
      BY <1>1, <1>3 DEF PopName, RegistryInv, TypeOK
    <2>4. \A m \in Names : clients[m] # NoConn <=> m \in Range(keys)
      BY DEF RegistryInv, VisitedAreRegistered, Registered
    <2>5. Range(rest') \subseteq Range(keys')
      BY <2>2 DEF RegistryInv, RestSound
    <2>6. VisitedAreRegistered'
      BY <2>2, <2>3, <2>4, <2>5 DEF VisitedAreRegistered, Registered
    <2>7. npc' \notin {"notifying", "awaiting"} => rest' = <<>>
      <3>1. Without(<<>>, n) = <<>>
        BY DEF Without, Range
      <3> QED BY <1>3, <3>1 DEF PopName, RegistryInv, RestSound, SessionEnds
    <2>8. RestSound'
      BY <2>2, <2>5, <2>7 DEF RestSound, NoDuplicates
    <2>9. TypeOK'
      BY <1>3, <2>2 DEF RegistryInv, TypeOK, SessionEnds, PopName, NoDuplicates
    <2> QED BY <2>6, <2>8, <2>9 DEF RegistryInv
  <1> QED BY <1>2, <1>3 DEF SessionEnds

LEMMA NotifierRegistry ==
  ASSUME RegistryInv, Notifier
  PROVE  RegistryInv'
  <1>1. CASE WakeUp \/ ListUnread \/ MarkRead \/ NotifyRuntimeError \/ NotifyDone
    <2>1. VisitedAreRegistered' /\ RestSound'
      BY <1>1, RegistryUntouched
        DEF RegistryInv, RestSound, WakeUp, ListUnread, MarkRead, NotifyRuntimeError, NotifyDone
    <2>2. TypeOK'
      <3>1. <<>> \in Seq(Names)
        BY EmptySeq
      <3> QED BY <1>1, <3>1
        DEF RegistryInv, TypeOK, WakeUp, ListUnread, MarkRead, NotifyRuntimeError, NotifyDone
    <2> QED BY <2>1, <2>2 DEF RegistryInv
  <1>2. CASE CheckMessages
    <2>1. CASE got = {} \/ keys = <<>>
      <3>1. VisitedAreRegistered' /\ RestSound'
        BY <1>2, <2>1, RegistryUntouched DEF RegistryInv, RestSound, CheckMessages
      <3> QED BY <1>2, <2>1, <3>1 DEF RegistryInv, TypeOK, CheckMessages
    <2>2. CASE got # {} /\ keys # <<>>
      <3>1. /\ npc' = "awaiting" /\ rest' = Tail(keys) /\ size' = Len(keys)
            /\ UNCHANGED <<clients, keys>>
            /\ jobs' = Append(jobs, [kind |-> "notify", c |-> clients[Head(keys)]])
        BY <1>2, <2>2 DEF CheckMessages
      <3>2. keys \in Seq(Names) /\ Len(keys) \in Nat /\ NoDuplicates(keys)
        BY LenProperties DEF RegistryInv, TypeOK, NoDuplicates
      <3>3. /\ Tail(keys) \in Seq(Names) /\ Head(keys) \in Names /\ Head(keys) \in Range(keys)
            /\ Range(Tail(keys)) \subseteq Range(keys) /\ NoDuplicates(Tail(keys))
        BY <2>2, <3>2, TailRange
      <3>4. clients[Head(keys)] \in Conns
        BY <3>3 DEF RegistryInv, VisitedAreRegistered, Registered, TypeOK
      <3>5. jobs' \in Seq(Job)
        BY <3>1, <3>4, AppendProperties DEF RegistryInv, TypeOK, Job
      <3>6. VisitedAreRegistered' /\ RestSound'
        BY <3>1, <3>3 DEF RegistryInv, VisitedAreRegistered, Registered, RestSound, NoDuplicates
      <3>7. TypeOK'
        BY <1>2, <3>1, <3>2, <3>3, <3>5 DEF RegistryInv, TypeOK, CheckMessages
      <3> QED BY <3>6, <3>7 DEF RegistryInv
    <2> QED BY <2>1, <2>2
  <1>3. CASE NotifyNext
    <2>1. /\ rest' \in Seq(Names) /\ Head(rest) \in Names /\ Head(rest) \in Range(rest)
          /\ Range(rest') \subseteq Range(rest) /\ NoDuplicates(rest')
      BY <1>3, TailRange DEF NotifyNext, RegistryInv, TypeOK, RestSound
    <2>2. clients[Head(rest)] \in Conns
      BY <2>1 DEF RegistryInv, RestSound, VisitedAreRegistered, Registered, TypeOK
    <2>3. jobs' \in Seq(Job)
      BY <1>3, <2>2, AppendProperties DEF NotifyNext, RegistryInv, TypeOK, Job
    <2>4. VisitedAreRegistered' /\ RestSound'
      BY <1>3, <2>1
        DEF NotifyNext, RegistryInv, VisitedAreRegistered, Registered, RestSound, NoDuplicates
    <2>5. TypeOK'
      BY <1>3, <2>1, <2>3 DEF NotifyNext, RegistryInv, TypeOK
    <2> QED BY <2>4, <2>5 DEF RegistryInv
  <1>4. ASSUME NEW c \in Conns, NotifyTargets(c) PROVE RegistryInv'
    <2>1. VisitedAreRegistered' /\ RestSound'
      BY <1>4, RegistryUntouched DEF RegistryInv, NotifyTargets, AfterSend
    <2>2. PICK i \in NextAnswer : TakeUp(i, "notify", c) /\ SendTargets(c, results[i].v)
      BY <1>4 DEF NotifyTargets
    <2>3. results[i].v \in 0 .. MaxVersion /\ results' \in Seq(Answer)
      BY <2>2, TakenAnswer DEF RegistryInv
    <2>4. sent' \in [Conns -> 0 .. MaxVersion] /\ sopen' \in [Conns -> BOOLEAN]
      BY <2>2, <2>3 DEF SendTargets, RegistryInv, TypeOK
    <2>5. TypeOK'
      BY <1>4, <2>3, <2>4 DEF NotifyTargets, AfterSend, RegistryInv, TypeOK
    <2> QED BY <2>1, <2>5 DEF RegistryInv
  <1>5. ASSUME NEW c \in Conns, NotifyTargetsFail(c) PROVE RegistryInv'
    <2>1. VisitedAreRegistered' /\ RestSound'
      BY <1>5, RegistryUntouched DEF RegistryInv, NotifyTargetsFail
    <2>2. results' \in Seq(Answer)
      BY <1>5, TakenAnswer DEF NotifyTargetsFail, RegistryInv
    <2>3. TypeOK'
      BY <1>5, <2>2, EmptySeq DEF NotifyTargetsFail, RegistryInv, TypeOK
    <2> QED BY <2>1, <2>3 DEF RegistryInv
  <1> QED BY <1>1, <1>2, <1>3, <1>4, <1>5 DEF Notifier

LEMMA StutterRegistry ==
  ASSUME RegistryInv, UNCHANGED vars
  PROVE  RegistryInv'
  BY DEF RegistryInv, TypeOK, VisitedAreRegistered, Registered, RestSound, NoDuplicates, vars

\* The registry through any step.
LEMMA StepRegistry ==
  ASSUME RegistryInv, [Next]_vars
  PROVE  RegistryInv'
  <1>1. ASSUME NEW c \in Conns, Connect(c) \/ Disconnect(c) \/ Session(c)
        PROVE  RegistryInv'
    BY <1>1, ConnectionRegistry, RegisterRegistry, AnswerRegistry, EndRegistry DEF Session
  <1> QED BY <1>1, WebRegistry, WorkerRegistry, NotifierRegistry, StutterRegistry DEF Next

-----------------------------------------------------------------------------
(* The versions *)

LEMMA InitVersions == Init => VersionInv
  <1> SUFFICES ASSUME Init PROVE VersionInv
    OBVIOUS
  <1>1. DOMAIN results = {} /\ \A c \in Conns : sent[c] = 0 /\ targets[Who[c]] = 1
    BY WhoAssumption DEF Init
  <1> QED BY <1>1 DEF VersionInv, NoneAhead, AnswersOrdered

\* What leaves the answers and what was sent alone, and no list older.
LEMMA VersionsUntouched ==
  ASSUME TypeOK, VersionInv, UNCHANGED <<results, sent>>, targets' \in [Names -> 0 .. MaxVersion],
         \A n \in Names : targets'[n] = 0 \/ (targets[n] # 0 /\ targets'[n] >= targets[n])
  PROVE  VersionInv'
  <1>1. \A i \in DOMAIN results : results[i] \in Answer
    BY ElementOfSeq DEF TypeOK
  <1>2. \A i \in DOMAIN results : results[i].c \in Conns /\ results[i].v \in Nat
    BY <1>1, VersionAssumption DEF Answer
  <1>3. /\ \A c \in Conns : Who[c] \in Names /\ sent[c] \in Nat
        /\ \A n \in Names : targets[n] \in Nat /\ targets'[n] \in Nat
    BY WhoAssumption, VersionAssumption DEF TypeOK
  <1>4. NoneAhead'
    BY <1>2, <1>3 DEF VersionInv, NoneAhead
  <1>5. AnswersOrdered'
    BY DEF VersionInv, AnswersOrdered
  <1> QED BY <1>4, <1>5 DEF VersionInv

LEMMA SameTargets ==
  ASSUME TypeOK, VersionInv, UNCHANGED <<results, sent, targets>>
  PROVE  VersionInv'
  BY DEF VersionInv, NoneAhead, AnswersOrdered

LEMMA WebVersions ==
  ASSUME TypeOK, VersionInv, WebServer
  PROVE  VersionInv'
  <1>1. ASSUME NEW n \in Names, Edit(n) \/ Delete(n) PROVE VersionInv'
    <2>1. UNCHANGED <<results, sent>>
      BY <1>1 DEF Edit, Delete
    <2>2. targets' \in [Names -> 0 .. MaxVersion]
      <3>1. CASE Edit(n)
        BY <3>1, VersionAssumption DEF Edit, TypeOK
      <3>2. CASE Delete(n)
        BY <3>2, VersionAssumption DEF Delete, TypeOK
      <3> QED BY <1>1, <3>1, <3>2
    <2>3. targets \in [Names -> Nat]
      BY VersionAssumption DEF TypeOK
    <2>4. CASE Edit(n)
      <3>1. /\ targets[n] >= 1
            /\ \A m \in Names : targets'[m] = IF m = n THEN targets[n] + 1 ELSE targets[m]
        BY <2>3, <2>4, VersionAssumption DEF Edit
      <3>2. \A m \in Names : targets'[m] = 0 \/ (targets[m] # 0 /\ targets'[m] >= targets[m])
        BY <2>3, <3>1
      <3> QED BY <2>1, <2>2, <3>2, VersionsUntouched
    <2>5. CASE Delete(n)
      <3>1. \A m \in Names : targets'[m] = IF m = n THEN 0 ELSE targets[m]
        BY <2>3, <2>5 DEF Delete
      <3>2. \A m \in Names : targets'[m] = 0 \/ (targets[m] # 0 /\ targets'[m] >= targets[m])
        BY <2>3, <3>1
      <3> QED BY <2>1, <2>2, <3>2, VersionsUntouched
    <2> QED BY <1>1, <2>4, <2>5
  <1>2. ASSUME NEW m \in Messages, Post(m) PROVE VersionInv'
    BY <1>2, SameTargets DEF Post
  <1> QED BY <1>1, <1>2 DEF WebServer

LEMMA WorkerVersions ==
  ASSUME TypeOK, VersionInv, Worker
  PROVE  VersionInv'
  <1> DEFINE c == Head(jobs).c
             answer == [kind |-> Head(jobs).kind, c |-> c, v |-> targets[Who[c]]]
             n == Len(results)
  <1>1. Head(jobs) \in Job
    BY TailRange DEF TypeOK, Worker
  <1>2. c \in Conns /\ Who[c] \in Names /\ answer \in Answer
    BY <1>1, WhoAssumption DEF Job, Answer, TypeOK
  <1>3. answer.c = c /\ answer.v = targets[Who[c]]
    OBVIOUS
  <1>4. results' = Append(results, answer) /\ UNCHANGED <<sent, targets>>
    BY DEF Worker
  <1> HIDE DEF c, answer
  <1>5. /\ n \in Nat /\ DOMAIN results = 1 .. n /\ DOMAIN results' = 1 .. n + 1
        /\ results'[n + 1] = answer /\ \A i \in 1 .. n : results'[i] = results[i]
    BY <1>2, <1>4, AppendProperties, LenProperties DEF TypeOK
  <1>6. \A i \in 1 .. n : results[i].v \in Nat
    <2>1. \A i \in 1 .. n : results[i] \in Answer
      BY ElementOfSeq DEF TypeOK
    <2> QED BY <2>1, VersionAssumption DEF Answer
  <1>7. targets[Who[c]] \in Nat /\ sent[c] \in Nat
    BY <1>2, VersionAssumption DEF TypeOK
  <1> HIDE DEF n
  <1>8. NoneAhead'
    <2>1. \A d \in Conns : targets'[Who[d]] # 0 => sent'[d] <= targets'[Who[d]]
      BY <1>4 DEF VersionInv, NoneAhead
    <2>2. ASSUME NEW i \in 1 .. n + 1
          PROVE  targets[Who[results'[i].c]] # 0 => results'[i].v <= targets[Who[results'[i].c]]
      <3>1. CASE i = n + 1
        BY <3>1, <1>3, <1>5, <1>7
      <3>2. CASE i \in 1 .. n
        BY <3>2, <1>5 DEF VersionInv, NoneAhead
      <3> QED BY <3>1, <3>2, <1>5
    <2> QED BY <2>1, <2>2, <1>4, <1>5 DEF NoneAhead
  <1>9. AnswersOrdered'
    <2>1. ASSUME NEW i \in 1 .. n + 1
          PROVE  results'[i].v # 0 => sent[results'[i].c] <= results'[i].v
      <3>1. CASE i = n + 1
        BY <3>1, <1>2, <1>3, <1>5 DEF VersionInv, NoneAhead
      <3>2. CASE i \in 1 .. n
        BY <3>2, <1>5 DEF VersionInv, AnswersOrdered
      <3> QED BY <3>1, <3>2, <1>5
    <2>2. ASSUME NEW i \in 1 .. n + 1, NEW j \in 1 .. n + 1,
                 i < j, results'[i].c = results'[j].c, results'[j].v # 0
          PROVE  results'[i].v <= results'[j].v
      <3>1. i \in 1 .. n
        BY <2>2, <1>5
      <3>2. CASE j = n + 1
        <4>1. results'[j] = answer /\ results[i].c = c /\ targets[Who[c]] # 0
          BY <2>2, <3>1, <3>2, <1>3, <1>5
        <4>2. results[i].v <= targets[Who[c]]
          BY <3>1, <4>1, <1>5 DEF VersionInv, NoneAhead
        <4> QED BY <3>1, <4>1, <4>2, <1>3, <1>5
      <3>3. CASE j \in 1 .. n
        BY <2>2, <3>1, <3>3, <1>5 DEF VersionInv, AnswersOrdered
      <3> QED BY <3>2, <3>3, <1>5
    <2> QED BY <2>1, <2>2, <1>4, <1>5 DEF AnswersOrdered
  <1> QED BY <1>8, <1>9 DEF VersionInv

\* The first answer is taken up; its version is sent, or nothing is.
LEMMA AnswerVersions ==
  ASSUME TypeOK, VersionInv, NEW i \in NextAnswer, NEW kind, NEW c, TakeUp(i, kind, c),
         UNCHANGED targets,
         UNCHANGED sent \/ (results[i].v # 0 /\ sent' = [sent EXCEPT ![c] = results[i].v])
  PROVE  VersionInv' /\ \A d \in Conns : sent'[d] >= sent[d]
  <1> DEFINE v == results[1].v
             n == Len(results)
  <1>1. /\ i = 1 /\ 1 \in DOMAIN results /\ results[1].c = c /\ c \in Conns
        /\ DOMAIN results = 1 .. n /\ DOMAIN results' = 1 .. n - 1
        /\ \A j \in 1 .. n - 1 : results'[j] = results[j + 1]
    BY TakenAnswer
  <1>2. n \in Nat /\ n >= 1 /\ \A j \in 1 .. n : results[j].c \in Conns /\ results[j].v \in Nat
    <2>1. \A j \in 1 .. n : results[j] \in Answer
      BY <1>1, ElementOfSeq DEF TypeOK
    <2> QED BY <1>1, <2>1, LenProperties, VersionAssumption DEF TypeOK, Answer
  <1>3. /\ \A d \in Conns : sent[d] \in Nat
        /\ \A d \in Conns : targets[Who[d]] \in Nat
    BY WhoAssumption, VersionAssumption DEF TypeOK
  <1> HIDE DEF n
  <1>4. v \in Nat /\ (v # 0 => sent[c] <= v)
    BY <1>1, <1>2 DEF VersionInv, AnswersOrdered
  <1>5. \A d \in Conns : sent'[d] \in Nat /\ sent'[d] >= sent[d]
                            /\ (sent'[d] = sent[d] \/ (d = c /\ v # 0 /\ sent'[d] = v))
    BY <1>1, <1>3, <1>4 DEF TypeOK
  <1> HIDE DEF v
  <1>6. NoneAhead'
    <2>1. ASSUME NEW d \in Conns PROVE targets[Who[d]] # 0 => sent'[d] <= targets[Who[d]]
      <3>1. targets[Who[d]] # 0 => sent[d] <= targets[Who[d]]
        BY DEF VersionInv, NoneAhead
      <3>2. targets[Who[c]] # 0 => v <= targets[Who[c]]
        BY <1>1 DEF VersionInv, NoneAhead, v
      <3> QED BY <3>1, <3>2, <1>5
    <2>2. ASSUME NEW j \in 1 .. n - 1
          PROVE  targets[Who[results'[j].c]] # 0 => results'[j].v <= targets[Who[results'[j].c]]
      <3>1. j + 1 \in 1 .. n
        BY <1>2
      <3> QED BY <3>1, <1>1 DEF VersionInv, NoneAhead
    <2> QED BY <2>1, <2>2, <1>1 DEF NoneAhead
  <1>7. AnswersOrdered'
    <2>1. ASSUME NEW j \in 1 .. n - 1, results'[j].v # 0
          PROVE  sent'[results'[j].c] <= results'[j].v
      <3>1. j + 1 \in 1 .. n /\ 1 \in 1 .. n /\ 1 < j + 1 /\ results'[j] = results[j + 1]
        BY <1>1, <1>2
      <3>2. sent[results'[j].c] <= results'[j].v
        BY <2>1, <3>1, <1>1 DEF VersionInv, AnswersOrdered
      <3>3. results'[j].c = c => v <= results'[j].v
        BY <2>1, <3>1, <1>1 DEF VersionInv, AnswersOrdered, v
      <3>4. results'[j].c \in Conns
        BY <3>1, <1>2
      <3> QED BY <3>2, <3>3, <3>4, <1>5
    <2>2. ASSUME NEW j \in 1 .. n - 1, NEW k \in 1 .. n - 1,
                 j < k, results'[j].c = results'[k].c, results'[k].v # 0
          PROVE  results'[j].v <= results'[k].v
      <3>1. j + 1 \in 1 .. n /\ k + 1 \in 1 .. n /\ j + 1 < k + 1
        BY <2>2, <1>2
      <3> QED BY <2>2, <3>1, <1>1 DEF VersionInv, AnswersOrdered
    <2> QED BY <2>1, <2>2, <1>1 DEF AnswersOrdered
  <1> QED BY <1>5, <1>6, <1>7 DEF VersionInv

\* What either send of a target list does.
LEMMA SendVersions ==
  ASSUME TypeOK, VersionInv, NEW i \in NextAnswer, NEW kind, NEW c, TakeUp(i, kind, c),
         SendTargets(c, results[i].v), UNCHANGED targets
  PROVE  VersionInv' /\ \A d \in Conns : sent'[d] >= sent[d]
  BY AnswerVersions DEF SendTargets, NoTargets

\* The versions through any step, and what it sends.
LEMMA StepVersions ==
  ASSUME TypeOK, VersionInv, [Next]_vars
  PROVE  VersionInv' /\ \A d \in Conns : sent'[d] >= sent[d]
  <1>1. \A d \in Conns : sent[d] >= sent[d]
    BY VersionAssumption DEF TypeOK
  <1>2. CASE WebServer
    <2>1. UNCHANGED sent
      BY <1>2 DEF WebServer, Edit, Delete, Post
    <2> QED BY <1>1, <1>2, <2>1, WebVersions
  <1>3. CASE Worker
    <2>1. UNCHANGED sent
      BY <1>3 DEF Worker
    <2> QED BY <1>1, <1>3, <2>1, WorkerVersions
  <1>4. ASSUME NEW c \in Conns,
               \/ Connect(c) \/ Disconnect(c) \/ AuthUnregistered(c) \/ AuthDuplicate(c)
               \/ SessionEnds(c)
        PROVE  VersionInv' /\ UNCHANGED sent
    BY <1>4, SameTargets DEF Connect, Disconnect, AuthUnregistered, AuthDuplicate, SessionEnds
  <1>5. ASSUME NEW c \in Conns, Register(c) \/ RejectUnknown(c) \/ SessionTargetsFail(c)
        PROVE  VersionInv' /\ UNCHANGED sent
    BY <1>5, AnswerVersions DEF Register, RejectUnknown, SessionTargetsFail
  <1>6. ASSUME NEW c \in Conns, SessionTargets(c)
        PROVE  VersionInv' /\ \A d \in Conns : sent'[d] >= sent[d]
    BY <1>6, SendVersions DEF SessionTargets
  <1>7. CASE WakeUp \/ ListUnread \/ MarkRead \/ CheckMessages
               \/ NotifyRuntimeError \/ NotifyNext \/ NotifyDone
    <2>1. UNCHANGED <<results, sent, targets>>
      BY <1>7
        DEF WakeUp, ListUnread, MarkRead, CheckMessages, NotifyRuntimeError, NotifyNext, NotifyDone
    <2> QED BY <1>1, <2>1, SameTargets
  <1>8. ASSUME NEW c \in Conns, NotifyTargets(c)
        PROVE  VersionInv' /\ \A d \in Conns : sent'[d] >= sent[d]
    BY <1>8, SendVersions DEF NotifyTargets
  <1>9. ASSUME NEW c \in Conns, NotifyTargetsFail(c) PROVE VersionInv' /\ UNCHANGED sent
    BY <1>9, AnswerVersions DEF NotifyTargetsFail
  <1>10. CASE UNCHANGED vars
    BY <1>1, <1>10, SameTargets DEF vars
  <1> QED BY <1>1, <1>2, <1>3, <1>4, <1>5, <1>6, <1>7, <1>8, <1>9, <1>10
    DEF Next, Session, Notifier

-----------------------------------------------------------------------------
\* The inductive invariant: the registry and the notifier's loop agree, and the
\* answers of the worker thread are in the order of the versions.
THEOREM CollectorInvariant == Spec => []CollectorInv
  <1>1. Init => CollectorInv
    BY InitRegistry, InitVersions DEF CollectorInv
  <1>2. CollectorInv /\ [Next]_vars => CollectorInv'
    <2> SUFFICES ASSUME CollectorInv, [Next]_vars PROVE CollectorInv'
      OBVIOUS
    <2>1. RegistryInv'
      BY StepRegistry DEF CollectorInv
    <2>2. VersionInv'
      BY StepVersions DEF CollectorInv, RegistryInv
    <2> QED BY <2>1, <2>2 DEF CollectorInv
  <1> QED BY <1>1, <1>2, PTL DEF Spec

THEOREM TypeCorrect == Spec => []TypeOK
  <1>1. CollectorInv => TypeOK
    BY DEF CollectorInv, RegistryInv
  <1> QED BY <1>1, CollectorInvariant, PTL

\* clients[name] never fails in notify_probers (server.py:202), whoever comes and
\* goes while it awaits.
THEOREM VisitedAlwaysRegistered == Spec => []VisitedAreRegistered
  <1>1. CollectorInv => VisitedAreRegistered
    BY DEF CollectorInv, RegistryInv
  <1> QED BY <1>1, CollectorInvariant, PTL

\* No connection is sent a target list older than one it was sent before
\* (server.py:52): lookups of sessions and notifier are answered in their order.
THEOREM TargetsNeverGoBack == Spec => TargetsNeverRegress
  <1>1. CollectorInv /\ [Next]_vars => [\A c \in Conns : sent'[c] >= sent[c]]_vars
    BY StepVersions DEF CollectorInv, RegistryInv
  <1> QED BY <1>1, CollectorInvariant, PTL DEF Spec, TargetsNeverRegress
=============================================================================
