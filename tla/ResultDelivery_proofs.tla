------------------------ MODULE ResultDelivery_proofs ------------------------
(***************************************************************************)
(* Proofs about ResultDelivery: its type invariant, the invariant behind   *)
(* its safety properties, and that it keeps the promise of DeliveryPromise. *)
(***************************************************************************)
EXTENDS ResultDelivery, SequenceTheorems, FiniteSetTheorems, TLAPS

-----------------------------------------------------------------------------
(* Lemmas about the data *)

\* A new id exists and is not in use whenever some id is free.
LEMMA FreshIdFresh ==
  ASSUME FreshIds # {}
  PROVE  FreshId \in Ids /\ FreshId \notin UsedIds
BY DEF FreshId, FreshIds

\* The order in which results are put back is a sequence of exactly these.
LEMMA OrdersAreSequences ==
  ASSUME NEW S, NEW order \in Orders(S)
  PROVE  /\ order \in Seq(S)
         /\ Range(order) = S
         /\ \A i, j \in DOMAIN order : order[i] = order[j] => i = j
<1>1. Cardinality(Results) \in Nat
  BY ResultsAssumption, FS_CardinalityType
<1>2. PICK n \in 0 .. Cardinality(Results) : order \in [1 .. n -> S]
  BY DEF Orders
<1>3. n \in Nat
  BY <1>1, <1>2
<1>4. order \in Seq(S)
  BY <1>2, <1>3
<1> QED
  BY <1>4 DEF Orders

\* Ageing and the cutoff keep the type, the result and the id of a message.
LEMMA CutoffType ==
  ASSUME NEW S \in SUBSET Sent
  PROVE  Cutoff(S) \in SUBSET Sent
<1> SUFFICES ASSUME NEW m \in S
             PROVE  [m EXCEPT !.stale = m.age > AckTimeout] \in Sent
  BY DEF Cutoff
<1> DEFINE late == m.age > AckTimeout
<1>1. late \in BOOLEAN
  OBVIOUS
<1> HIDE DEF late
<1>2. [m EXCEPT !.stale = late] \in Sent
  BY <1>1 DEF Sent
<1> QED
  BY <1>2 DEF late

LEMMA AgedType ==
  ASSUME NEW S \in SUBSET Sent
  PROVE  Aged(S) \in SUBSET Sent
<1> SUFFICES ASSUME NEW m \in S
             PROVE  [m EXCEPT !.age = IF @ > AckTimeout THEN @ ELSE @ + 1] \in Sent
  BY DEF Aged
<1>1. m \in Sent
  OBVIOUS
<1> QED
  BY <1>1, BoundsAssumption DEF Sent

\* A prefix of a sequence is a sequence of the same elements, and some of them.
LEMMA PrefixType ==
  ASSUME NEW T, NEW s \in Seq(T), NEW p \in Prefixes(s)
  PROVE  /\ p \in Seq(T)
         /\ Range(p) \subseteq Range(s)
<1>1. PICK n \in 0 .. Len(s) : p = SubSeq(s, 1, n)
  BY DEF Prefixes
<1>2. Len(s) \in Nat
  BY LenProperties
<1>3. /\ 1 \in 1 .. Len(s) + 1
      /\ n \in 1 - 1 .. Len(s)
  BY <1>2
<1>4. /\ p \in Seq(T)
      /\ Len(p) = n
      /\ \A i \in 1 .. n : p[i] = s[i]
  BY <1>1, <1>2, <1>3, SubSeqProperties
<1>5. Range(p) \subseteq Range(s)
  BY <1>1, <1>2, <1>4, LenProperties DEF Range
<1> QED
  BY <1>4, <1>5

\* The head of a channel is one of its frames, the tail has only others of them.
LEMMA HeadTailRange ==
  ASSUME NEW T, NEW s \in Seq(T), s # <<>>
  PROVE  /\ Head(s) \in T
         /\ Head(s) \in Range(s)
         /\ Tail(s) \in Seq(T)
         /\ Range(Tail(s)) \subseteq Range(s)
<1>1. /\ Head(s) \in T
      /\ Tail(s) \in Seq(T)
      /\ Len(Tail(s)) = Len(s) - 1
      /\ \A i \in 1 .. Len(Tail(s)) : Tail(s)[i] = s[i + 1]
      /\ Len(s) \in Nat
      /\ s # <<>> => Len(s) # 0
  BY HeadTailProperties, LenProperties, EmptySeq
<1>2. Head(s) = s[1] /\ DOMAIN s = 1 .. Len(s) /\ DOMAIN Tail(s) = 1 .. Len(Tail(s))
  BY <1>1, LenProperties
<1> QED
  BY <1>1, <1>2 DEF Range

LEMMA AppendRange ==
  ASSUME NEW T, NEW s \in Seq(T), NEW x \in T
  PROVE  /\ Append(s, x) \in Seq(T)
         /\ Range(Append(s, x)) = Range(s) \cup {x}
<1>1. /\ Append(s, x) \in Seq(T)
      /\ Len(Append(s, x)) = Len(s) + 1
      /\ \A i \in 1 .. Len(s) : Append(s, x)[i] = s[i]
      /\ Append(s, x)[Len(s) + 1] = x
      /\ Len(s) \in Nat
  BY AppendProperties, LenProperties
<1>2. DOMAIN s = 1 .. Len(s) /\ DOMAIN Append(s, x) = 1 .. Len(s) + 1
  BY <1>1, LenProperties
<1> QED
  BY <1>1, <1>2 DEF Range

-----------------------------------------------------------------------------
(* Type correctness *)

\* What the stale entries carry are results.
LEMMA StaleResults ==
  ASSUME TypeOK
  PROVE  {m.r : m \in Stale} \subseteq Results
BY DEF TypeOK, Stale, Sent

\* The message transmit_results makes of the head of the queue, and the channel
\* it writes it to.
LEMMA SendHeadType ==
  ASSUME TypeOK, SendHead
  PROVE  /\ NewMessage \in Sent
         /\ Output(NewMessage) \in Frame
         /\ queue' \in Seq(Results)
         /\ up' \in [Conns -> Seq(Frame)]
         /\ UNCHANGED <<pinger, mpc, ws, tws, rws, qpc, cl, link, sopen, down,
                        collectorVars, faults, historyVars>>
<1>1. queue \in Seq(Results) /\ queue # <<>> /\ FreshIds # {} /\ tws \in Conns
  BY DEF TypeOK, SendHead
<1>2. NewMessage \in Sent
  BY <1>1, FreshIdFresh, HeadTailRange, BoundsAssumption DEF NewMessage, Sent
<1>3. Output(NewMessage) \in Frame
  BY <1>2 DEF Output, Frame, Sent
<1>4. queue' \in Seq(Results)
  BY <1>1, HeadTailRange DEF SendHead
<1>5. up' \in [Conns -> Seq(Frame)]
  BY <1>1, <1>3, AppendProperties DEF SendHead, TypeOK
<1> QED
  BY <1>2, <1>3, <1>4, <1>5 DEF SendHead

\* A frame that arrives as an output message is one.
LEMMA HandledFrame ==
  ASSUME TypeOK, NEW c \in Conns, OutputArrives(c)
  PROVE  /\ up[c] \in Seq(Frame) /\ up[c] # <<>>
         /\ Head(up[c]) \in Range(up[c])
         /\ Head(up[c]).type = "output"
         /\ Head(up[c]).r \in Results
         /\ Head(up[c]).id \in Ids
<1>1. up[c] \in Seq(Frame) /\ up[c] # <<>> /\ Head(up[c]).type = "output"
  BY DEF TypeOK, OutputArrives
<1>2. Head(up[c]) \in Frame /\ Head(up[c]) \in Range(up[c])
  BY <1>1, HeadTailRange
<1> QED
  BY <1>1, <1>2 DEF Frame

\* The types hold at the start.
LEMMA TypeInit == Init => TypeOK
<1>1. /\ <<>> \in Seq(Results)
      /\ <<>> \in Seq(Frame)
      /\ <<>> \in Seq(Ids)
  BY EmptySeq
<1> SUFFICES ASSUME Init
             PROVE  TypeOK
  OBVIOUS
<1>2. /\ up \in [Conns -> Seq(Frame)]
      /\ down \in [Conns -> Seq(Ids)]
      /\ queue \in Seq(Results)
  BY <1>1 DEF Init
<1>3. /\ cl \in [Conns -> {"open", "closed"}]
      /\ link \in [Conns -> {"up", "down"}]
      /\ sopen \in [Conns -> BOOLEAN]
      /\ sv \in [Conns -> {"unauth", "lookup", "targets", "authed", "done"}]
      /\ lostOn \in [Conns -> SUBSET Results]
  BY DEF Init
<1> QED
  BY <1>2, <1>3, BoundsAssumption DEF Init, TypeOK

\* Every action keeps the types.
LEMMA TypeStep == TypeOK /\ [Next]_vars => TypeOK'
<1> SUFFICES ASSUME TypeOK, [Next]_vars
             PROVE  TypeOK'
  OBVIOUS
<1> USE DEF TypeOK, proberVars, linkVars, collectorVars, historyVars
<1>1. ASSUME NEW r \in Results, PingerOutput(r)
      PROVE  TypeOK'
  BY <1>1, AppendProperties DEF PingerOutput
<1>2. ASSUME NEW r \in Results, WriterStores(r)
      PROVE  TypeOK'
  BY <1>2 DEF WriterStores
<1>3. CASE Shutdown
  BY <1>3 DEF Shutdown
<1>4. ASSUME NEW c \in Conns, ConnectOk(c)
      PROVE  TypeOK'
  <2>1. Auth \in Frame /\ <<Auth>> \in Seq(Frame) /\ <<>> \in Seq(Ids)
    BY EmptySeq DEF Auth, Frame
  <2> QED
    BY <1>4, <2>1 DEF ConnectOk
<1>5. CASE Supervise
  BY <1>5, CutoffType DEF Supervise
<1>6. CASE SuperviseClosed
  BY <1>6 DEF SuperviseClosed
<1>7. CASE TransmitSends
  BY <1>7, SendHeadType DEF TransmitSends
<1>8. CASE TransmitSuspends
  BY <1>8, SendHeadType DEF TransmitSuspends
<1>9. CASE TransmitResumes
  BY <1>9 DEF TransmitResumes
<1>10. CASE TransmitFails
  BY <1>10, HeadTailRange DEF TransmitFails, Lose
<1>11. CASE TransmitFailsSuspended
  BY <1>11 DEF TransmitFailsSuspended, Lose, Sent
<1>12. CASE ReceiveAck
  BY <1>12, HeadTailRange DEF ReceiveAck
<1>13. CASE ReceiveFails
  BY <1>13 DEF ReceiveFails
<1>14. CASE RequeueStale
  <2>1. PICK order \in Orders({m.r : m \in Stale}) : queue' = queue \o order
    BY <1>14 DEF RequeueStale, PutBack
  <2>2. order \in Seq(Results)
    BY <2>1, OrdersAreSequences, SeqMonotonic, StaleResults
  <2>3. queue' \in Seq(Results)
    BY <2>1, <2>2, ConcatProperties
  <2> QED
    BY <1>14, <2>3, CutoffType DEF RequeueStale, Fresh
<1>15. CASE Tick
  BY <1>15, AgedType DEF Tick
<1>16. ASSUME NEW c \in Conns, ClientNotices(c)
      PROVE  TypeOK'
  BY <1>16 DEF ClientNotices
<1>17. ASSUME NEW c \in Conns, ServerNotices(c)
      PROVE  TypeOK'
  BY <1>17 DEF ServerNotices
<1>18. ASSUME NEW c \in Conns, AuthUnregistered(c)
      PROVE  TypeOK'
  BY <1>18, HeadTailRange DEF AuthUnregistered, AuthArrives
<1>19. ASSUME NEW c \in Conns, AuthDuplicate(c)
      PROVE  TypeOK'
  BY <1>19, EmptySeq DEF AuthDuplicate, AuthArrives, ServerCloses
<1>20. ASSUME NEW c \in Conns, AuthRegister(c)
      PROVE  TypeOK'
  BY <1>20 DEF AuthRegister
<1>21. ASSUME NEW c \in Conns, TargetsSent(c)
      PROVE  TypeOK'
  BY <1>21 DEF TargetsSent
<1>22. ASSUME NEW c \in Conns, TargetsFail(c)
      PROVE  TypeOK'
  BY <1>22 DEF TargetsFail
<1>23. ASSUME NEW c \in Conns, HandleOutput(c)
      PROVE  TypeOK'
  <2>1. /\ Head(up[c]).r \in Results
        /\ Head(up[c]).id \in Ids
        /\ up[c] \in Seq(Frame) /\ up[c] # <<>>
    BY <1>23, HandledFrame DEF HandleOutput
  <2>2. /\ up' \in [Conns -> Seq(Frame)]
        /\ down' \in [Conns -> Seq(Ids)]
    BY <1>23, <2>1, HeadTailRange, AppendProperties DEF HandleOutput
  <2> QED
    BY <1>23, <2>1, <2>2 DEF HandleOutput, Enqueue
<1>24. ASSUME NEW c \in Conns, HandleOutputClosed(c)
      PROVE  TypeOK'
  <2>1. /\ Head(up[c]).r \in Results
        /\ Head(up[c]).id \in Ids
        /\ up[c] \in Seq(Frame) /\ up[c] # <<>>
    BY <1>24, HandledFrame DEF HandleOutputClosed
  <2>2. up' \in [Conns -> Seq(Frame)]
    BY <1>24, EmptySeq DEF HandleOutputClosed
  <2> QED
    BY <1>24, <2>1, <2>2 DEF HandleOutputClosed, Enqueue
<1>25. ASSUME NEW c \in Conns, SessionEnds(c)
      PROVE  TypeOK'
  BY <1>25 DEF SessionEnds
<1>26. CASE ConnectAborted
  BY <1>26, BoundsAssumption DEF ConnectAborted
<1>27. CASE CollectorRestarts
  <2>1. <<>> \in Seq(Frame)
    BY EmptySeq
  <2>2. up' \in [Conns -> Seq(Frame)]
    BY <1>27, <2>1 DEF CollectorRestarts
  <2>3. /\ link' \in [Conns -> {"up", "down"}]
        /\ sopen' \in [Conns -> BOOLEAN]
        /\ sv' \in [Conns -> {"unauth", "lookup", "targets", "authed", "done"}]
        /\ faults' \in Nat
    BY <1>27 DEF CollectorRestarts
  <2> QED
    BY <1>27, <2>2, <2>3 DEF CollectorRestarts
<1>28. ASSUME NEW c \in Conns, LinkBreaks(c)
      PROVE  TypeOK'
  BY <1>28, PrefixType DEF LinkBreaks
<1>29. ASSUME NEW c \in Conns, AuthUnknown(c)
      PROVE  TypeOK'
  BY <1>29, EmptySeq DEF AuthUnknown, ServerCloses
<1>30. ASSUME NEW c \in Conns, TargetsEmpty(c)
      PROVE  TypeOK'
  BY <1>30, PrefixType DEF TargetsEmpty, ServerCloses
<1>31. ASSUME NEW r \in Results, WriterDies(r)
      PROVE  TypeOK'
  BY <1>31 DEF WriterDies
<1>32. CASE UNCHANGED vars
  BY <1>32 DEF vars
<1> QED
  BY <1>1, <1>2, <1>3, <1>4, <1>5, <1>6, <1>7, <1>8, <1>9, <1>10, <1>11, <1>12, <1>13, <1>14, <1>15, <1>16, <1>17, <1>18, <1>19, <1>20, <1>21, <1>22, <1>23, <1>24, <1>25, <1>26, <1>27, <1>28, <1>29, <1>30, <1>31, <1>32
     DEF Next, Supervisor, Transmit, Receive, Notices, Session, Faults

\* Every variable keeps its type (TypeOK), for any results, connections, ids,
\* timeouts and numbers of faults.
THEOREM TypeCorrect == Spec => []TypeOK
<1> QED
  BY TypeInit, TypeStep, PTL DEF Spec

-----------------------------------------------------------------------------
(* The delivery invariant *)

\* The part of DeliveryInv that is about results, messages and frames.
DataInv ==
  SinglePlace /\ Accounted /\ Origins /\ FramesSound /\ AcksSound /\ StaleAreLate

\* The part that is about connections and the results lost on them.
LossInv == OneLossPerConnection /\ LossesClosed

\* The channels get no new output frame and no new acknowledgement.
ChannelsShrink ==
  \A c \in Conns :
    /\ Range(up'[c]) \subseteq Range(up[c]) \cup {Auth}
    /\ Range(down'[c]) \subseteq Range(down[c])

\* A step that leaves the results where they are and only loses frames,
\* acknowledgements and entries of write_queue.
LEMMA QuietStep ==
  ASSUME DataInv, ChannelsShrink, wq' \subseteq wq,
         UNCHANGED <<queue, unconf, hand, produced, accepted, dropped>>
  PROVE  DataInv'
<1>1. SinglePlace' /\ Accounted' /\ Origins' /\ StaleAreLate'
  BY DEF DataInv, SinglePlace, Accounted, Origins, StaleAreLate, Held
<1>2. FramesSound'
  <2> SUFFICES ASSUME NEW c \in Conns, NEW f \in Range(up'[c]), f.type = "output"
               PROVE  /\ f.r \in produced
                      /\ \A m \in unconf \cup hand : m.id = f.id => m.r = f.r
    BY DEF FramesSound
  <2>1. f \in Range(up[c])
    BY DEF ChannelsShrink, Auth
  <2> QED
    BY <2>1 DEF DataInv, FramesSound
<1>3. AcksSound'
  BY DEF DataInv, AcksSound, ChannelsShrink
<1> QED
  BY <1>1, <1>2, <1>3 DEF DataInv

\* The messages change by the function G, with the same results and ids; those
\* of U stay in unconfirmed_list, the others go back to the queue in some order.
Reshaped(U, G, order) ==
  /\ U \subseteq unconf
  /\ \A m \in unconf \cup hand :
       G[m].r = m.r /\ G[m].id = m.id /\ (G[m].stale => G[m].age > AckTimeout)
  /\ unconf' = {G[m] : m \in U}
  /\ hand' = {G[m] : m \in hand}
  /\ order \in Seq(Results)
  /\ Range(order) = {m.r : m \in unconf \ U}
  /\ \A i, j \in DOMAIN order : order[i] = order[j] => i = j
  /\ queue' = queue \o order
  /\ UNCHANGED <<up, down, wq, produced, accepted, dropped>>

\* Such a step of the clock or of the requeue task.
LEMMA ImagesKeepData ==
  ASSUME TypeOK, DataInv, NEW U, NEW G, NEW order, Reshaped(U, G, order)
  PROVE  /\ DataInv'
         /\ Held' = Held
<1> USE DEF Reshaped
<1>1. queue \in Seq(Results) /\ queue' \in Seq(Results)
  BY ConcatProperties DEF TypeOK
<1>2. Range(queue') = Range(queue) \cup {m.r : m \in unconf \ U}
  BY <1>1, RangeConcatenation
<1>3. \A x \in unconf' : \E m \in U : x = G[m]
  OBVIOUS
<1>4. \A x \in hand' : \E m \in hand : x = G[m]
  OBVIOUS
<1>5. \A x \in unconf' \cup hand' : \E m \in unconf \cup hand : x.r = m.r /\ x.id = m.id
  BY <1>3, <1>4
<1>6. Held' = Held
  <2>1. {x.r : x \in unconf' \cup hand'} = {m.r : m \in U \cup hand}
    OBVIOUS
  <2> QED
    BY <1>2, <2>1 DEF Held
<1>7. SinglePlace'
  <2>1. \A i, j \in DOMAIN queue' : queue'[i] = queue'[j] => i = j
    <3>1. /\ DOMAIN queue = 1 .. Len(queue) /\ Len(queue) \in Nat
          /\ DOMAIN order = 1 .. Len(order) /\ Len(order) \in Nat
          /\ DOMAIN queue' = 1 .. Len(queue) + Len(order)
          /\ \A i \in 1 .. Len(queue) + Len(order) :
               queue'[i] = IF i <= Len(queue) THEN queue[i] ELSE order[i - Len(queue)]
      BY <1>1, ConcatProperties, LenProperties
    <3>2. \A i \in DOMAIN order : order[i] \notin Range(queue)
      <4>1. \A i \in DOMAIN order : order[i] \in Range(order)
        BY DEF Range
      <4>2. \A m \in unconf : m.r \notin Range(queue)
        BY DEF DataInv, SinglePlace
      <4> QED
        BY <4>1, <4>2
    <3>3. \A i \in DOMAIN queue : queue[i] \in Range(queue)
      BY DEF Range
    <3>4. \A i \in 1 .. Len(queue) + Len(order) : i > Len(queue) => i - Len(queue) \in DOMAIN order
      BY <3>1
    <3> SUFFICES ASSUME NEW i \in 1 .. Len(queue) + Len(order),
                        NEW j \in 1 .. Len(queue) + Len(order),
                        queue'[i] = queue'[j]
                 PROVE  i = j
      BY <3>1
    <3>5. CASE i <= Len(queue) /\ j <= Len(queue)
      BY <3>1, <3>5 DEF DataInv, SinglePlace
    <3>6. CASE i > Len(queue) /\ j > Len(queue)
      <4> DEFINE k == i - Len(queue)
                 l == j - Len(queue)
      <4>1. k \in DOMAIN order /\ l \in DOMAIN order /\ order[k] = order[l]
        BY <3>1, <3>4, <3>6
      <4>2. k = l
        BY <4>1
      <4> QED
        BY <3>1, <4>2
    <3>7. ASSUME NEW n \in 1 .. Len(queue) + Len(order)
          PROVE  queue'[n] \in Range(queue) <=> n <= Len(queue)
      <4>1. CASE n <= Len(queue)
        <5>1. n \in DOMAIN queue /\ queue'[n] = queue[n]
          BY <3>1, <4>1
        <5> QED
          BY <3>3, <4>1, <5>1
      <4>2. CASE n > Len(queue)
        <5>1. n - Len(queue) \in DOMAIN order /\ queue'[n] = order[n - Len(queue)]
          BY <3>1, <4>2
        <5>2. queue'[n] \notin Range(queue) /\ ~(n <= Len(queue))
          BY <3>1, <3>2, <4>2, <5>1
        <5> QED
          BY <5>2
      <4> QED
        BY <3>1, <4>1, <4>2
    <3>8. i <= Len(queue) <=> j <= Len(queue)
      BY <3>7
    <3> QED
      BY <3>1, <3>5, <3>6, <3>7, <3>8
  <2>2. \A x \in unconf' \cup hand' : x.r \notin Range(queue')
    <3> SUFFICES ASSUME NEW x \in unconf' \cup hand'
                 PROVE  x.r \notin Range(queue')
      OBVIOUS
    <3> PICK m \in U \cup hand : x.r = m.r
      BY <1>3, <1>4
    <3>1. m.r \notin Range(queue)
      BY DEF DataInv, SinglePlace
    <3>2. \A n \in unconf \ U : n.r # m.r
      <4>1. \A n \in unconf \ U : n \notin U \cup hand
        BY DEF DataInv, SinglePlace
      <4> QED
        BY <4>1 DEF DataInv, SinglePlace
    <3> QED
      BY <1>2, <3>1, <3>2
  <2>3. \A x, y \in unconf' \cup hand' : x.r = y.r => x = y
    <3> SUFFICES ASSUME NEW m \in U \cup hand, NEW n \in U \cup hand, m.r = n.r
                 PROVE  m = n
      BY <1>3, <1>4
    <3> QED
      BY DEF DataInv, SinglePlace
  <2>4. unconf' \cap hand' = {}
    <3> SUFFICES ASSUME NEW m \in U, NEW n \in hand, m.r = n.r
                 PROVE  FALSE
      BY <1>3, <1>4
    <3> QED
      BY DEF DataInv, SinglePlace
  <2>5. \A x, y \in hand' : x = y
    BY <1>4 DEF DataInv, SinglePlace
  <2> QED
    BY <2>1, <2>2, <2>3, <2>4, <2>5 DEF SinglePlace
<1>8. Accounted' /\ Origins'
  BY <1>6 DEF DataInv, Accounted, Origins
<1>9. FramesSound' /\ AcksSound'
  <2>1. FramesSound'
    <3> SUFFICES ASSUME NEW c \in Conns, NEW f \in Range(up[c]), f.type = "output"
                 PROVE  /\ f.r \in produced
                        /\ \A x \in unconf' \cup hand' : x.id = f.id => x.r = f.r
      BY DEF FramesSound
    <3>1. /\ f.r \in produced
          /\ \A m \in unconf \cup hand : m.id = f.id => m.r = f.r
      BY DEF DataInv, FramesSound
    <3> QED
      BY <1>5, <3>1
  <2>2. AcksSound'
    <3> SUFFICES ASSUME NEW c \in Conns, NEW i \in Range(down[c])
                 PROVE  \A x \in unconf' \cup hand' : x.id = i => x.r \in accepted
      BY DEF AcksSound
    <3>1. \A m \in unconf \cup hand : m.id = i => m.r \in accepted
      BY DEF DataInv, AcksSound
    <3> QED
      BY <1>5, <3>1
  <2> QED
    BY <2>1, <2>2
<1>10. StaleAreLate'
  BY <1>3, <1>4 DEF StaleAreLate
<1> QED
  BY <1>6, <1>7, <1>8, <1>9, <1>10 DEF DataInv

\* Taking the head off a queue without repetitions.
LEMMA QueueHead ==
  ASSUME TypeOK, SinglePlace, queue # <<>>
  PROVE  /\ Tail(queue) \in Seq(Results)
         /\ Head(queue) \in Range(queue)
         /\ Range(Tail(queue)) = Range(queue) \ {Head(queue)}
         /\ \A i, j \in DOMAIN Tail(queue) : Tail(queue)[i] = Tail(queue)[j] => i = j
<1>1. /\ queue \in Seq(Results)
      /\ Tail(queue) \in Seq(Results)
      /\ Len(Tail(queue)) = Len(queue) - 1
      /\ \A i \in 1 .. Len(Tail(queue)) : Tail(queue)[i] = queue[i + 1]
      /\ Len(queue) \in Nat /\ Len(queue) # 0
  BY HeadTailProperties, LenProperties, EmptySeq DEF TypeOK
<1>2. /\ Head(queue) = queue[1]
      /\ DOMAIN queue = 1 .. Len(queue)
      /\ DOMAIN Tail(queue) = 1 .. Len(queue) - 1
  BY <1>1, LenProperties
<1>3. \A i, j \in DOMAIN queue : queue[i] = queue[j] => i = j
  BY DEF SinglePlace
<1>4. \A i \in 1 .. Len(queue) - 1 : i + 1 \in 1 .. Len(queue) /\ Tail(queue)[i] = queue[i + 1]
  BY <1>1
<1>5. Range(Tail(queue)) = Range(queue) \ {Head(queue)}
  <2>1. ASSUME NEW x \in Range(Tail(queue))
        PROVE  x \in Range(queue) \ {Head(queue)}
    <3>1. PICK i \in 1 .. Len(queue) - 1 : x = Tail(queue)[i]
      BY <1>2 DEF Range
    <3>2. x = queue[i + 1] /\ i + 1 \in 1 .. Len(queue) /\ i + 1 # 1 /\ 1 \in 1 .. Len(queue)
      BY <1>1, <1>4, <3>1
    <3> QED
      BY <1>2, <1>3, <3>2 DEF Range
  <2>2. ASSUME NEW x \in Range(queue) \ {Head(queue)}
        PROVE  x \in Range(Tail(queue))
    <3>1. PICK i \in 1 .. Len(queue) : x = queue[i]
      BY <1>2 DEF Range
    <3>2. i # 1
      BY <1>2, <3>1
    <3>3. i - 1 \in 1 .. Len(queue) - 1 /\ (i - 1) + 1 = i
      BY <1>1, <3>2
    <3>4. x = Tail(queue)[i - 1]
      BY <1>4, <3>1, <3>3
    <3> QED
      BY <1>2, <3>3, <3>4 DEF Range
  <2> QED
    BY <2>1, <2>2
<1>6. \A i, j \in DOMAIN Tail(queue) : Tail(queue)[i] = Tail(queue)[j] => i = j
  <2> SUFFICES ASSUME NEW i \in 1 .. Len(queue) - 1, NEW j \in 1 .. Len(queue) - 1,
                      Tail(queue)[i] = Tail(queue)[j]
               PROVE  i = j
    BY <1>2
  <2>1. i + 1 = j + 1
    BY <1>2, <1>3, <1>4
  <2> QED
    BY <1>1, <2>1
<1>7. Head(queue) \in Range(queue)
  <2>1. 1 \in DOMAIN queue
    BY <1>1, <1>2
  <2> QED
    BY <1>2, <2>1 DEF Range
<1> QED
  BY <1>1, <1>5, <1>6, <1>7

\* A new result is in no list, frame or acknowledgement.
LEMMA PingerOutputData ==
  ASSUME TypeOK, DataInv, NEW r \in Results, PingerOutput(r)
  PROVE  /\ DataInv'
         /\ Held' = Held \cup {r}
<1>1. /\ queue \in Seq(Results)
      /\ queue' = Append(queue, r)
      /\ produced' = produced \cup {r}
      /\ r \notin produced
      /\ UNCHANGED <<unconf, hand, up, down, wq, accepted, dropped>>
  BY DEF TypeOK, PingerOutput, linkVars, collectorVars
<1>2. Range(queue') = Range(queue) \cup {r} /\ queue' \in Seq(Results)
  BY <1>1, AppendRange
<1>3. Held' = Held \cup {r}
  BY <1>1, <1>2 DEF Held
<1>4. r \notin Held
  BY <1>1 DEF DataInv, Origins
<1>5. \A i, j \in DOMAIN queue' : queue'[i] = queue'[j] => i = j
  <2>1. /\ DOMAIN queue = 1 .. Len(queue) /\ Len(queue) \in Nat
        /\ DOMAIN queue' = 1 .. Len(queue) + 1
        /\ \A i \in 1 .. Len(queue) : queue'[i] = queue[i]
        /\ queue'[Len(queue) + 1] = r
    BY <1>1, <1>2, AppendProperties, LenProperties
  <2>2. \A i \in 1 .. Len(queue) : queue'[i] # r
    BY <1>4, <2>1 DEF Held, Range
  <2> SUFFICES ASSUME NEW i \in 1 .. Len(queue) + 1, NEW j \in 1 .. Len(queue) + 1,
                      queue'[i] = queue'[j]
               PROVE  i = j
    BY <2>1
  <2>3. CASE i \in 1 .. Len(queue) /\ j \in 1 .. Len(queue)
    BY <2>1, <2>3 DEF DataInv, SinglePlace
  <2>4. CASE i = Len(queue) + 1 \/ j = Len(queue) + 1
    BY <2>1, <2>2, <2>4
  <2> QED
    BY <2>1, <2>3, <2>4
<1>6. SinglePlace'
  <2>1. \A m \in unconf' \cup hand' : m.r \notin Range(queue')
    BY <1>1, <1>2, <1>4 DEF DataInv, SinglePlace, Held
  <2> QED
    BY <1>1, <1>5, <2>1 DEF DataInv, SinglePlace
<1>7. Accounted' /\ Origins'
  BY <1>1, <1>3 DEF DataInv, Accounted, Origins
<1>8. FramesSound' /\ AcksSound' /\ StaleAreLate'
  BY <1>1 DEF DataInv, FramesSound, AcksSound, StaleAreLate
<1> QED
  BY <1>3, <1>6, <1>7, <1>8 DEF DataInv

\* The head of the queue becomes a message with an id that nothing else has.
LEMMA SendHeadData ==
  ASSUME TypeOK, DataInv, SendHead,
         \/ unconf' = unconf \cup {NewMessage} /\ hand' = hand
         \/ unconf' = unconf /\ hand' = {NewMessage}
  PROVE  /\ DataInv'
         /\ Held' = Held
<1> DEFINE msg == NewMessage
<1>1. /\ queue # <<>> /\ FreshIds # {} /\ hand = {} /\ tws \in Conns
      /\ queue' = Tail(queue)
      /\ UNCHANGED <<down, wq, produced, accepted, dropped>>
  BY DEF TypeOK, SendHead, collectorVars, historyVars
<1>2. /\ msg.r = Head(queue) /\ msg.id = FreshId /\ msg.stale = FALSE
      /\ Output(msg).type = "output" /\ Output(msg).r = msg.r /\ Output(msg).id = msg.id
  BY DEF NewMessage, Output
<1>3. FreshId \notin UsedIds
  BY <1>1, FreshIdFresh
<1>4. unconf' \cup hand' = unconf \cup hand \cup {msg}
  BY <1>1
<1>5. /\ msg.r \in Range(queue)
      /\ Range(queue') = Range(queue) \ {msg.r}
      /\ \A i, j \in DOMAIN queue' : queue'[i] = queue'[j] => i = j
  BY <1>1, <1>2, QueueHead DEF DataInv
<1>6. \A m \in unconf \cup hand : m.id # msg.id /\ m.r # msg.r
  BY <1>2, <1>3, <1>5 DEF UsedIds, DataInv, SinglePlace
<1>7. \A c \in Conns : Range(up'[c]) \subseteq Range(up[c]) \cup {Output(msg)}
  <2>1. Output(msg) \in Frame
    BY SendHeadType
  <2>2. \A c \in Conns : Range(Append(up[c], Output(msg))) = Range(up[c]) \cup {Output(msg)}
    BY <2>1, AppendRange DEF TypeOK
  <2> QED
    BY <1>1, <2>2 DEF SendHead, TypeOK
<1>8. Held' = Held
  BY <1>4, <1>5 DEF Held
<1> HIDE DEF msg
<1>9. SinglePlace'
  <2>1. \A m \in unconf' \cup hand' : m.r \notin Range(queue')
    BY <1>4, <1>5 DEF DataInv, SinglePlace
  <2>2. \A m, n \in unconf' \cup hand' : m.r = n.r => m = n
    BY <1>4, <1>6 DEF DataInv, SinglePlace
  <2>3. unconf' \cap hand' = {} /\ \A m, n \in hand' : m = n
    BY <1>1, <1>6 DEF msg
  <2> QED
    BY <1>5, <2>1, <2>2, <2>3 DEF SinglePlace
<1>10. Accounted' /\ Origins'
  BY <1>1, <1>8 DEF DataInv, Accounted, Origins
<1>11. FramesSound'
  <2> SUFFICES ASSUME NEW c \in Conns, NEW f \in Range(up'[c]), f.type = "output"
               PROVE  /\ f.r \in produced
                      /\ \A m \in unconf' \cup hand' : m.id = f.id => m.r = f.r
    BY <1>1 DEF FramesSound
  <2>1. CASE f = Output(msg)
    <3>1. msg.r \in produced
      BY <1>5 DEF DataInv, Origins, Held
    <3> QED
      BY <1>2, <1>4, <1>6, <2>1, <3>1
  <2>2. CASE f \in Range(up[c])
    <3>1. f.id # msg.id
      <4>1. f \in Outputs(c)
        BY <2>2 DEF Outputs
      <4>2. f.id \in {g.id : g \in Outputs(c)}
        BY <4>1
      <4>3. f.id \in UsedIds
        BY <4>2 DEF UsedIds
      <4> QED
        BY <1>2, <1>3, <4>3
    <3>2. /\ f.r \in produced
          /\ \A m \in unconf \cup hand : m.id = f.id => m.r = f.r
      BY <2>2 DEF DataInv, FramesSound
    <3> QED
      BY <1>4, <3>1, <3>2
  <2> QED
    BY <1>7, <2>1, <2>2
<1>12. AcksSound'
  <2> SUFFICES ASSUME NEW c \in Conns, NEW i \in Range(down[c])
               PROVE  \A m \in unconf' \cup hand' : m.id = i => m.r \in accepted
    BY <1>1 DEF AcksSound
  <2>1. i # msg.id
    BY <1>2, <1>3 DEF UsedIds
  <2> QED
    BY <1>4, <2>1 DEF DataInv, AcksSound
<1>13. StaleAreLate'
  BY <1>2, <1>4 DEF DataInv, StaleAreLate
<1> QED
  BY <1>8, <1>9, <1>10, <1>11, <1>12, <1>13 DEF DataInv

\* The sent message the task was suspended with joins unconfirmed_list.
LEMMA ResumeData ==
  ASSUME DataInv, TransmitResumes
  PROVE  /\ DataInv'
         /\ Held' = Held
<1>1. /\ unconf' = unconf \cup hand /\ hand' = {}
      /\ UNCHANGED <<queue, up, down, wq, produced, accepted, dropped>>
  BY DEF TransmitResumes, linkVars, collectorVars, historyVars
<1>2. unconf' \cup hand' = unconf \cup hand /\ Held' = Held
  BY <1>1 DEF Held
<1>3. SinglePlace' /\ StaleAreLate'
  BY <1>1, <1>2 DEF DataInv, SinglePlace, StaleAreLate
<1>4. Accounted' /\ Origins'
  BY <1>1, <1>2 DEF DataInv, Accounted, Origins
<1>5. FramesSound' /\ AcksSound'
  BY <1>1, <1>2 DEF DataInv, FramesSound, AcksSound
<1> QED
  BY <1>2, <1>3, <1>4, <1>5 DEF DataInv

\* The transmit task ends and its result becomes a dropped one.
LEMMA LoseData ==
  ASSUME TypeOK, DataInv, TransmitFails \/ TransmitFailsSuspended
  PROVE  /\ DataInv'
         /\ \E r \in Held : dropped' = dropped \cup {r} /\ Held' = Held \ {r}
<1>1. PICK r : /\ dropped' = dropped \cup {r}
               /\ Held = Held' \cup {r}
               /\ r \notin Held'
               /\ unconf' = unconf /\ hand' \subseteq hand
               /\ Range(queue') \subseteq Range(queue)
               /\ \A i, j \in DOMAIN queue' : queue'[i] = queue'[j] => i = j
               /\ UNCHANGED <<up, down, wq, produced, accepted>>
  <2>1. CASE TransmitFails
    <3>1. /\ queue # <<>> /\ hand = {} /\ hand' = hand /\ unconf' = unconf
          /\ queue' = Tail(queue) /\ dropped' = dropped \cup {Head(queue)}
          /\ UNCHANGED <<up, down, wq, produced, accepted>>
      BY <2>1 DEF TransmitFails, Lose, linkVars, collectorVars
    <3>2. /\ Head(queue) \in Range(queue)
          /\ Range(queue') = Range(queue) \ {Head(queue)}
          /\ \A i, j \in DOMAIN queue' : queue'[i] = queue'[j] => i = j
      BY <3>1, QueueHead DEF DataInv
    <3>3. \A m \in unconf \cup hand : m.r # Head(queue)
      BY <3>2 DEF DataInv, SinglePlace
    <3> QED
      BY <3>1, <3>2, <3>3 DEF Held
  <2>2. CASE TransmitFailsSuspended
    <3>1. PICK m \in hand :
            /\ dropped' = dropped \cup {m.r} /\ hand' = {} /\ queue' = queue
            /\ UNCHANGED <<unconf, up, down, wq, produced, accepted>>
      BY <2>2 DEF TransmitFailsSuspended, Lose, linkVars, collectorVars
    <3>2. hand = {m}
      BY DEF DataInv, SinglePlace
    <3>3. m.r \notin Range(queue) /\ \A n \in unconf : n.r # m.r
      BY DEF DataInv, SinglePlace
    <3> QED
      BY <3>1, <3>2, <3>3 DEF Held, DataInv, SinglePlace
  <2> QED
    BY <2>1, <2>2
<1>2. SinglePlace' /\ StaleAreLate'
  BY <1>1 DEF DataInv, SinglePlace, StaleAreLate
<1>3. Accounted' /\ Origins'
  BY <1>1 DEF DataInv, Accounted, Origins
<1>4. FramesSound' /\ AcksSound'
  BY <1>1 DEF DataInv, FramesSound, AcksSound
<1> QED
  BY <1>1, <1>2, <1>3, <1>4 DEF DataInv

\* An acknowledgement removes entries of accepted results only.
LEMMA AckConfirmsAccepted ==
  ASSUME TypeOK, DataInv, ReceiveAck
  PROVE  /\ Head(down[rws]) \in Range(down[rws])
         /\ \A c \in Conns : Range(down'[c]) \subseteq Range(down[c])
         /\ \A m \in Confirmed(Head(down[rws])) : m.r \in accepted
<1>1. rws \in Conns /\ down[rws] \in Seq(Ids) /\ down[rws] # <<>>
  BY DEF TypeOK, ReceiveAck
<1>2. /\ Head(down[rws]) \in Range(down[rws])
      /\ Range(Tail(down[rws])) \subseteq Range(down[rws])
  BY <1>1, HeadTailRange
<1>3. \A c \in Conns : Range(down'[c]) \subseteq Range(down[c])
  BY <1>1, <1>2 DEF ReceiveAck, TypeOK
<1>4. \A m \in Confirmed(Head(down[rws])) : m.r \in accepted
  BY <1>1, <1>2 DEF Confirmed, DataInv, AcksSound
<1> QED
  BY <1>2, <1>3, <1>4

LEMMA ReceiveAckData ==
  ASSUME TypeOK, DataInv, ReceiveAck
  PROVE  /\ DataInv'
         /\ Held' \subseteq Held /\ Held \subseteq Held' \cup accepted
<1>1. /\ unconf' = unconf \ Confirmed(Head(down[rws]))
      /\ UNCHANGED <<queue, hand, up, wq, produced, accepted, dropped>>
  BY DEF ReceiveAck, collectorVars, historyVars
<1>2. Held' \subseteq Held /\ Held \subseteq Held' \cup accepted
  BY <1>1, AckConfirmsAccepted DEF Held
<1>3. SinglePlace' /\ StaleAreLate'
  BY <1>1 DEF DataInv, SinglePlace, StaleAreLate
<1>4. Accounted' /\ Origins'
  BY <1>1, <1>2 DEF DataInv, Accounted, Origins
<1>5. FramesSound' /\ AcksSound'
  BY <1>1, AckConfirmsAccepted DEF DataInv, FramesSound, AcksSound
<1> QED
  BY <1>2, <1>3, <1>4, <1>5 DEF DataInv

\* The task of the requeue timer: the clock, the wake-up, and its start.
LEMMA TickData ==
  ASSUME TypeOK, DataInv, Tick
  PROVE  /\ DataInv'
         /\ Held' = Held
<1> DEFINE G == [m \in Sent |-> [m EXCEPT !.age = IF @ > AckTimeout THEN @ ELSE @ + 1]]
<1>1. unconf \in SUBSET Sent /\ hand \in SUBSET Sent
  BY DEF TypeOK
<1>2. \A m \in unconf \cup hand :
        G[m].r = m.r /\ G[m].id = m.id /\ (G[m].stale => G[m].age > AckTimeout)
  BY <1>1, BoundsAssumption DEF Sent, DataInv, StaleAreLate
<1>3. unconf' = {G[m] : m \in unconf} /\ hand' = {G[m] : m \in hand}
  BY <1>1 DEF Tick, Aged
<1>4. /\ queue \in Seq(Results) /\ queue' = queue \o <<>>
      /\ UNCHANGED <<up, down, wq, produced, accepted, dropped>>
  BY ConcatEmptySeq DEF TypeOK, Tick, linkVars, collectorVars, historyVars
<1>5. <<>> \in Seq(Results) /\ DOMAIN <<>> = {} /\ Range(<<>>) = {}
  BY EmptySeq DEF Range
<1>6. Reshaped(unconf, G, <<>>)
  BY <1>2, <1>3, <1>4, <1>5 DEF Reshaped
<1> QED
  BY <1>6, ImagesKeepData

LEMMA RequeueData ==
  ASSUME TypeOK, DataInv, RequeueStale
  PROVE  /\ DataInv'
         /\ Held' = Held
<1> DEFINE G == [m \in Sent |-> [m EXCEPT !.stale = m.age > AckTimeout]]
<1>1. unconf \in SUBSET Sent /\ hand \in SUBSET Sent
  BY DEF TypeOK
<1>2. \A m \in unconf \cup hand :
        G[m].r = m.r /\ G[m].id = m.id /\ (G[m].stale => G[m].age > AckTimeout)
  BY <1>1 DEF Sent
<1>3. unconf' = {G[m] : m \in Fresh} /\ hand' = {G[m] : m \in hand}
  BY <1>1 DEF RequeueStale, Cutoff, Fresh
<1>4. Fresh \in SUBSET unconf /\ unconf \ Fresh = Stale
  BY DEF Fresh, Stale
<1>5. PICK order \in Orders({m.r : m \in Stale}) : queue' = queue \o order
  BY DEF RequeueStale, PutBack
<1>6. /\ order \in Seq(Results)
      /\ Range(order) = {m.r : m \in unconf \ Fresh}
      /\ \A i, j \in DOMAIN order : order[i] = order[j] => i = j
  BY <1>4, OrdersAreSequences, StaleResults, SeqMonotonic
<1>7. UNCHANGED <<up, down, wq, produced, accepted, dropped>>
  BY DEF RequeueStale, linkVars, collectorVars, historyVars
<1>8. Reshaped(Fresh, G, order)
  BY <1>2, <1>3, <1>4, <1>5, <1>6, <1>7 DEF Reshaped
<1> QED
  BY <1>8, ImagesKeepData

LEMMA SuperviseData ==
  ASSUME TypeOK, DataInv, Supervise
  PROVE  /\ DataInv'
         /\ Held' = Held
<1> DEFINE G == [m \in Sent |-> [m EXCEPT !.stale = m.age > AckTimeout]]
<1>1. unconf \in SUBSET Sent /\ hand \in SUBSET Sent
  BY DEF TypeOK
<1>2. UNCHANGED <<queue, up, down, wq, produced, accepted, dropped>>
  BY DEF Supervise, linkVars, collectorVars, historyVars
<1>3. CASE qpc = "done"
  <2>1. \A m \in unconf \cup hand :
          G[m].r = m.r /\ G[m].id = m.id /\ (G[m].stale => G[m].age > AckTimeout)
    BY <1>1 DEF Sent
  <2>2. unconf' = {G[m] : m \in unconf} /\ hand' = {G[m] : m \in hand}
    BY <1>1, <1>3 DEF Supervise, Cutoff
  <2>3. queue \in Seq(Results) /\ queue' = queue \o <<>>
    BY <1>2, ConcatEmptySeq DEF TypeOK
  <2>4. <<>> \in Seq(Results) /\ DOMAIN <<>> = {} /\ Range(<<>>) = {}
    BY EmptySeq DEF Range
  <2>5. Reshaped(unconf, G, <<>>)
    BY <1>2, <2>1, <2>2, <2>3, <2>4 DEF Reshaped
  <2> QED
    BY <2>5, ImagesKeepData
<1>4. CASE qpc # "done"
  <2>1. UNCHANGED <<unconf, hand>>
    BY <1>4 DEF Supervise
  <2> QED
    BY <1>2, <2>1, QuietStep DEF ChannelsShrink, Held
<1> QED
  BY <1>3, <1>4

\* handle_output_message: the result of the frame is accepted, and the frame's
\* id, if it is acknowledged, stands for no other result.
LEMMA HandleOutputData ==
  ASSUME TypeOK, DataInv, NEW c \in Conns, HandleOutput(c) \/ HandleOutputClosed(c)
  PROVE  DataInv'
<1> DEFINE f == Head(up[c])
<1>1. /\ up[c] \in Seq(Frame) /\ up[c] # <<>>
      /\ f \in Range(up[c]) /\ f.type = "output" /\ f.id \in Ids
  BY HandledFrame DEF HandleOutput, HandleOutputClosed
<1>2. /\ accepted' = accepted \cup {f.r} /\ wq' = wq \cup {f.r}
      /\ UNCHANGED <<queue, unconf, hand, produced, dropped>>
  BY DEF HandleOutput, HandleOutputClosed, Enqueue, proberVars
<1>3. /\ f.r \in produced
      /\ \A m \in unconf \cup hand : m.id = f.id => m.r = f.r
  BY <1>1 DEF DataInv, FramesSound
<1>4. \A d \in Conns : Range(up'[d]) \subseteq Range(up[d])
  <2>1. Range(Tail(up[c])) \subseteq Range(up[c]) /\ Range(<<>>) = {}
    BY <1>1, HeadTailRange DEF Range
  <2>2. up' = [up EXCEPT ![c] = Tail(@)] \/ up' = [up EXCEPT ![c] = <<>>]
    BY DEF HandleOutput, HandleOutputClosed
  <2> QED
    BY <2>1, <2>2 DEF TypeOK
<1>5. \A d \in Conns : Range(down'[d]) \subseteq Range(down[d]) \cup {f.id}
  <2>1. Range(Append(down[c], f.id)) = Range(down[c]) \cup {f.id}
    BY <1>1, AppendRange DEF TypeOK
  <2>2. down' = [down EXCEPT ![c] = Append(@, f.id)] \/ down' = down
    BY DEF HandleOutput, HandleOutputClosed
  <2> QED
    BY <2>1, <2>2 DEF TypeOK
<1> HIDE DEF f
<1>6. SinglePlace' /\ StaleAreLate' /\ Held' = Held
  BY <1>2 DEF DataInv, SinglePlace, StaleAreLate, Held
<1>7. Accounted' /\ Origins'
  BY <1>2, <1>3, <1>6 DEF DataInv, Accounted, Origins
<1>8. FramesSound'
  BY <1>2, <1>4 DEF DataInv, FramesSound
<1>9. AcksSound'
  BY <1>2, <1>3, <1>5 DEF DataInv, AcksSound
<1> QED
  BY <1>6, <1>7, <1>8, <1>9 DEF DataInv

\* The actions that are none of the above take nothing but frames,
\* acknowledgements and entries of write_queue away.
LEMMA DataStep ==
  ASSUME TypeOK, DataInv, [Next]_vars
  PROVE  DataInv'
<1> USE DEF proberVars, linkVars, collectorVars, historyVars
<1>0. \A T : \A s \in Seq(T) : s # <<>> => Range(Tail(s)) \subseteq Range(s)
  BY HeadTailRange
<1>1. ASSUME NEW r \in Results, PingerOutput(r)
      PROVE  DataInv'
  BY <1>1, PingerOutputData
<1>2. ASSUME NEW r \in Results, WriterStores(r) \/ WriterDies(r)
      PROVE  DataInv'
  BY <1>2, QuietStep DEF WriterStores, WriterDies, ChannelsShrink
<1>3. CASE Shutdown \/ SuperviseClosed \/ ConnectAborted \/ ReceiveFails
  BY <1>3, QuietStep DEF Shutdown, SuperviseClosed, ConnectAborted, ReceiveFails, ChannelsShrink
<1>4. ASSUME NEW c \in Conns, ConnectOk(c)
      PROVE  DataInv'
  <2>1. Range(<<>>) = {} /\ Range(<<Auth>>) = {Auth}
    BY DEF Range
  <2>2. ChannelsShrink
    BY <1>4, <2>1 DEF ConnectOk, ChannelsShrink, TypeOK
  <2> QED
    BY <1>4, <2>2, QuietStep DEF ConnectOk
<1>5. CASE Supervise
  BY <1>5, SuperviseData
<1>6. CASE TransmitSends \/ TransmitSuspends
  BY <1>6, SendHeadData DEF TransmitSends, TransmitSuspends
<1>7. CASE TransmitResumes
  BY <1>7, ResumeData
<1>8. CASE TransmitFails \/ TransmitFailsSuspended
  BY <1>8, LoseData
<1>9. CASE ReceiveAck
  BY <1>9, ReceiveAckData
<1>10. CASE RequeueStale
  BY <1>10, RequeueData
<1>11. CASE Tick
  BY <1>11, TickData
<1>12. ASSUME NEW c \in Conns, Notices(c)
       PROVE  DataInv'
  BY <1>12, QuietStep DEF Notices, ClientNotices, ServerNotices, ChannelsShrink
<1>13. ASSUME NEW c \in Conns,
              AuthRegister(c) \/ TargetsSent(c) \/ TargetsFail(c) \/ SessionEnds(c)
       PROVE  DataInv'
  BY <1>13, QuietStep
     DEF AuthRegister, TargetsSent, TargetsFail, SessionEnds, ChannelsShrink
<1>14. ASSUME NEW c \in Conns, AuthUnregistered(c)
       PROVE  DataInv'
  <2>1. Range(Tail(up[c])) \subseteq Range(up[c])
    BY <1>0, <1>14 DEF AuthUnregistered, AuthArrives, TypeOK
  <2>2. ChannelsShrink
    BY <1>14, <2>1 DEF AuthUnregistered, ChannelsShrink, TypeOK
  <2> QED
    BY <1>14, <2>2, QuietStep DEF AuthUnregistered
<1>15. ASSUME NEW c \in Conns, AuthDuplicate(c) \/ AuthUnknown(c) \/ TargetsEmpty(c)
       PROVE  DataInv'
  <2>1. PICK s : ServerCloses(c, s) /\ Range(s) \subseteq Range(up[c])
    <3>1. Range(<<>>) = {}
      BY DEF Range
    <3>2. \A s \in Prefixes(up[c]) : Range(s) \subseteq Range(up[c])
      BY PrefixType DEF TypeOK
    <3> QED
      BY <1>15, <3>1, <3>2 DEF AuthDuplicate, AuthUnknown, TargetsEmpty
  <2>2. ChannelsShrink
    BY <2>1 DEF ServerCloses, ChannelsShrink, TypeOK
  <2> QED
    BY <1>15, <2>2, QuietStep DEF AuthDuplicate, AuthUnknown, TargetsEmpty
<1>16. ASSUME NEW c \in Conns, HandleOutput(c) \/ HandleOutputClosed(c)
       PROVE  DataInv'
  BY <1>16, HandleOutputData
<1>17. CASE CollectorRestarts
  <2>1. Range(<<>>) = {}
    BY DEF Range
  <2>2. ChannelsShrink
    BY <1>17, <2>1 DEF CollectorRestarts, ChannelsShrink
  <2> QED
    BY <1>17, <2>2, QuietStep DEF CollectorRestarts
<1>18. ASSUME NEW c \in Conns, LinkBreaks(c)
       PROVE  DataInv'
  <2>1. PICK s \in Prefixes(up[c]), a \in Prefixes(down[c]) :
          up' = [up EXCEPT ![c] = s] /\ down' = [down EXCEPT ![c] = a]
    BY <1>18 DEF LinkBreaks
  <2>2. Range(s) \subseteq Range(up[c]) /\ Range(a) \subseteq Range(down[c])
    BY PrefixType DEF TypeOK
  <2>3. ChannelsShrink
    BY <2>1, <2>2 DEF ChannelsShrink, TypeOK
  <2> QED
    BY <1>18, <2>3, QuietStep DEF LinkBreaks
<1>19. CASE UNCHANGED vars
  BY <1>19, QuietStep DEF vars, ChannelsShrink
<1> QED
  BY <1>1, <1>2, <1>3, <1>4, <1>5, <1>6, <1>7, <1>8, <1>9, <1>10, <1>11, <1>12, <1>13,
     <1>14, <1>15, <1>16, <1>17, <1>18, <1>19
     DEF Next, Supervisor, Transmit, Receive, Session, Faults

\* A connection on which a result was lost is closed and has no transmit task:
\* it gets another one, and may lose another result, as a new connection only.
LEMMA LossStep ==
  ASSUME TypeOK, LossInv, [Next]_vars
  PROVE  LossInv'
<1> USE DEF LossInv, OneLossPerConnection, LossesClosed, TypeOK,
            proberVars, linkVars, collectorVars, historyVars
<1>1. CASE UNCHANGED <<cl, tws, lostOn>>
  BY <1>1
<1>2. ASSUME NEW c \in Conns, ConnectOk(c)
      PROVE  LossInv'
  BY <1>2 DEF ConnectOk
<1>3. CASE Supervise
  BY <1>3 DEF Supervise
<1>4. CASE TransmitFails
  BY <1>4, NoConnAssumption DEF TransmitFails, Lose
<1>5. CASE TransmitFailsSuspended
  BY <1>5, NoConnAssumption DEF TransmitFailsSuspended, Lose
<1>6. ASSUME NEW c \in Conns, ClientNotices(c)
      PROVE  LossInv'
  BY <1>6 DEF ClientNotices
<1>7. \/ UNCHANGED <<cl, tws, lostOn>>
      \/ \E c \in Conns : ConnectOk(c) \/ ClientNotices(c)
      \/ Supervise \/ TransmitFails \/ TransmitFailsSuspended
  BY DEF vars, Next, Supervisor, SuperviseClosed, PingerOutput, WriterStores, Shutdown,
         Transmit, TransmitSends, TransmitSuspends, SendHead, TransmitResumes,
         Receive, ReceiveAck, ReceiveFails, RequeueStale, Tick, Notices, ServerNotices,
         Session, AuthUnregistered, AuthDuplicate, AuthRegister, TargetsSent, TargetsFail,
         HandleOutput, HandleOutputClosed, SessionEnds, Faults, ConnectAborted,
         CollectorRestarts, LinkBreaks, AuthUnknown, TargetsEmpty, WriterDies, ServerCloses
<1> QED
  BY <1>1, <1>2, <1>3, <1>4, <1>5, <1>6, <1>7

LEMMA DeliveryInit == Init => DeliveryInv
<1> SUFFICES ASSUME Init
             PROVE  DeliveryInv
  OBVIOUS
<1>1. Range(<<>>) = {} /\ DOMAIN <<>> = {}
  BY DEF Range
<1>2. SinglePlace /\ Accounted /\ Origins /\ FramesSound /\ AcksSound /\ StaleAreLate
  BY <1>1 DEF Init, SinglePlace, Accounted, Origins, FramesSound, AcksSound, StaleAreLate, Held
<1>3. OneLossPerConnection /\ LossesClosed
  BY DEF Init, OneLossPerConnection, LossesClosed
<1> QED
  BY <1>2, <1>3, TypeInit DEF DeliveryInv

LEMMA DeliveryStep == DeliveryInv /\ [Next]_vars => DeliveryInv'
BY TypeStep, DataStep, LossStep DEF DeliveryInv, DataInv, LossInv

\* The inductive invariant of the delivery protocol (DeliveryInv) holds of every
\* behaviour of the prober, the connections and the collector.
THEOREM DeliveryInvariant == Spec => []DeliveryInv
<1> QED
  BY DeliveryInit, DeliveryStep, PTL DEF Spec

\* The safety properties of the runs, for any number of results, connections and
\* faults: a result is in one place (SinglePlace),
THEOREM SinglePlaceAlways == Spec => []SinglePlace
<1>1. DeliveryInv => SinglePlace
  BY DEF DeliveryInv
<1> QED
  BY <1>1, DeliveryInvariant, PTL

\* it is held, accepted or known to be dropped (Accounted),
THEOREM AccountedAlways == Spec => []Accounted
<1>1. DeliveryInv => Accounted
  BY DEF DeliveryInv
<1> QED
  BY <1>1, DeliveryInvariant, PTL

\* and a lost connection costs at most one result (OneLossPerConnection).
THEOREM OneLossAlways == Spec => []OneLossPerConnection
<1>1. DeliveryInv => OneLossPerConnection
  BY DEF DeliveryInv
<1> QED
  BY <1>1, DeliveryInvariant, PTL

-----------------------------------------------------------------------------
(* What a step may do: go back to the queue late only; keep the promise *)

\* Only RequeueStale puts an unconfirmed result back in the queue.
LEMMA RequeueStepLate ==
  ASSUME DeliveryInv, [Next]_vars, NEW m \in unconf, m.r \in Range(queue')
  PROVE  m.age > AckTimeout
<1> USE DEF proberVars, linkVars, collectorVars, historyVars
<1>1. /\ TypeOK /\ SinglePlace
      /\ m.r \notin Range(queue) /\ m.r \in produced
      /\ queue \in Seq(Results)
  BY DEF DeliveryInv, SinglePlace, Origins, Held, TypeOK
<1>2. CASE queue' = queue
  BY <1>1, <1>2
<1>3. CASE \E r \in Results : PingerOutput(r)
  <2>1. PICK r \in Results : queue' = Append(queue, r) /\ r \notin produced
    BY <1>3 DEF PingerOutput
  <2>2. Range(queue') = Range(queue) \cup {r}
    BY <1>1, <2>1, AppendRange
  <2> QED
    BY <1>1, <2>1, <2>2
<1>4. CASE queue # <<>> /\ queue' = Tail(queue)
  <2>1. Range(queue') \subseteq Range(queue)
    BY <1>1, <1>4, HeadTailRange
  <2> QED
    BY <1>1, <2>1
<1>5. CASE RequeueStale
  <2>1. PICK order \in Orders({n.r : n \in Stale}) : queue' = queue \o order
    BY <1>5 DEF RequeueStale, PutBack
  <2>2. /\ order \in Seq(Results)
        /\ Range(order) = {n.r : n \in Stale}
    BY <1>1, <2>1, OrdersAreSequences, StaleResults, SeqMonotonic
  <2>3. Range(queue') = Range(queue) \cup {n.r : n \in Stale}
    BY <1>1, <2>1, <2>2, RangeConcatenation
  <2>4. PICK n \in unconf : n.stale /\ n.r = m.r
    BY <1>1, <2>3 DEF Stale
  <2>5. n = m
    BY <2>4 DEF DeliveryInv, SinglePlace
  <2> QED
    BY <2>4, <2>5 DEF DeliveryInv, StaleAreLate
<1>6. \/ queue' = queue
      \/ \E r \in Results : PingerOutput(r)
      \/ queue # <<>> /\ queue' = Tail(queue)
      \/ RequeueStale
  BY DEF vars, Next, Supervisor, ConnectOk, Supervise, SuperviseClosed, WriterStores,
         Shutdown, Transmit, TransmitSends, TransmitSuspends, SendHead, TransmitResumes,
         TransmitFails, TransmitFailsSuspended, Receive, ReceiveAck, ReceiveFails, Tick,
         Notices, ClientNotices, ServerNotices, Session, AuthUnregistered, AuthDuplicate,
         AuthRegister, TargetsSent, TargetsFail, HandleOutput, HandleOutputClosed,
         SessionEnds, Faults, ConnectAborted, CollectorRestarts, LinkBreaks, AuthUnknown,
         TargetsEmpty, WriterDies
<1> QED
  BY <1>2, <1>3, <1>4, <1>5, <1>6

\* A message goes back to the queue only when it is later than
\* MESSAGE_ACK_TIMEOUT (RequeuedOnlyWhenLate).
THEOREM RequeuedLateAlways == Spec => RequeuedOnlyWhenLate
<1>1. DeliveryInv /\ [Next]_vars
        => [\A m \in unconf : m.r \in Range(queue') => m.age > AckTimeout]_vars
  BY RequeueStepLate
<1> QED
  BY <1>1, DeliveryInvariant, PTL DEF Spec, RequeuedOnlyWhenLate

\* A step that keeps what the prober holds and the history is no step of the
\* promise.
LEMMA StutterKeepsPromise ==
  ASSUME Held' = Held, UNCHANGED <<accepted, dropped, stored>>
  PROVE  [Promise!Next]_(Promise!vars)
BY DEF Promise!vars

LEMMA PromiseStep ==
  ASSUME DeliveryInv, [Next]_vars
  PROVE  [Promise!Next]_(Promise!vars)
<1> USE DEF proberVars, linkVars, collectorVars, historyVars
<1>1. TypeOK /\ DataInv
  BY DEF DeliveryInv, DataInv
<1>2. ASSUME NEW r \in Results, PingerOutput(r)
      PROVE  [Promise!Next]_(Promise!vars)
  <2>1. r \notin Held \cup accepted \cup dropped
    BY <1>2 DEF DeliveryInv, Origins, PingerOutput
  <2>2. Promise!Produce(r)
    BY <1>1, <1>2, <2>1, PingerOutputData DEF PingerOutput, Promise!Produce
  <2> QED
    BY <2>2 DEF Promise!Next
<1>3. ASSUME NEW r \in Results, WriterStores(r)
      PROVE  [Promise!Next]_(Promise!vars)
  <2>1. Promise!Store(r)
    BY <1>3 DEF WriterStores, Promise!Store, DeliveryInv, Origins, Held
  <2> QED
    BY <2>1 DEF Promise!Next
<1>4. ASSUME NEW c \in Conns, HandleOutput(c) \/ HandleOutputClosed(c)
      PROVE  [Promise!Next]_(Promise!vars)
  <2> DEFINE r == Head(up[c]).r
  <2>1. OutputArrives(c)
    BY <1>4 DEF HandleOutput, HandleOutputClosed
  <2>2. Head(up[c]) \in Range(up[c]) /\ Head(up[c]).type = "output" /\ r \in Results
    BY <1>1, <2>1, HandledFrame
  <2>3. r \in produced
    BY <2>2 DEF DeliveryInv, FramesSound
  <2>4. Promise!Accept(r)
    BY <1>4, <2>3
       DEF HandleOutput, HandleOutputClosed, Enqueue, Promise!Accept, DeliveryInv,
           Accounted, Held
  <2> QED
    BY <2>2, <2>4 DEF Promise!Next
<1>5. CASE ReceiveAck
  <2> DEFINE R == Held \ Held'
  <2>1. Held' \subseteq Held /\ R \subseteq Held \cap accepted /\ R \in SUBSET Results
    BY <1>1, <1>5, ReceiveAckData DEF TypeOK
  <2>2. Promise!Confirm(R)
    BY <1>5, <2>1 DEF ReceiveAck, Promise!Confirm
  <2> QED
    BY <2>1, <2>2 DEF Promise!Next
<1>6. CASE TransmitFails \/ TransmitFailsSuspended
  <2>1. PICK r \in Held : dropped' = dropped \cup {r} /\ Held' = Held \ {r}
    BY <1>1, <1>6, LoseData
  <2>2. r \in Results
    BY <1>1, <2>1 DEF DeliveryInv, Origins, TypeOK
  <2>3. Promise!Drop(r)
    BY <1>6, <2>1 DEF TransmitFails, TransmitFailsSuspended, Lose, Promise!Drop
  <2> QED
    BY <2>2, <2>3 DEF Promise!Next
<1>7. CASE TransmitSends \/ TransmitSuspends
  BY <1>1, <1>7, SendHeadData, StutterKeepsPromise
     DEF TransmitSends, TransmitSuspends, SendHead
<1>8. CASE TransmitResumes
  BY <1>1, <1>8, ResumeData, StutterKeepsPromise DEF TransmitResumes
<1>9. CASE Supervise
  BY <1>1, <1>9, SuperviseData, StutterKeepsPromise DEF Supervise
<1>10. CASE RequeueStale
  BY <1>1, <1>10, RequeueData, StutterKeepsPromise DEF RequeueStale
<1>11. CASE Tick
  BY <1>1, <1>11, TickData, StutterKeepsPromise DEF Tick
<1>12. CASE UNCHANGED <<queue, unconf, hand, accepted, dropped, stored>>
  BY <1>12, StutterKeepsPromise DEF Held
<1>13. \/ \E r \in Results : PingerOutput(r) \/ WriterStores(r)
       \/ \E c \in Conns : HandleOutput(c) \/ HandleOutputClosed(c)
       \/ ReceiveAck \/ TransmitFails \/ TransmitFailsSuspended
       \/ TransmitSends \/ TransmitSuspends \/ TransmitResumes
       \/ Supervise \/ RequeueStale \/ Tick
       \/ UNCHANGED <<queue, unconf, hand, accepted, dropped, stored>>
  <2> DEFINE Same == UNCHANGED <<queue, unconf, hand, accepted, dropped, stored>>
  <2>1. ASSUME NEW c \in Conns, Notices(c) \/ Session(c)
        PROVE  Same \/ HandleOutput(c) \/ HandleOutputClosed(c)
    BY <2>1 DEF Notices, ClientNotices, ServerNotices, Session, AuthUnregistered,
                AuthDuplicate, AuthRegister, TargetsSent, TargetsFail, SessionEnds
  <2>2. ASSUME Faults PROVE Same
    BY <2>2 DEF Faults, ConnectAborted, CollectorRestarts, LinkBreaks, AuthUnknown,
                TargetsEmpty, WriterDies
  <2>3. ASSUME Supervisor PROVE Same \/ Supervise
    BY <2>3 DEF Supervisor, ConnectOk, SuperviseClosed
  <2>4. ASSUME Receive PROVE Same \/ ReceiveAck
    BY <2>4 DEF Receive, ReceiveFails
  <2>5. Shutdown \/ UNCHANGED vars => Same
    BY DEF Shutdown, vars
  <2> HIDE DEF Same
  <2>6. \/ \E r \in Results : PingerOutput(r) \/ WriterStores(r)
        \/ Shutdown \/ UNCHANGED vars \/ Supervisor \/ Transmit \/ Receive
        \/ RequeueStale \/ Tick
        \/ \E c \in Conns : Notices(c) \/ Session(c)
        \/ Faults
    BY DEF Next
  <2> USE DEF Same
  <2> QED
    BY <2>1, <2>2, <2>3, <2>4, <2>5, <2>6 DEF Transmit
<1> QED
  BY <1>2, <1>3, <1>4, <1>5, <1>6, <1>7, <1>8, <1>9, <1>10, <1>11, <1>12, <1>13

LEMMA PromiseInit == Init => Promise!Init
<1>1. Range(<<>>) = {}
  BY DEF Range
<1> QED
  BY <1>1 DEF Init, Promise!Init, Held

\* The prober and the collector implement DeliveryPromise (PromiseKept): whatever
\* is lost, late, repeated or restarted, the prober forgets a result only when
\* the collector accepted it or a connection was lost under its sending, and
\* nothing is stored that was not accepted.
THEOREM KeepsPromise == Spec => PromiseKept
<1>1. DeliveryInv /\ [Next]_vars => [Promise!Next]_(Promise!vars)
  BY PromiseStep
<1> QED
  BY <1>1, PromiseInit, DeliveryInvariant, PTL DEF Spec, PromiseKept, Promise!Spec
=============================================================================
