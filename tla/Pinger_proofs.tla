---------------------------- MODULE Pinger_proofs ----------------------------
(***************************************************************************)
(* Proofs about the rounds of the Pinger, for any addresses, target lists  *)
(* and width of the sequence number.                                       *)
(*                                                                         *)
(* RoundInv is inductive.  The step that matters is the end of a round: a  *)
(* packet of the air is one round older, the sequence number is one        *)
(* further or begins again, and so the distance between the two stays the  *)
(* packet's age, going round.  A packet with the number of the round is    *)
(* then of age 0 (its age is below SeqMod): a reply to this round.         *)
(***************************************************************************)
EXTENDS Pinger, Checksum, TLAPS

\* A sequence number comes after another modulo SeqMod.
LEMMA NextSeqCounts ==
  ASSUME seq \in 0 .. SeqMod - 1
  PROVE  /\ NextSeq \in 0 .. SeqMod - 1
         /\ NextSeq = seq + 1 \/ NextSeq + SeqMod = seq + 1
BY SeqAssumption DEF NextSeq

\* A packet whose number is that of the round was sent in the round.
LEMMA SameNumberSameRound ==
  ASSUME RoundInv, NEW p \in air, p.seq = seq
  PROVE  p.age = 0
<1>1. p \in Packet /\ p.seq + p.age \in {seq, seq + SeqMod}
  BY DEF RoundInv, TypeOK, NumberedBack
<1>2. p.seq \in 0 .. SeqMod - 1 /\ p.age \in 0 .. SeqMod - 1
  BY <1>1 DEF Packet
<1> QED
  BY <1>1, <1>2, SeqAssumption

\* At the end of a round the packets that stay keep their distance.
LEMMA OlderPackets ==
  ASSUME RoundInv
  PROVE  \A p \in Older :
           /\ p \in Packet
           /\ p.age # 0
           /\ p.seq + p.age \in {NextSeq, NextSeq + SeqMod}
<1> SUFFICES ASSUME NEW q \in air, q.age + 1 < SeqMod
             PROVE  LET p == [q EXCEPT !.age = @ + 1]
                    IN  /\ p \in Packet
                        /\ p.age # 0
                        /\ p.seq + p.age \in {NextSeq, NextSeq + SeqMod}
  BY DEF Older
<1> DEFINE p == [q EXCEPT !.age = @ + 1]
<1>1. q \in Packet /\ q.seq + q.age \in {seq, seq + SeqMod} /\ seq \in 0 .. SeqMod - 1
  BY DEF RoundInv, TypeOK, NumberedBack
<1>2. p.ip = q.ip /\ p.seq = q.seq /\ p.age = q.age + 1
  BY <1>1 DEF Packet
<1>3. p \in Packet /\ p.age # 0
  BY <1>1, SeqAssumption DEF Packet
<1>4. p.seq + p.age \in {NextSeq, NextSeq + SeqMod}
  BY <1>1, <1>2, NextSeqCounts, SeqAssumption DEF Packet
<1> QED
  BY <1>3, <1>4

\* A reply that is expected is from an address pinged in this round.
LEMMA ExpectedIsOwn ==
  ASSUME RoundInv, NEW p \in air, Expected(p)
  PROVE  p.ip \in pinged
BY SameNumberSameRound DEF Expected, RoundInv, FreshAreOwn

LEMMA InitRound == Init => RoundInv
BY SeqAssumption
   DEF Init, RoundInv, TypeOK, Complete, AnswersAreOwn, TallyComplete, TallyOwn,
       NumberedBack, FreshAreOwn, Empty

\* The steps that only move the control of the thread, or the target list.
LEMMA ControlStep ==
  ASSUME RoundInv,
         \/ Stop \/ Exit \/ RoundTimesOut \/ UNCHANGED vars
         \/ \E list \in Lists : SetDestinations(list)
         \/ \E p \in air : Expire(p)
  PROVE  RoundInv'
<1>1. CASE Stop
  BY <1>1 DEF Stop, RoundInv, TypeOK, Complete, AnswersAreOwn, TallyComplete, TallyOwn,
              NumberedBack, FreshAreOwn, loopVars
<1>2. CASE Exit
  BY <1>2 DEF Exit, RoundInv, TypeOK, Complete, AnswersAreOwn, TallyComplete, TallyOwn,
              NumberedBack, FreshAreOwn, loopVars
<1>3. CASE RoundTimesOut
  BY <1>3 DEF RoundTimesOut, RoundInv, TypeOK, Complete, AnswersAreOwn, TallyComplete,
              TallyOwn, NumberedBack, FreshAreOwn, loopVars
<1>4. CASE UNCHANGED vars
  BY <1>4 DEF vars, RoundInv, TypeOK, Complete, AnswersAreOwn, TallyComplete, TallyOwn,
              NumberedBack, FreshAreOwn, loopVars
<1>5. ASSUME NEW list \in Lists, SetDestinations(list)
      PROVE  RoundInv'
  BY <1>5, ListsAssumption
     DEF SetDestinations, RoundInv, TypeOK, Complete, AnswersAreOwn, TallyComplete,
         TallyOwn, NumberedBack, FreshAreOwn, loopVars
<1>6. ASSUME NEW p \in air, Expire(p)
      PROVE  RoundInv'
  BY <1>6 DEF Expire, RoundInv, TypeOK, Complete, AnswersAreOwn, TallyComplete,
              TallyOwn, NumberedBack, FreshAreOwn, loopVars
<1> QED
  BY <1>1, <1>2, <1>3, <1>4, <1>5, <1>6

\* The steps of a round before it receives.
LEMMA SendStep ==
  ASSUME RoundInv,
         \/ StartRound \/ BeginReceive
         \/ \E a \in Addrs : SendOnePing(a) \/ SendFails(a)
  PROVE  RoundInv'
<1>1. CASE StartRound
  BY <1>1 DEF StartRound, RoundInv, TypeOK, Complete, AnswersAreOwn, TallyComplete,
              TallyOwn, NumberedBack, FreshAreOwn
<1>2. CASE BeginReceive
  <2>1. NoReplies \in [Addrs -> Nat] /\ \A a \in Addrs : NoReplies[a] = 0
    BY DEF NoReplies, Empty
  <2> QED
    BY <1>2, <2>1
       DEF BeginReceive, RoundInv, TypeOK, Complete, AnswersAreOwn, TallyComplete,
           TallyOwn, NumberedBack, FreshAreOwn
<1>3. ASSUME NEW a \in Addrs, SendOnePing(a)
      PROVE  RoundInv'
  <2> DEFINE p == [ip |-> a, seq |-> seq, age |-> 0]
  <2>1. p \in Packet /\ p.seq + p.age = seq
    BY SeqAssumption DEF RoundInv, TypeOK, Packet
  <2>2. TypeOK'
    BY <1>3, <2>1 DEF SendOnePing, RoundInv, TypeOK
  <2>3. NumberedBack'
    BY <1>3, <2>1 DEF SendOnePing, RoundInv, NumberedBack
  <2>4. FreshAreOwn'
    BY <1>3 DEF SendOnePing, RoundInv, FreshAreOwn
  <2> QED
    BY <1>3, <2>2, <2>3, <2>4
       DEF SendOnePing, RoundInv, Complete, AnswersAreOwn, TallyComplete, TallyOwn
<1>4. ASSUME NEW a \in Addrs, SendFails(a)
      PROVE  RoundInv'
  BY <1>4 DEF SendFails, RoundInv, TypeOK, Complete, AnswersAreOwn, TallyComplete,
              TallyOwn, NumberedBack, FreshAreOwn
<1> QED
  BY <1>1, <1>2, <1>3, <1>4

\* A reply is taken off the list exactly when it is counted.
LEMMA ReceiveStep ==
  ASSUME RoundInv, NEW p \in air, Receive(p)
  PROVE  RoundInv'
<1>1. air' \subseteq air /\ destinations' = destinations /\ pc' \in {"output", "receiving"}
  BY DEF Receive, CopiedList
<1>2. p \in Packet
  BY DEF RoundInv, TypeOK
<1>3. CASE Expected(p)
  <2> DEFINE a == p.ip
  <2>1. /\ a \in Addrs /\ a \in pinged /\ remaining[a] > 0
        /\ replies' = [replies EXCEPT ![a] = @ + 1]
        /\ remaining' = [remaining EXCEPT ![a] = @ - 1]
    BY <1>2, <1>3, ExpectedIsOwn DEF Receive, Removed, Expected, Packet
  <2>2. replies' \in [Addrs -> Nat] /\ remaining' \in [Addrs -> Nat]
    BY <2>1 DEF RoundInv, TypeOK
  <2>3. TallyComplete'
    BY <2>1 DEF Receive, RoundInv, TypeOK, TallyComplete
  <2>4. TallyOwn'
    BY <2>1 DEF Receive, RoundInv, TypeOK, TallyOwn
  <2> QED
    BY <1>1, <2>2, <2>3, <2>4
       DEF Receive, RoundInv, TypeOK, Complete, AnswersAreOwn, NumberedBack, FreshAreOwn
<1>4. CASE ~Expected(p)
  BY <1>1, <1>4
     DEF Receive, RoundInv, TypeOK, Complete, AnswersAreOwn, TallyComplete, TallyOwn,
         NumberedBack, FreshAreOwn
<1> QED
  BY <1>3, <1>4

\* The message of a round is its tally; the packets of the air become older.
LEMMA OutputStep ==
  ASSUME RoundInv, HandleOutput
  PROVE  RoundInv'
<1>1. \A a \in Addrs : output'[a].answered = replies[a] /\ output'[a].timedOut = remaining[a]
  BY DEF HandleOutput
<1>2. output' \in [Addrs -> [answered : Nat, timedOut : Nat]]
  BY DEF HandleOutput, RoundInv, TypeOK
<1>3. seq' \in 0 .. SeqMod - 1 /\ seq' = NextSeq
  BY NextSeqCounts DEF HandleOutput, RoundInv, TypeOK
<1>4. TypeOK' /\ NumberedBack' /\ FreshAreOwn'
  BY <1>2, <1>3, OlderPackets
     DEF HandleOutput, RoundInv, TypeOK, NumberedBack, FreshAreOwn
<1>5. Complete' /\ AnswersAreOwn'
  BY <1>1 DEF HandleOutput, RoundInv, TallyComplete, TallyOwn, Complete, AnswersAreOwn
<1> QED
  BY <1>4, <1>5 DEF HandleOutput, RoundInv, TallyComplete, TallyOwn

\* The invariant of the rounds holds for every width of the sequence number.
THEOREM RoundInvariant == Spec => []RoundInv
<1>1. RoundInv /\ [Next]_vars => RoundInv'
  BY ControlStep, SendStep, ReceiveStep, OutputStep DEF Next, Thread
<1> QED
  BY <1>1, InitRound, PTL DEF Spec

\* Types are kept: the sequence number has its width.
THEOREM TypeCorrect == Spec => []TypeOK
BY RoundInvariant, PTL DEF RoundInv

\* A round reports each destination of its list as often as it is in it.
THEOREM CompleteAlways == Spec => []Complete
BY RoundInvariant, PTL DEF RoundInv

\* No late reply is taken for one of this round.
THEOREM AnswersOwnAlways == Spec => []AnswersAreOwn
BY RoundInvariant, PTL DEF RoundInv

-----------------------------------------------------------------------------
(* The checksum, for packets of any length and content: the host's sum and     *)
(* the receiver's agree modulo 65535, up to the order of bytes (SumInv).       *)

\* Two numbers that differ by a multiple of 65535.
Congruent(a, b) == \E k \in Int : a = b + 65535 * k

LEMMA Division16 ==
  ASSUME NEW s \in Nat
  PROVE  /\ s \div 65536 \in Nat /\ s % 65536 \in Nat /\ s % 65536 < 65536
         /\ s = 65536 * (s \div 65536) + (s % 65536)
  BY Z3

LEMMA Division8 ==
  ASSUME NEW w \in Nat
  PROVE  /\ w \div 256 \in Nat /\ w % 256 \in Nat /\ w % 256 < 256
         /\ w = 256 * (w \div 256) + (w % 256)
  BY Z3

\* A folded sum has 16 bits and differs from the sum by a multiple of 65535.
LEMMA FoldedCongruent ==
  ASSUME NEW s \in Nat, s < 65536 * 65535
  PROVE  Folded(s) \in Nat /\ Folded(s) <= 65535 /\ Congruent(s, Folded(s))
  <1> DEFINE h == s \div 65536
             l == s % 65536
             once == h + l
             c == once \div 65536
             twice == once + c
  <1>1. h \in Nat /\ l \in Nat /\ l < 65536 /\ s = 65536 * h + l
    BY Division16
  <1>2. h < 65535
    BY <1>1
  <1>3. c \in Nat /\ once % 65536 \in Nat /\ once % 65536 < 65536
          /\ once = 65536 * c + (once % 65536)
    BY <1>1, Division16
  <1>4. c <= 1 /\ twice < 2 * 65536
    BY <1>1, <1>2, <1>3
  <1> DEFINE d == twice \div 65536
             f == twice % 65536
  <1>5. d \in Nat /\ f \in Nat /\ f < 65536 /\ twice = 65536 * d + f
    BY <1>1, <1>3, Division16
  <1>6. Folded(s) = f
    BY DEF Folded
  <1>7. d = c
    <2>1. CASE c = 0
      BY <2>1, <1>3, <1>5
    <2>2. CASE c = 1
      BY <2>2, <1>1, <1>2, <1>3, <1>5
    <2> QED BY <1>3, <1>4, <2>1, <2>2
  <1>8. s = f + 65535 * (h + c)
    BY <1>1, <1>3, <1>5, <1>7
  <1>9. h + c \in Int
    BY <1>1, <1>3
  <1> HIDE DEF h, c, f
  <1> QED BY <1>5, <1>6, <1>8, <1>9 DEF Congruent

\* The sum has less than 32 bits.
Small == sum <= 65535 * count /\ (count % 2 = 0 \/ count = Len(data))

\* On a little-endian host the bytes of every word change places, and that is to
\* multiply by 256; on a big-endian one the sums are equal, up to an odd byte.
SumsAgree ==
  /\ byteorder = "little" => Congruent(net, 256 * sum)
  /\ byteorder = "big" /\ (count % 2 = 0) => Congruent(net, sum)

SumInv == ChecksumTypeOK /\ Small /\ SumsAgree /\ Verifies

LEMMA ByteIsSmall ==
  ASSUME NEW b \in Byte
  PROVE  b \in Nat /\ b <= 255
  BY DEF Byte

LEMMA MultipleHasNoRest ==
  ASSUME NEW n \in Nat, NEW k \in Int, n = 65535 * k
  PROVE  n % 65535 = 0
  BY Z3

\* The answer of a sum of either host, in network order.
LEMMA AnswerCongruent ==
  ASSUME NEW w \in Nat, w <= 65535
  PROVE  /\ InNetworkOrder(w) \in Nat /\ InNetworkOrder(w) <= 65535
         /\ byteorder = "little" => Congruent(InNetworkOrder(w), 256 * w)
         /\ byteorder # "little" => InNetworkOrder(w) = w
  <1> DEFINE h == w \div 256
             l == w % 256
  <1>1. h \in Nat /\ l \in Nat /\ l < 256 /\ w = 256 * h + l
    BY Division8
  <1>2. CASE byteorder = "little"
    <2>1. InNetworkOrder(w) = 256 * l + h
      BY <1>2 DEF InNetworkOrder, Word
    <2>2. h <= 255
      BY <1>1
    <2>3. 256 * l + h = 256 * w + 65535 * (-h)
      BY <1>1
    <2>4. -h \in Int
      BY <1>1
    <2>5. InNetworkOrder(w) \in Nat /\ InNetworkOrder(w) <= 65535
      BY <1>1, <2>1, <2>2
    <2>6. Congruent(256 * l + h, 256 * w)
      <3>1. PICK k \in Int : k = -h
        BY <2>4
      <3>2. 256 * l + h = 256 * w + 65535 * k
        BY <2>3, <3>1
      <3> QED BY <3>2 DEF Congruent
    <2>7. Congruent(InNetworkOrder(w), 256 * w)
      BY <2>1, <2>6
    <2> QED BY <1>2, <2>5, <2>7
  <1>3. CASE byteorder # "little"
    BY <1>3 DEF InNetworkOrder
  <1> QED BY <1>2, <1>3

-----------------------------------------------------------------------------
LEMMA InitSumInv == ChecksumInit => SumInv
  <1> SUFFICES ASSUME ChecksumInit PROVE SumInv
    OBVIOUS
  <1>1. data \in Seq(Byte) /\ Len(data) <= 65535 /\ Len(data) \in Nat
    BY PacketsAssumption DEF ChecksumInit
  <1>2. sum = 0 /\ net = 0 /\ count = 0 /\ answer = Unknown /\ byteorder \in {"little", "big"}
    BY DEF ChecksumInit
  <1>3. ChecksumTypeOK
    BY <1>1, <1>2 DEF ChecksumTypeOK
  <1>4. Small
    BY <1>2 DEF Small
  <1>5. SumsAgree
    <2>1. 0 \in Int /\ 0 = 256 * 0 + 65535 * 0 /\ 0 = 0 + 65535 * 0
      OBVIOUS
    <2>2. Congruent(0, 256 * 0) /\ Congruent(0, 0)
      BY <2>1 DEF Congruent
    <2>3. Congruent(net, 256 * sum) /\ Congruent(net, sum)
      BY <1>2, <2>2
    <2> HIDE DEF Congruent
    <2> QED BY <2>3 DEF SumsAgree
  <1>6. Verifies
    BY <1>2 DEF Verifies
  <1> QED BY <1>3, <1>4, <1>5, <1>6 DEF SumInv

\* What a pair of bytes adds to either sum.
LEMMA PairStep ==
  ASSUME SumInv, AddPair
  PROVE  SumInv'
  <1> DEFINE a == data[count + 1]
             b == data[count + 2]
  <1>1. /\ data \in Seq(Byte) /\ Len(data) \in Nat /\ count \in Nat /\ count + 2 <= Len(data)
        /\ sum \in Nat /\ net \in Nat /\ byteorder \in {"little", "big"}
    BY DEF SumInv, ChecksumTypeOK, AddPair
  <1>2. a \in Nat /\ a <= 255 /\ b \in Nat /\ b <= 255
    BY <1>1, ByteIsSmall
  <1>3. /\ count' = count + 2 /\ answer' = Unknown /\ data' = data /\ byteorder' = byteorder
        /\ net' = net + (256 * a + b)
        /\ byteorder = "little" => sum' = sum + (256 * b + a)
        /\ byteorder = "big" => sum' = sum + (256 * a + b)
    BY DEF AddPair, HostWord, Word
  <1> HIDE DEF a, b
  <1>4. ChecksumTypeOK'
    BY <1>1, <1>2, <1>3 DEF SumInv, ChecksumTypeOK
  <1>5. Small'
    <2>1. count % 2 = 0 /\ sum <= 65535 * count
      BY <1>1 DEF SumInv, Small
    <2>2. count' % 2 = 0
      BY <1>1, <1>3, <2>1
    <2>3. sum' <= 65535 * count'
      BY <1>1, <1>2, <1>3, <2>1
    <2> QED BY <2>2, <2>3 DEF Small
  <1>6. SumsAgree'
    <2>1. ASSUME byteorder = "little" PROVE Congruent(net', 256 * sum')
      <3>1. PICK k \in Int : net = 256 * sum + 65535 * k
        BY <2>1 DEF SumInv, SumsAgree, Congruent
      <3>2. net' = 256 * sum' + 65535 * (k - b)
        BY <1>1, <1>2, <1>3, <2>1, <3>1
      <3>3. k - b \in Int
        BY <1>2
      <3> QED BY <3>2, <3>3 DEF Congruent
    <2>2. ASSUME byteorder = "big", count' % 2 = 0 PROVE Congruent(net', sum')
      <3>1. count % 2 = 0
        BY <1>1, <1>3, <2>2
      <3>2. PICK k \in Int : net = sum + 65535 * k
        BY <2>2, <3>1 DEF SumInv, SumsAgree, Congruent
      <3>3. net' = sum' + 65535 * k
        BY <1>1, <1>2, <1>3, <2>2, <3>2
      <3> QED BY <3>3 DEF Congruent
    <2> QED BY <1>3, <2>1, <2>2 DEF SumsAgree
  <1>7. Verifies'
    BY <1>3 DEF Verifies
  <1> QED BY <1>4, <1>5, <1>6, <1>7 DEF SumInv

\* The odd byte at the end.
LEMMA LastStep ==
  ASSUME SumInv, AddLast
  PROVE  SumInv'
  <1> DEFINE a == data[count + 1]
  <1>1. /\ data \in Seq(Byte) /\ Len(data) \in Nat /\ count \in Nat /\ count + 1 = Len(data)
        /\ sum \in Nat /\ net \in Nat /\ byteorder \in {"little", "big"}
    BY DEF SumInv, ChecksumTypeOK, AddLast
  <1>2. a \in Nat /\ a <= 255
    BY <1>1, ByteIsSmall
  <1>3. /\ count' = count + 1 /\ answer' = Unknown /\ data' = data /\ byteorder' = byteorder
        /\ net' = net + 256 * a /\ sum' = sum + a
    BY <1>1, <1>2 DEF AddLast, Word
  <1> HIDE DEF a
  <1>4. ChecksumTypeOK'
    BY <1>1, <1>2, <1>3 DEF SumInv, ChecksumTypeOK
  <1>5. count % 2 = 0 /\ sum <= 65535 * count
    BY <1>1 DEF SumInv, Small
  <1>6. Small'
    BY <1>1, <1>2, <1>3, <1>5 DEF Small
  <1>7. SumsAgree'
    <2>1. ASSUME byteorder = "little" PROVE Congruent(net', 256 * sum')
      <3>1. PICK k \in Int : net = 256 * sum + 65535 * k
        BY <2>1 DEF SumInv, SumsAgree, Congruent
      <3>2. net' = 256 * sum' + 65535 * k
        BY <1>1, <1>2, <1>3, <3>1
      <3> QED BY <3>2 DEF Congruent
    <2>2. count' % 2 # 0
      BY <1>1, <1>3, <1>5
    <2> QED BY <1>3, <2>1, <2>2 DEF SumsAgree
  <1>8. Verifies'
    BY <1>3 DEF Verifies
  <1> QED BY <1>4, <1>6, <1>7, <1>8 DEF SumInv

\* The complement makes both sums a multiple of 65535.
LEMMA FinishStep ==
  ASSUME SumInv, Finish
  PROVE  SumInv'
  <1> DEFINE f == Folded(sum)
             w == 65535 - f
             n == InNetworkOrder(w)
  <1>1. /\ data \in Seq(Byte) /\ Len(data) \in Nat /\ Len(data) <= 65535 /\ count = Len(data)
        /\ sum \in Nat /\ net \in Nat /\ byteorder \in {"little", "big"}
        /\ sum <= 65535 * count
    BY DEF SumInv, ChecksumTypeOK, Small, Finish
  <1>2. sum < 65536 * 65535
    BY <1>1
  <1>3. f \in Nat /\ f <= 65535 /\ Congruent(sum, f)
    BY <1>1, <1>2, FoldedCongruent
  <1>4. w \in Nat /\ w <= 65535
    BY <1>3
  <1>5. /\ n \in Nat /\ n <= 65535
        /\ byteorder = "little" => Congruent(n, 256 * w)
        /\ byteorder # "little" => n = w
    BY <1>4, AnswerCongruent
  <1>6. answer' = n /\ UNCHANGED <<data, byteorder, count, sum, net>>
    BY DEF Finish
  <1> HIDE DEF n
  <1>7. PICK j \in Int : sum = f + 65535 * j
    BY <1>3 DEF Congruent
  <1>8. ASSUME byteorder = "little" \/ Len(data) % 2 = 0
        PROVE  (net + n) % 65535 = 0
    <2>1. CASE byteorder = "little"
      <3>1. PICK k \in Int : net = 256 * sum + 65535 * k
        BY <2>1 DEF SumInv, SumsAgree, Congruent
      <3>2. PICK i \in Int : n = 256 * w + 65535 * i
        BY <1>5, <2>1 DEF Congruent
      <3> HIDE DEF f
      <3>3. net + n = 65535 * (256 * j + k + i + 256)
        BY <1>1, <1>3, <1>4, <1>5, <1>7, <3>1, <3>2
      <3> QED BY <1>1, <1>5, <3>3, MultipleHasNoRest
    <2>2. CASE byteorder = "big" /\ Len(data) % 2 = 0
      <3>1. PICK k \in Int : net = sum + 65535 * k
        BY <1>1, <2>2 DEF SumInv, SumsAgree, Congruent
      <3>2. n = w
        BY <1>5, <2>2
      <3> HIDE DEF f
      <3>3. net + n = 65535 * (j + k + 1)
        BY <1>1, <1>3, <1>4, <1>5, <1>7, <3>1, <3>2
      <3> QED BY <1>1, <1>5, <3>3, MultipleHasNoRest
    <2> QED BY <1>1, <1>8, <2>1, <2>2
  <1>9. ChecksumTypeOK'
    BY <1>1, <1>5, <1>6 DEF SumInv, ChecksumTypeOK
  <1>10. Small' /\ SumsAgree'
    BY <1>6 DEF SumInv, Small, SumsAgree
  <1>11. Verifies'
    BY <1>6, <1>8 DEF Verifies
  <1> QED BY <1>9, <1>10, <1>11 DEF SumInv

\* The inductive invariant: the host's sum and the receiver's agree modulo 65535
\* up to the order of the bytes.
THEOREM SumInvariant == ChecksumSpec => []SumInv
  <1>1. ChecksumInit => SumInv
    BY InitSumInv
  <1>2. SumInv /\ [ChecksumNext]_checksumVars => SumInv'
    <2> SUFFICES ASSUME SumInv, [ChecksumNext]_checksumVars PROVE SumInv'
      OBVIOUS
    <2>1. CASE AddPair
      BY <2>1, PairStep
    <2>2. CASE AddLast
      BY <2>2, LastStep
    <2>3. CASE Finish
      BY <2>3, FinishStep
    <2>4. CASE UNCHANGED checksumVars
      BY <2>4 DEF checksumVars, SumInv, ChecksumTypeOK, Small, SumsAgree, Verifies
    <2> QED BY <2>1, <2>2, <2>3, <2>4 DEF ChecksumNext
  <1> QED BY <1>1, <1>2, PTL DEF ChecksumSpec

\* The checksum of an echo request of any length and content verifies at its
\* target, but for an odd length on a big-endian host (pinger.py:42-79).
THEOREM AlwaysVerifies == ChecksumSpec => []Verifies
  <1>1. SumInv => Verifies
    BY DEF SumInv
  <1> QED BY <1>1, SumInvariant, PTL
=============================================================================
