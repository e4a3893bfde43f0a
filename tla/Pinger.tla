-------------------------------- MODULE Pinger --------------------------------
(***************************************************************************)
(* The Pinger thread (pinger.py): its rounds of echo requests and replies, *)
(* the target lists the event loop gives it meanwhile (handle_target_list  *)
(* in probe.py), and the network between it and its destinations.          *)
(*                                                                         *)
(* A list of addresses is the number of times each address is in it: two   *)
(* targets may have one address, and the order of a list means nothing.    *)
(* The times of replies are left out, and so are packets of other senders  *)
(* or identifiers, which receive_pings reads and forgets.  It does not ask *)
(* for the type: where a target is the host itself, the echo request comes *)
(* back and counts, as the reply would.  An echo request of a target that  *)
(* pings this host, with the same identifier and number, counts too; it is *)
(* left out.                                                               *)
(***************************************************************************)
EXTENDS Naturals

CONSTANTS
  Addrs,        \* the addresses of targets
  Lists,        \* the target lists the collector may send
  SeqMod        \* sequence numbers have 16 bits: 65536

ASSUME ListsAssumption == Lists \subseteq [Addrs -> Nat]
ASSUME SeqAssumption == SeqMod \in Nat \ {0}

VARIABLES
  destinations, \* self.destinations
  keepGoing,    \* self.keep_going
  seq,          \* self.seq_number
  pc,           \* run: ready for a round, sending, receiving, output, stopped
  toSend,       \* what the loop over destinations has still to visit
  given,        \* the list receive_pings was called with
  remaining,    \* destinations_remaining
  replies,      \* the replies with a receive time
  output,       \* the message last put on the queue: answered and timed out
  air,          \* what may still arrive of echo requests: replies, or they themselves
  \* --- history
  wanted,       \* the target list last received
  pinged        \* addresses an echo request was sent to in this round

loopVars == <<toSend, given, remaining, replies, output>>
vars == <<destinations, keepGoing, seq, pc, loopVars, air, wanted, pinged>>

Empty == [a \in Addrs |-> 0]

\* A packet carries the sequence number of its request, as that itself does, and
\* the address that was pinged; age counts the rounds that ended since.
Packet == [ip : Addrs, seq : 0 .. SeqMod - 1, age : 0 .. SeqMod - 1]

\* Without the right to open a raw socket the thread ends before its first round.
Init ==
  /\ keepGoing \in BOOLEAN
  /\ pc = IF keepGoing THEN "ready" ELSE "stopped"
  /\ destinations = Empty /\ wanted = Empty
  /\ seq = 0
  /\ toSend = Empty /\ given = Empty /\ remaining = Empty /\ replies = Empty
  /\ output = [a \in Addrs |-> [answered |-> 0, timedOut |-> 0]]
  /\ air = {} /\ pinged = {}

-----------------------------------------------------------------------------
(* The event loop *)

\* A target_list message: the thread gets another list object, whatever it is
\* doing.
SetDestinations(list) ==
  /\ destinations' = list
  /\ wanted' = list
  /\ UNCHANGED <<keepGoing, seq, pc, loopVars, air, pinged>>

Stop ==
  /\ keepGoing
  /\ keepGoing' = FALSE
  /\ UNCHANGED <<destinations, seq, pc, loopVars, air, wanted, pinged>>

-----------------------------------------------------------------------------
(* The thread *)

\* The loop runs over the list that is there when it begins.
StartRound ==
  /\ pc = "ready" /\ keepGoing
  /\ pc' = "sending"
  /\ toSend' = destinations
  /\ pinged' = {}
  /\ UNCHANGED <<destinations, keepGoing, seq, given, remaining, replies, output, air,
                 wanted>>

Exit ==
  /\ pc = "ready" /\ ~keepGoing
  /\ pc' = "stopped"
  /\ UNCHANGED <<destinations, keepGoing, seq, loopVars, air, wanted, pinged>>

SendOnePing(a) ==
  /\ pc = "sending" /\ toSend[a] > 0
  /\ toSend' = [toSend EXCEPT ![a] = @ - 1]
  /\ air' = air \cup {[ip |-> a, seq |-> seq, age |-> 0]}
  /\ pinged' = pinged \cup {a}
  /\ UNCHANGED <<destinations, keepGoing, seq, pc, given, remaining, replies, output,
                 wanted>>

\* sendto fails: logged and forgotten.
SendFails(a) ==
  /\ pc = "sending" /\ toSend[a] > 0
  /\ toSend' = [toSend EXCEPT ![a] = @ - 1]
  /\ UNCHANGED <<destinations, keepGoing, seq, pc, given, remaining, replies, output,
                 air, wanted, pinged>>

\* (mutant: the list of replies is made once, not in every call)
OldReplies == replies

NoReplies == Empty

\* receive_pings is called with the list that is there by now.
BeginReceive ==
  /\ pc = "sending" /\ toSend = Empty
  /\ pc' = "receiving"
  /\ given' = destinations
  /\ remaining' = destinations
  /\ replies' = NoReplies
  /\ UNCHANGED <<destinations, keepGoing, seq, toSend, output, air, wanted, pinged>>

\* (mutant: the sequence number is not compared)
AnyRound(p) == remaining[p.ip] > 0

\* The packet comes from a destination without a reply, and has the number of
\* this round: nothing else is compared.
Expected(p) == remaining[p.ip] > 0 /\ p.seq = seq

\* (mutant: the address stays in destinations_remaining)
Kept(list, a) == list

Removed(list, a) == [list EXCEPT ![a] = @ - 1]

\* (mutant: destinations_remaining is the list of the thread, not a copy)
SharedList == destinations' = remaining'

\* destinations[:] is a copy: what is removed from it is removed from it only.
CopiedList == destinations' = destinations

\* A packet is read.  It may arrive again: the network delivers it twice, or the
\* request came back before the reply.
Receive(p) ==
  /\ pc = "receiving" /\ p \in air
  /\ air' \in {air, air \ {p}}
  /\ IF Expected(p)
       THEN /\ replies' = [replies EXCEPT ![p.ip] = @ + 1]
            /\ remaining' = Removed(remaining, p.ip)
       ELSE UNCHANGED <<replies, remaining>>
  /\ CopiedList
  /\ pc' = IF remaining' = Empty THEN "output" ELSE "receiving"
  /\ UNCHANGED <<keepGoing, seq, toSend, given, output, wanted, pinged>>

\* select times out, or the time is over when a packet has been dealt with.
RoundTimesOut ==
  /\ pc = "receiving"
  /\ pc' = "output"
  /\ UNCHANGED <<destinations, keepGoing, seq, loopVars, air, wanted, pinged>>

\* (mutant: the comparison is off by one)
NextSeqLate == IF seq + 1 > SeqMod THEN seq + 1 - SeqMod ELSE seq + 1

NextSeq == IF seq + 1 > SeqMod - 1 THEN seq + 1 - SeqMod ELSE seq + 1

\* A round later.  No packet is under way for SeqMod rounds of a second.
Older ==
  {[p EXCEPT !.age = @ + 1] : p \in {q \in air : q.age + 1 < SeqMod}}

\* What remains has timed out; the message goes to the queue, and the thread
\* pauses for what is left of the second.
HandleOutput ==
  /\ pc = "output"
  /\ pc' = "ready"
  /\ output' = [a \in Addrs |-> [answered |-> replies[a], timedOut |-> remaining[a]]]
  /\ seq' = NextSeq
  /\ air' = Older
  /\ UNCHANGED <<destinations, keepGoing, toSend, given, remaining, replies, wanted,
                 pinged>>

\* A reply is lost.
Expire(p) ==
  /\ p \in air
  /\ air' = air \ {p}
  /\ UNCHANGED <<destinations, keepGoing, seq, pc, loopVars, wanted, pinged>>

-----------------------------------------------------------------------------
Thread ==
  \/ StartRound \/ Exit \/ BeginReceive \/ RoundTimesOut \/ HandleOutput
  \/ \E a \in Addrs : SendOnePing(a) \/ SendFails(a)

Next ==
  \/ Thread \/ Stop
  \/ \E list \in Lists : SetDestinations(list)
  \/ \E p \in air : Receive(p) \/ Expire(p)

Spec == Init /\ [][Next]_vars

\* The thread runs, and the time of a round runs out however many packets
\* arrive.  The network and the event loop owe nothing.
FairSpec == Spec /\ WF_vars(Thread)

-----------------------------------------------------------------------------
(* Properties *)

TypeOK ==
  /\ destinations \in [Addrs -> Nat] /\ wanted \in [Addrs -> Nat]
  /\ keepGoing \in BOOLEAN
  /\ seq \in 0 .. SeqMod - 1
  /\ pc \in {"ready", "sending", "receiving", "output", "stopped"}
  /\ toSend \in [Addrs -> Nat] /\ given \in [Addrs -> Nat]
  /\ remaining \in [Addrs -> Nat] /\ replies \in [Addrs -> Nat]
  /\ output \in [Addrs -> [answered : Nat, timedOut : Nat]]
  /\ air \in SUBSET Packet
  /\ pinged \in SUBSET Addrs

\* Each time an address is in the list that receive_pings was given, the round
\* reports one reply or one timeout for it, and nothing for other addresses,
\* whatever is delivered twice, late or for another round, and whatever the
\* event loop does to the list meanwhile.
Complete ==
  pc = "ready" =>
    \A a \in Addrs : output[a].answered + output[a].timedOut = given[a]

\* A round reports a reply only from an address it has sent an echo request to:
\* a late reply of an earlier round never counts, although sequence numbers
\* come again.
AnswersAreOwn ==
  pc = "ready" => \A a \in Addrs : output[a].answered > 0 => a \in pinged

\* What makes the two inductive.  While replies are read, the tally is complete
\* and of this round;
TallyComplete ==
  pc \in {"receiving", "output"} =>
    \A a \in Addrs : replies[a] + remaining[a] = given[a]

TallyOwn ==
  pc \in {"receiving", "output"} => \A a \in Addrs : replies[a] > 0 => a \in pinged

\* a packet's number is as far behind as the packet is old, going round;
NumberedBack ==
  \A p \in air : p.seq + p.age \in {seq, seq + SeqMod}

\* and the packets of this round are replies of addresses pinged in it.
FreshAreOwn ==
  \A p \in air : p.age = 0 => p.ip \in pinged /\ pc # "ready"

\* A packet that has the number of this round is a reply to this round: the
\* inductive invariant of the rounds.
RoundInv ==
  /\ TypeOK /\ Complete /\ AnswersAreOwn
  /\ TallyComplete /\ TallyOwn /\ NumberedBack /\ FreshAreOwn

\* The target list last received is the one the next round reports on, again in
\* every round while it stays: no round wears it down.
ListReported ==
  \A list \in Lists :
    pc = "sending" /\ wanted = list ~>
      (pc = "output" /\ given = list) \/ wanted # list
=============================================================================
