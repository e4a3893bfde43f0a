-------------------------------- MODULE Latency --------------------------------
(***************************************************************************)
(* How a data file keeps a latency in two bytes (database.py) and what is  *)
(* read back of it (datafile.py).  Times are numbers of ticks of a clock;  *)
(* a latency that is read is a number of steps, 1/65534 of a second each.  *)
(***************************************************************************)
EXTENDS Integers

CONSTANTS
  Ticks,  \* of the clock to a second
  None    \* no time: Python's None

ASSUME TicksAssumption == Ticks \in Nat \ {0}

ASSUME NoneAssumption == None \notin Int

Steps == 65534    \* to a second

Timeout == 65535  \* the value that stands for one

\* round(num / den): a tie goes to the even number.
Rounded(num, den) ==
  LET q == num \div den
      r == num % den
  IN  IF 2 * r > den \/ (2 * r = den /\ q % 2 = 1) THEN q + 1 ELSE q

InTwoBytes(short) == IF short > 65535 \/ short < 0 THEN Timeout ELSE short

\* seconds_to_short_latency
SecondsToShort(ticks) ==
  IF ticks = None THEN Timeout ELSE InTwoBytes(Rounded(ticks * Steps, Ticks))

\* time_diff_to_short_latency
TimeDiffToShort(start, stop) ==
  IF start = None \/ stop = None THEN Timeout ELSE SecondsToShort(stop - start)

\* short_latency_to_seconds, in steps
ShortToSeconds(short) == IF short = Timeout THEN None ELSE short

\* record_datum, write_all_records: what is packed.
Written(send, receive) == TimeDiffToShort(send, receive)

\* read_record, read_n_records: what is unpacked.
ReadBack(short) == ShortToSeconds(short)

-----------------------------------------------------------------------------
(* Properties *)

\* What is written fits the field of the record, for any times, also those of a
\* clock that was set back or of a reply a day late (database.py:31).
FitsRecord(send, receive) ==
  Written(send, receive) \in Nat /\ Written(send, receive) <= 65535

\* A round without a reply is read back as one without a reply.
NoReplyIsRead(send) == ReadBack(Written(send, None)) = None

\* A latency of at most a second is read back to within half a step of it: it
\* never turns into a timeout.
LatencyIsRead(send, receive) ==
  receive - send \in 0 .. Ticks =>
    LET steps == ReadBack(Written(send, receive))
    IN  /\ steps \in Nat /\ steps <= Steps
        /\ 2 * (steps * Ticks - (receive - send) * Steps) <= Ticks
        /\ 2 * ((receive - send) * Steps - steps * Ticks) <= Ticks

\* What lies further outside than half a step is read back as a timeout.
LateIsTimeout(send, receive) ==
  LET exact == (receive - send) * Steps
  IN  2 * exact < -Ticks \/ 2 * exact > (2 * Steps + 1) * Ticks
        => ReadBack(Written(send, receive)) = None

\* Of two latencies that are read back the greater is not read as the smaller.
OrderIsKept(d, e) ==
  d <= e /\ SecondsToShort(d) # Timeout /\ SecondsToShort(e) # Timeout
    => SecondsToShort(d) <= SecondsToShort(e)
=============================================================================
