------------------------------- MODULE MCFigures -------------------------------
(* Figures for TLC: lists of records of the first seconds. *)
EXTENDS Figures

CONSTANTS MaxTime, MaxLength

Seconds == 1 .. MaxTime + 1

\* Of a clock set back, none, positive, and the two timeouts.
MCLatencies == {-2, 0, 2, TimeoutValue, None}

\* Any second has a record or has none, which Infinity stands for.
MCRecordLists ==
  {SelectSeq([s \in Seconds |-> [time |-> s - 1, latency |-> lat[s]]],
             LAMBDA r : r.latency # Infinity)
     : lat \in {l \in [Seconds -> MCLatencies \cup {Infinity}] :
                  Cardinality({s \in Seconds : l[s] # Infinity}) <= MaxLength}}
=============================================================================
