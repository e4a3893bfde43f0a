------------------------------ MODULE MCDatafile ------------------------------
(* Datafile for TLC, and the encoding of the latencies in its records. *)
EXTENDS Datafile, Latency

MCData == 1 .. 3

\* Latencies from below zero to beyond a second; the proofs are for all.
Times == -2 * Ticks .. 2 * Ticks

ASSUME LatencyChecked ==
  \A send, receive \in Times :
    /\ FitsRecord(send, receive) /\ NoReplyIsRead(send)
    /\ LatencyIsRead(send, receive) /\ LateIsTimeout(send, receive)
    /\ OrderIsKept(send, receive)
=============================================================================
