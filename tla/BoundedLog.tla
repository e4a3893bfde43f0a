------------------------------ MODULE BoundedLog ------------------------------
(***************************************************************************)
(* What a data file promises: the last Capacity records, in the order they *)
(* were made.  The oldest record of a full log may be lost before its      *)
(* successor is there, for a writer may end between the two.  Datafile     *)
(* implements this specification.                                          *)
(***************************************************************************)
EXTENDS Naturals, Sequences

CONSTANTS
  Data,         \* records
  Capacity      \* how many of them the log holds

VARIABLE log

Init == log = <<>>

\* A record is made; the oldest one makes room for it.
Record(d) ==
  log' = Append(IF Len(log) < Capacity THEN log ELSE Tail(log), d)

\* The oldest record of a full log is lost.
LoseOldest ==
  /\ Len(log) = Capacity
  /\ log' = Tail(log)

\* An empty log is filled.
Fill ==
  /\ log = <<>>
  /\ log' \in Seq(Data) /\ Len(log') <= Capacity

Next ==
  \/ LoseOldest \/ Fill
  \/ \E d \in Data : Record(d)

Spec == Init /\ [][Next]_log
=============================================================================
