--------------------------- MODULE DeliveryPromise ---------------------------
(***************************************************************************)
(* What the prober and the collector promise together about ping results,  *)
(* whatever happens to the websocket between them.  A result is pending    *)
(* from the moment the pinger produced it until the prober forgets it; the *)
(* prober may forget it for one of two reasons only: the collector has     *)
(* accepted it (Confirm), or a connection was lost under it (Drop).        *)
(* ResultDelivery implements this specification.                           *)
(***************************************************************************)

CONSTANT Results        \* the ping results, one per round of the pinger

VARIABLES
  pending,              \* produced results the prober still holds
  accepted,             \* results the collector has put on its write queue
  dropped,              \* results the prober gave up with a lost connection
  stored                \* results the writer thread has written

vars == <<pending, accepted, dropped, stored>>

Init ==
  /\ pending = {}
  /\ accepted = {}
  /\ dropped = {}
  /\ stored = {}

\* The pinger hands over a result that did not exist before.
Produce(r) ==
  /\ r \notin pending \cup accepted \cup dropped
  /\ pending' = pending \cup {r}
  /\ UNCHANGED <<accepted, dropped, stored>>

\* A copy of a result reaches the collector: perhaps a late copy, of a result
\* that was dropped, or one more copy of a result accepted before.
Accept(r) ==
  /\ r \in pending \cup dropped \cup accepted
  /\ accepted' = accepted \cup {r}
  /\ UNCHANGED <<pending, dropped, stored>>

\* An acknowledgement: the prober forgets only what the collector accepted.
Confirm(R) ==
  /\ R \subseteq pending \cap accepted
  /\ pending' = pending \ R
  /\ UNCHANGED <<accepted, dropped, stored>>

\* A connection is lost with a result in the hands of the transmit task.
Drop(r) ==
  /\ r \in pending
  /\ pending' = pending \ {r}
  /\ dropped' = dropped \cup {r}
  /\ UNCHANGED <<accepted, stored>>

\* The writer stores only what the collector accepted.
Store(r) ==
  /\ r \in accepted
  /\ stored' = stored \cup {r}
  /\ UNCHANGED <<pending, accepted, dropped>>

Next ==
  \/ \E r \in Results : Produce(r) \/ Accept(r) \/ Drop(r) \/ Store(r)
  \/ \E R \in SUBSET Results : Confirm(R)

Spec == Init /\ [][Next]_vars
=============================================================================
