------------------------------- MODULE MCHistory -------------------------------
(* History for TLC. *)
EXTENDS History, TLC

CONSTANTS p1, p2, n1, n2, d1, d2

MCProbers == {p1, p2}
MCNames == {n1, n2}
MCInitialNames == (p1 :> n1) @@ (p2 :> NoRow)

Answer(dst, received) == [dst |-> dst, received |-> received]

\* Two rounds of the first name in a second, and one of either name in the next.
\* A target that is listed twice has two replies.
MCMessages ==
  {[name |-> n1, sent |-> 0, replies |-> <<Answer(d1, 1), Answer(d2, NoReply)>>],
   [name |-> n1, sent |-> 1, replies |-> <<Answer(d1, 3), Answer(d1, NoReply)>>],
   [name |-> n1, sent |-> 2, replies |-> <<>>],
   [name |-> n2, sent |-> 2, replies |-> <<Answer(d1, 3)>>]}
=============================================================================
