------------------------------- MODULE MCPinger -------------------------------
(* Pinger for TLC. *)
EXTENDS Pinger, TLC

CONSTANTS a1, a2

MCAddrs == {a1, a2}

\* One target, two targets with one address, two targets.
MCLists ==
  {[a \in MCAddrs |-> IF a = a1 THEN n[1] ELSE n[2]] :
     n \in {<<1, 0>>, <<2, 0>>, <<1, 1>>}}
=============================================================================
