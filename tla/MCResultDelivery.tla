--------------------------- MODULE MCResultDelivery ---------------------------
(* ResultDelivery for TLC. *)
EXTENDS ResultDelivery, TLC

CONSTANTS r1, r2, c1, c2

MCTwoResults == {r1, r2}
MCOneResult == {r1}
MCConns == {c1, c2}

\* More ids than can be in use at once: one per held result and one per frame.
MCIds == 1 .. 6

Symmetry == Permutations(Results) \cup Permutations(Conns)
=============================================================================
