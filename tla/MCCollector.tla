------------------------------ MODULE MCCollector ------------------------------
(* Collector for TLC. *)
EXTENDS Collector, TLC

CONSTANTS p1, p2, c1, c2, c3, m1, m2

\* Two probers with a connection each: the notifier's loop has two turns.
MCNames == {p1, p2}
MCTwoConns == {c1, c2}
MCWhoTwo == [c \in MCTwoConns |-> IF c = c1 THEN p1 ELSE p2]

\* One name, three connections: a prober that connects again before its old
\* session is gone, or two probers that were given the same name.
MCOneName == {p1}
MCConns == {c1, c2, c3}
MCWho == [c \in MCConns |-> p1]

MCMessages == {m1}
MCTwoMessages == {m1, m2}

\* The second version of a target list is empty.
MCEmptyVersions == {2}
MCNoEmptyVersions == {}

MCNoNames == {}

Symmetry == Permutations(MCConns)
=============================================================================
