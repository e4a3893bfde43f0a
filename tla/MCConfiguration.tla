---------------------------- MODULE MCConfiguration ----------------------------
(* Configuration for TLC. *)
EXTENDS Configuration, TLC

CONSTANTS p1, p2, t1, t2, g1, g2, n1, n2, a1, a2, w1, w2

MCProbers == {p1, p2}
MCTargets == {t1, t2}
MCGroups == {g1, g2}
MCNames == {n1, n2}
MCAddresses == {a1, a2}
MCWorkers == {w1, w2}

\* The two groups with their targets are alike to begin with.
Swap == (t1 :> t2) @@ (t2 :> t1) @@ (g1 :> g2) @@ (g2 :> g1)
Symmetry == Permutations(MCWorkers) \cup {Swap @@ f : f \in Permutations(MCWorkers)}

\* The prober has the targets of two groups; another prober is not there yet.
MCRows ==
  (p1 :> n1) @@ (p2 :> NoRow) @@ (t1 :> a1) @@ (t2 :> a1) @@ (g1 :> Group) @@ (g2 :> Group)

MCLinks == (g1 :> {p1, t1}) @@ (g2 :> {p1, t2})
=============================================================================
