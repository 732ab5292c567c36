---------------------------- MODULE MCSharedQueue ----------------------------
(* Instances of SharedQueue for TLC. *)
EXTENDS SharedQueue, TLC

CONSTANTS c1, c2, n1, n2, n3, a1, a2, a3, a4

TwoExecutions == {c1, c2}
ThreeNames == {n1, n2, n3}

\* n3 is n1, a NUL byte and more.
OneContinued == [n \in ThreeNames |-> IF n = n3 THEN n1 ELSE n]

FourNodes == {a1, a2, a3, a4}
Symmetry == Permutations(Executions) \cup Permutations(Nodes)
=============================================================================
