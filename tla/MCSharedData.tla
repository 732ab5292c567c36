----------------------------- MODULE MCSharedData -----------------------------
(* Instances of SharedData for TLC. *)
EXTENDS SharedData, TLC

CONSTANTS c1, c2, k1, k2, k3

TwoClients == {c1, c2}
ThreeKeys == {k1, k2, k3}

\* k3 is k1, a NUL byte and more.
OneContinued == [k \in ThreeKeys |-> IF k = k3 THEN k1 ELSE k]

ClientSymmetry == Permutations(Clients)
=============================================================================
