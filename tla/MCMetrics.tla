------------------------------ MODULE MCMetrics ------------------------------
(* Instances of Metrics for TLC. *)
EXTENDS Metrics, TLC

CONSTANTS t1, t2, t3, n1, n2, n3, none

ThreeThreads == {t1, t2, t3}
ThreeNames == {n1, n2, n3}
Symmetry == Permutations(Threads) \union Permutations(Names)

\* Nothing is claimed of what follows the race, and nothing of it explored.
BeforeTheRace == ~raced
=============================================================================
