------------------------------ MODULE MCHttpPool ------------------------------
(* Instances of HttpPool for TLC. *)
EXTENDS HttpPool, TLC

CONSTANTS w1, w2, u1, u2, f1, f2, f3

TwoWorkers == {w1, w2}
OneUpstream == {u1}
TwoUpstreams == {u1, u2}
TwoFds == {f1, f2}
ThreeFds == {f1, f2, f3}
Symmetry == Permutations(Workers) \cup Permutations(Fds)
=============================================================================
