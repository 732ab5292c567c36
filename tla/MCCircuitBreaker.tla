--------------------------- MODULE MCCircuitBreaker ---------------------------
(* Instances of CircuitBreaker for TLC. *)
EXTENDS CircuitBreaker

CONSTANTS w1, w2, u1, u2

TwoWorkers == {w1, w2}
OneUpstream == {u1}
TwoUpstreams == {u1, u2}

=============================================================================
