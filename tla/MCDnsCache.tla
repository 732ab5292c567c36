------------------------------ MODULE MCDnsCache ------------------------------
(* Instances of DnsCache for TLC. *)
EXTENDS DnsCache, TLC

CONSTANTS w1, w2, w3, h1, h2, h3, p1, p2

TwoWorkers == {w1, w2}
ThreeHosts == {h1, h2, h3}
TwoPorts == {p1, p2}
Symmetry == Permutations(Workers)
=============================================================================
