--------------------------- MODULE MCProxyWasmCall ---------------------------
(* Instances of ProxyWasmCall for TLC. *)
EXTENDS ProxyWasmCall

\* No limit on callouts, and one below the bound on the callouts explored.
NoneOrTwo == {0, 2}

\* Statuses that are passed on, and two that are not.
SomeStatuses == {-1, 0, 403}
=============================================================================
