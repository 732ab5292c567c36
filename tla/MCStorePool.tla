----------------------------- MODULE MCStorePool -----------------------------
(* Instances of StorePool for TLC. *)
EXTENDS StorePool

CONSTANTS t1, t2

TwoThreads == {t1, t2}

\* Slot 1 could not be initialised.
Slot1Failed == {1}
NoneFailed == {}

=============================================================================
