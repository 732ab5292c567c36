--------------------------- MODULE MCEngineLifecycle ---------------------------
(* Instances of EngineLifecycle for TLC. *)
EXTENDS EngineLifecycle

CONSTANTS v1, m1, m2, w1, t1, t2

OneVcl == {v1}
OneModule == {m1}
TwoModules == {m1, m2}
OneWorker == {w1}
TwoTimers == {t1, t2}

=============================================================================
