------------------------- MODULE MCExecutionLifecycle -------------------------
(* Instances of ExecutionLifecycle for TLC. *)
EXTENDS ExecutionLifecycle

CONSTANTS r1, r2, s1

TwoTasks == {r1, r2}
OneSlot == {s1}

=============================================================================
