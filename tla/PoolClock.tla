------------------------------ MODULE PoolClock ------------------------------
(***************************************************************************)
(* What the parts of the HTTP pool have in common: the worker threads that *)
(* make callouts, and the clock they read with time(NULL), which passes    *)
(* between any two of their steps and does not go back.                    *)
(***************************************************************************)
EXTENDS Integers

CONSTANTS
  Workers,  \* worker threads
  MaxTime   \* bound on the clock

VARIABLE now  \* time(NULL)

TimePasses == now < MaxTime /\ now' = now + 1
=============================================================================
