------------------------------- MODULE SlotPool -------------------------------
(***************************************************************************)
(* What the store pool promises its callers (src/store_pool.h): a usable   *)
(* slot is checked out by one thread at a time, its memory then holds the  *)
(* post-init image, and it is used and returned by that thread only.  A    *)
(* caller that gets no slot changes nothing here.                          *)
(***************************************************************************)
CONSTANTS Threads, NoThread, Usable

VARIABLES
  owner,  \* [Usable -> Threads \cup {NoThread}]
  image   \* [Usable -> {"snapshot", "used"}]

slotVars == <<owner, image>>

Init ==
  /\ owner = [s \in Usable |-> NoThread]
  /\ image = [s \in Usable |-> "snapshot"]

Checkout(t, s) ==
  /\ owner[s] = NoThread
  /\ \A r \in Usable : owner[r] # t
  /\ owner' = [owner EXCEPT ![s] = t]
  /\ image' = [image EXCEPT ![s] = "snapshot"]

Use(t, s) ==
  /\ owner[s] = t
  /\ image' = [image EXCEPT ![s] = "used"]
  /\ UNCHANGED owner

Return(t, s) ==
  /\ owner[s] = t
  /\ owner' = [owner EXCEPT ![s] = NoThread]
  /\ UNCHANGED image

Next ==
  \E t \in Threads, s \in Usable : Checkout(t, s) \/ Use(t, s) \/ Return(t, s)

Spec == Init /\ [][Next]_slotVars

=============================================================================
