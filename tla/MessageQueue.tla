----------------------------- MODULE MessageQueue -----------------------------
(***************************************************************************)
(* What the shared queues promise: each is a bounded first-in first-out    *)
(* queue, a message is taken from it by one receiver, and a receiver hands *)
(* the message it has taken to its guest or loses it.                      *)
(***************************************************************************)
EXTENDS Integers, Sequences

CONSTANTS Ids, Receivers, Messages, NoMessage, MaxDepth

VARIABLES
  queue,  \* [Ids -> sequence of messages]
  hand    \* [Receivers -> the message taken, or NoMessage]

Init ==
  /\ queue = [i \in Ids |-> <<>>]
  /\ hand = [r \in Receivers |-> NoMessage]

Send(i) ==
  /\ Len(queue[i]) < MaxDepth
  /\ \E m \in Messages : queue' = [queue EXCEPT ![i] = Append(@, m)]
  /\ UNCHANGED hand

Receive(r, i) ==
  /\ hand[r] = NoMessage
  /\ queue[i] # <<>>
  /\ hand' = [hand EXCEPT ![r] = Head(queue[i])]
  /\ queue' = [queue EXCEPT ![i] = Tail(@)]

Finish(r) ==
  /\ hand' = [hand EXCEPT ![r] = NoMessage]
  /\ UNCHANGED queue

Next ==
  \/ \E i \in Ids : Send(i) \/ \E r \in Receivers : Receive(r, i)
  \/ \E r \in Receivers : Finish(r)

Spec == Init /\ [][Next]_<<queue, hand>>
=============================================================================
