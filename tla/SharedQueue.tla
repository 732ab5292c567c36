----------------------------- MODULE SharedQueue -----------------------------
(***************************************************************************)
(* The named queues that all executions share (proxy_wasm_shared.c and the *)
(* queue host functions): linked lists of messages with head, tail and     *)
(* depth, behind one mutex.  A message is allocated by enqueue, unlinked   *)
(* by dequeue, and copied to the guest and freed after the mutex is        *)
(* released.  Addresses are reused once they are freed.                    *)
(***************************************************************************)
EXTENDS Integers, Sequences, CStrings

CONSTANTS
  Executions, \* what runs guest code
  Names,      \* queue names, byte strings of the guests' choice
  MaxCount,   \* VWASM_QUEUE_MAX_COUNT
  MaxDepth,   \* VWASM_QUEUE_MAX_DEPTH
  Nodes,      \* addresses of messages
  MaxSent     \* bound on the messages explored

ASSUME SharedQueueAssumption ==
  /\ Names \subseteq DOMAIN CString
  /\ MaxCount \in Nat /\ MaxDepth \in Nat /\ MaxSent \in Nat
  /\ "NULL" \notin Nodes

Ids == 1 .. MaxCount

VARIABLES
  names,  \* sequence of the registered names; a queue's id is its index
  head,   \* [Ids -> Nodes \cup {"NULL"}]
  tail,   \* [Ids -> Nodes \cup {"NULL"}]
  depth,  \* [Ids -> Nat]
  data,   \* [Nodes -> 0 .. MaxSent], 0 for an address that is not allocated
  link,   \* [Nodes -> Nodes \cup {"NULL"}], msg->next
  msg,    \* [Executions -> Nodes \cup {"NULL"}], the message a dequeue unlinked
  sent    \* number of messages sent

listVars == <<head, tail, depth, data, link>>
queueVars == <<names, listVars, msg, sent>>

QueueInit ==
  /\ names = <<>>
  /\ head = [i \in Ids |-> "NULL"]
  /\ tail = [i \in Ids |-> "NULL"]
  /\ depth = [i \in Ids |-> 0]
  /\ data = [a \in Nodes |-> 0]
  /\ link = [a \in Nodes |-> "NULL"]
  /\ msg = [c \in Executions |-> "NULL"]
  /\ sent = 0

-----------------------------------------------------------------------------
(* An operator named Faulty... is a mutated form of the definition after it. *)

\* The queue that vwasm_queue_register and vwasm_queue_resolve answer with, 0 for
\* none: the list of queues has the newest in front.
Resolved(n) ==
  LET found == {i \in DOMAIN names : Matches(names[i], n)}
  IN IF found = {} THEN 0 ELSE CHOOSE i \in found : \A j \in found : j <= i

\* A queue is created for every registration.
FaultyRegister(n) ==
  /\ Len(names) < MaxCount
  /\ names' = Append(names, n)
  /\ UNCHANGED <<listVars, msg, sent>>

\* vwasm_queue_register of a name that is not found; with the table full it
\* fails.  A name that is found is answered with its queue's id.
Register(n) ==
  /\ Resolved(n) = 0
  /\ Len(names) < MaxCount
  /\ names' = Append(names, n)
  /\ UNCHANGED <<listVars, msg, sent>>

\* The successors of all messages once a is appended to queue i.
Linked(i, a) ==
  IF tail[i] # "NULL" THEN [link EXCEPT ![tail[i]] = a, ![a] = "NULL"]
                      ELSE [link EXCEPT ![a] = "NULL"]

\* vwasm_queue_enqueue; a full queue refuses.
Enqueue(i) ==
  /\ i \in DOMAIN names
  /\ depth[i] < MaxDepth
  /\ sent < MaxSent
  /\ \E a \in Nodes :
       /\ data[a] = 0
       /\ data' = [data EXCEPT ![a] = sent + 1]
       /\ link' = Linked(i, a)
       /\ head' = IF tail[i] # "NULL" THEN head ELSE [head EXCEPT ![i] = a]
       /\ tail' = [tail EXCEPT ![i] = a]
  /\ depth' = [depth EXCEPT ![i] = @ + 1]
  /\ sent' = sent + 1
  /\ UNCHANGED <<names, msg>>

\* The tail is left when the queue becomes empty.
FaultyDequeue(c, i) ==
  /\ msg[c] = "NULL"
  /\ i \in DOMAIN names
  /\ head[i] # "NULL"
  /\ head' = [head EXCEPT ![i] = link[head[i]]]
  /\ depth' = [depth EXCEPT ![i] = @ - 1]
  /\ msg' = [msg EXCEPT ![c] = head[i]]
  /\ UNCHANGED <<names, tail, data, link, sent>>

\* vwasm_queue_dequeue; an empty queue answers PROXY_EMPTY.
Dequeue(c, i) ==
  /\ msg[c] = "NULL"
  /\ i \in DOMAIN names
  /\ head[i] # "NULL"
  /\ head' = [head EXCEPT ![i] = link[head[i]]]
  /\ tail' = IF link[head[i]] = "NULL" THEN [tail EXCEPT ![i] = "NULL"] ELSE tail
  /\ depth' = [depth EXCEPT ![i] = @ - 1]
  /\ msg' = [msg EXCEPT ![c] = head[i]]
  /\ UNCHANGED <<names, data, link, sent>>

\* The data is not freed if the guest's memory cannot take it.
FaultyReturnBytes(c) ==
  /\ msg[c] # "NULL"
  /\ \E taken \in BOOLEAN : data' = IF taken THEN [data EXCEPT ![msg[c]] = 0] ELSE data
  /\ msg' = [msg EXCEPT ![c] = "NULL"]
  /\ UNCHANGED <<names, head, tail, depth, link, sent>>

\* pw_return_bytes gives the data to the guest, or fails and the message is
\* lost; it is freed in both cases.
ReturnBytes(c) ==
  /\ msg[c] # "NULL"
  /\ data' = [data EXCEPT ![msg[c]] = 0]
  /\ msg' = [msg EXCEPT ![c] = "NULL"]
  /\ UNCHANGED <<names, head, tail, depth, link, sent>>

-----------------------------------------------------------------------------
QueueNext ==
  \/ \E n \in Names : Register(n)
  \/ \E i \in Ids : Enqueue(i) \/ \E c \in Executions : Dequeue(c, i)
  \/ \E c \in Executions : ReturnBytes(c)

QueueSpec == QueueInit /\ [][QueueNext]_queueVars

-----------------------------------------------------------------------------
(* Properties *)

\* Every variable keeps its type, and the limits are kept.
QueueTypeOK ==
  /\ names \in Seq(Names) /\ Len(names) <= MaxCount
  /\ head \in [Ids -> Nodes \cup {"NULL"}]
  /\ tail \in [Ids -> Nodes \cup {"NULL"}]
  /\ depth \in [Ids -> 0 .. MaxDepth]
  /\ data \in [Nodes -> 0 .. MaxSent]
  /\ link \in [Nodes -> Nodes \cup {"NULL"}]
  /\ msg \in [Executions -> Nodes \cup {"NULL"}]
  /\ sent \in 0 .. MaxSent

\* The addresses met on the way from a first one along the links.
Walk(first, next) ==
  LET at[p \in 1 .. MaxDepth] == IF p = 1 THEN first ELSE next[at[p - 1]] IN at

\* Those of a queue, as many as its depth says.
Listed(i) == [p \in 1 .. depth[i] |-> Walk(head[i], link)[p]]

Datum(a) == IF a = "NULL" THEN 0 ELSE data[a]

Fifo == INSTANCE MessageQueue WITH
  Receivers <- Executions,
  Messages <- 1 .. MaxSent,
  NoMessage <- 0,
  queue <- [i \in Ids |-> [p \in 1 .. depth[i] |-> Datum(Listed(i)[p])]],
  hand <- [c \in Executions |-> Datum(msg[c])]

\* The linked lists implement the bounded first-in first-out queues, although
\* messages of several executions come and go and addresses are reused.
ImplementsFifo == Fifo!Spec

\* A message's memory is neither lost nor shared: an address that is allocated
\* is on one list, or in the hands of one dequeue, once.
NoMessageLeaked ==
  LET places == {q \in Ids \X (1 .. MaxDepth) : q[2] <= depth[q[1]]}
      users(a) == {q \in places : Listed(q[1])[q[2]] = a} \cup
                  {c \in Executions : msg[c] = a}
  IN \A a \in Nodes : IF data[a] = 0 THEN users(a) = {}
                                      ELSE \E u \in users(a) : users(a) = {u}

\* All who register or resolve a name are given the same queue, however often and
\* by whomever it is registered: once a name is answered with a queue, it stays
\* with that queue, unless a name that continues it after a NUL byte is
\* registered.  And there are never more queues than the limit allows.
OneQueuePerName ==
  [][/\ Len(names') <= MaxCount
     /\ \A n \in Names : Resolved(n) # 0 =>
          \/ Resolved(n)' = Resolved(n)
          \/ \E m \in Names \ {n} : Matches(m, n) /\ names' = Append(names, m)]_queueVars

=============================================================================
