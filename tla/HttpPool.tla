------------------------------- MODULE HttpPool -------------------------------
(***************************************************************************)
(* The persistent connections of the HTTP pool (src/http_pool.c): workers  *)
(* acquire a connection to an upstream, exchange one request with it and   *)
(* release it.  What acquire does under pool->lock is one step; connecting *)
(* is outside the lock; release writes the connection with no lock held,   *)
(* so each of its writes is a step of its own.  A socket is its file       *)
(* descriptor, which the kernel hands out again once it is closed.         *)
(*                                                                         *)
(* Age, number of served requests and liveness of an idle connection are   *)
(* one nondeterministic choice, "worn".  The breaker is CircuitBreaker's   *)
(* subject; here it is one of the reasons for which no connection comes.   *)
(* num_active and the statistics are counted and never read.               *)
(***************************************************************************)
EXTENDS Integers, FiniteSets

CONSTANTS
  Workers,       \* worker threads
  Upstreams,     \* host and port of a connection
  MaxConns,      \* pool->max_conns
  Fds,           \* file descriptors
  MaxTime        \* bound on the clock

ASSUME PoolAssumption ==
  /\ MaxConns \in Nat \ {0}
  /\ MaxTime \in Nat
  /\ Upstreams # {} /\ {"none"} \cap (Fds \cup Upstreams) = {}

Slots == 1 .. MaxConns
SomeUpstream == CHOOSE u \in Upstreams : TRUE
Heap == 0           \* conn points at an overflow connection of its own

VARIABLES
  now,        \* time(NULL)
  open,       \* descriptors that are open
  cfd,        \* [Slots -> Fds \cup {"none"}], conns[i].fd
  in_use,     \* [Slots -> {0, 1}]
  host,       \* [Slots -> Upstreams], host and port
  last_used,  \* [Slots -> 0 .. MaxTime]
  pc,         \* [Workers -> Points]
  up,         \* [Workers -> Upstreams], the upstream wanted
  exempt,     \* [Workers -> BOOLEAN], ssrf_exempt
  t0,         \* [Workers -> 0 .. MaxTime], the `now' of acquire
  fd,         \* [Workers -> Fds \cup {"none"}], fd of acquire and its caller
  conn,       \* [Workers -> {Heap} \cup Slots], pool_conn
  stolen      \* history: a slot was taken before its release was over

connVars == <<cfd, in_use, host, last_used>>
vars == <<now, open, connVars, pc, up, exempt, t0, fd, conn, stolen>>

(***************************************************************************)
(* "idle"; in acquire: "lookup" for an idle connection, "connect", "place" *)
(* the new one in an empty slot, "evict"; "using" the connection; in       *)
(* release: "closed" its socket, "emptied" its slot, "returned" its slot.  *)
(***************************************************************************)
Points == {"idle", "lookup", "connect", "place", "evict", "using", "closed",
           "emptied", "returned"}

Init ==
  /\ now = 0
  /\ open = {}
  /\ cfd = [s \in Slots |-> "none"]
  /\ in_use = [s \in Slots |-> 0]
  /\ host = [s \in Slots |-> SomeUpstream]
  /\ last_used = [s \in Slots |-> 0]
  /\ pc = [w \in Workers |-> "idle"]
  /\ up = [w \in Workers |-> SomeUpstream]
  /\ exempt = [w \in Workers |-> FALSE]
  /\ t0 = [w \in Workers |-> 0]
  /\ fd = [w \in Workers |-> "none"]
  /\ conn = [w \in Workers |-> Heap]
  /\ stolen = FALSE

\* The callout is over, and its locals are gone.
Leave(w) ==
  /\ up' = [up EXCEPT ![w] = SomeUpstream]
  /\ exempt' = [exempt EXCEPT ![w] = FALSE]
  /\ t0' = [t0 EXCEPT ![w] = 0]
  /\ fd' = [fd EXCEPT ![w] = "none"]
  /\ conn' = [conn EXCEPT ![w] = Heap]
  /\ pc' = [pc EXCEPT ![w] = "idle"]

-----------------------------------------------------------------------------
(* vwasm_http_pool_acquire *)

\* The breaker admits the callout and the time is taken.
Begin(w) ==
  /\ pc[w] = "idle"
  /\ up' \in {[up EXCEPT ![w] = u] : u \in Upstreams}
  /\ exempt' \in {[exempt EXCEPT ![w] = e] : e \in BOOLEAN}
  /\ t0' = [t0 EXCEPT ![w] = now]
  /\ pc' = [pc EXCEPT ![w] = "lookup"]
  /\ UNCHANGED <<now, open, connVars, fd, conn, stolen>>

(* An operator named Faulty... is a mutated form of the definition after it. *)

\* The idle connections to the worker's upstream.
Candidates(w) ==
  {s \in Slots : exempt[w] /\ cfd[s] # "none" /\ in_use[s] = 0 /\ host[s] = up[w]}

\* The scan of the slots under the lock: worn candidates are closed on the way
\* to the first sound one, which is taken.
Reuse(w) ==
  /\ pc[w] = "lookup"
  /\ \E s \in Candidates(w) :
       LET worn == {x \in Candidates(w) : x < s} IN
       /\ open' = open \ {cfd[x] : x \in worn}
       /\ cfd' = [x \in Slots |-> IF x \in worn THEN "none" ELSE cfd[x]]
       /\ in_use' = [in_use EXCEPT ![s] = 1]
       /\ last_used' = [last_used EXCEPT ![s] = t0[w]]
       /\ fd' = [fd EXCEPT ![w] = cfd[s]]
       /\ conn' = [conn EXCEPT ![w] = s]
  /\ pc' = [pc EXCEPT ![w] = "using"]
  /\ UNCHANGED <<now, host, up, exempt, t0, stolen>>

\* There is no candidate, or all are worn.
NoReuse(w) ==
  /\ pc[w] = "lookup"
  /\ open' = open \ {cfd[x] : x \in Candidates(w)}
  /\ cfd' = [x \in Slots |-> IF x \in Candidates(w) THEN "none" ELSE cfd[x]]
  /\ pc' = [pc EXCEPT ![w] = "connect"]
  /\ UNCHANGED <<now, in_use, host, last_used, up, exempt, t0, fd, conn,
                 stolen>>

\* The name does not resolve, its address is refused, or connect fails.
NoConnection(w) ==
  /\ pc[w] = "connect"
  /\ Leave(w)
  /\ UNCHANGED <<now, open, connVars, stolen>>

\* connect_with_timeout returns a new socket.
Connect(w) ==
  /\ pc[w] = "connect"
  /\ \E f \in Fds \ open :
       /\ open' = open \cup {f}
       /\ fd' = [fd EXCEPT ![w] = f]
  /\ pc' = [pc EXCEPT ![w] = "place"]
  /\ UNCHANGED <<now, connVars, up, exempt, t0, conn, stolen>>

\* The assignments that make slot s the worker's connection.
Take(w, s) ==
  /\ cfd' = [cfd EXCEPT ![s] = fd[w]]
  /\ host' = [host EXCEPT ![s] = up[w]]
  /\ last_used' = [last_used EXCEPT ![s] = t0[w]]
  /\ in_use' = [in_use EXCEPT ![s] = 1]
  /\ conn' = [conn EXCEPT ![w] = s]
  /\ pc' = [pc EXCEPT ![w] = "using"]

\* The first slot without a descriptor; whether it is in use is not asked.
Place(w) ==
  /\ pc[w] = "place"
  /\ \E s \in Slots :
       /\ cfd[s] = "none"
       /\ \A x \in Slots : cfd[x] = "none" => s <= x
       /\ Take(w, s)
       /\ stolen' = (stolen \/ in_use[s] = 1)
  /\ UNCHANGED <<now, open, up, exempt, t0, fd>>

\* No slot is empty: the lock is released and taken again.
NoPlace(w) ==
  /\ pc[w] = "place"
  /\ \A s \in Slots : cfd[s] # "none"
  /\ pc' = [pc EXCEPT ![w] = "evict"]
  /\ UNCHANGED <<now, open, connVars, up, exempt, t0, fd, conn, stolen>>

\* Whether the connection is in use is not asked.
FaultyEvictable(w) == {s \in Slots : cfd[s] # "none" /\ last_used[s] <= t0[w]}

\* Idle connections that were last used no later than the time taken at the
\* start of this acquire.
Evictable(w) ==
  {s \in Slots : cfd[s] # "none" /\ in_use[s] = 0 /\ last_used[s] <= t0[w]}

\* The replaced connection is not closed.
FaultyEvict(w) ==
  /\ pc[w] = "evict"
  /\ \E s \in Evictable(w) : Take(w, s)
  /\ UNCHANGED <<now, open, up, exempt, t0, fd, stolen>>

\* The last of the oldest ones is closed and replaced.
Evict(w) ==
  /\ pc[w] = "evict"
  /\ \E s \in Evictable(w) :
       /\ \A x \in Evictable(w) :
            last_used[s] < last_used[x] \/ (last_used[s] = last_used[x] /\ x <= s)
       /\ open' = open \ {cfd[s]}
       /\ Take(w, s)
  /\ UNCHANGED <<now, up, exempt, t0, fd, stolen>>

\* There is none: a connection outside the pool, on the heap.
Overflow(w) ==
  /\ pc[w] = "evict"
  /\ Evictable(w) = {}
  /\ conn' = [conn EXCEPT ![w] = Heap]
  /\ pc' = [pc EXCEPT ![w] = "using"]
  /\ UNCHANGED <<now, open, connVars, up, exempt, t0, fd, stolen>>

\* ... for which there is no memory: the new socket is closed.
OverflowFails(w) ==
  /\ pc[w] = "evict"
  /\ Evictable(w) = {}
  /\ open' = open \ {fd[w]}
  /\ Leave(w)
  /\ UNCHANGED <<now, connVars, stolen>>

-----------------------------------------------------------------------------
(* vwasm_http_pool_release, and close, which is a release without keep-alive *)

\* The exchange may end with response_reusable set: only for an exempt upstream,
\* if it answers with a complete HTTP/1.1 response and does not ask to close.
Reusable(w) == exempt[w]

\* An overflow connection has keep_alive = 0: it is closed and freed.
ReleaseHeap(w) ==
  /\ pc[w] = "using"
  /\ conn[w] = Heap
  /\ open' = open \ {fd[w]}
  /\ Leave(w)
  /\ UNCHANGED <<now, connVars, stolen>>

\* Keep-alive: in_use = 0, then last_used is written, without the lock.
ReturnConn(w) ==
  /\ pc[w] = "using"
  /\ conn[w] # Heap
  /\ Reusable(w) /\ cfd[conn[w]] # "none"
  /\ in_use' = [in_use EXCEPT ![conn[w]] = 0]
  /\ fd' = [fd EXCEPT ![w] = "none"]
  /\ pc' = [pc EXCEPT ![w] = "returned"]
  /\ UNCHANGED <<now, open, cfd, host, last_used, up, exempt, t0, conn, stolen>>

StampConn(w) ==
  /\ pc[w] = "returned"
  /\ last_used' = [last_used EXCEPT ![conn[w]] = now]
  /\ Leave(w)
  /\ UNCHANGED <<now, open, cfd, in_use, host, stolen>>

\* response_reusable is not set: the socket is closed, if there still is one, ...
CloseConn(w) ==
  /\ pc[w] = "using"
  /\ conn[w] # Heap
  /\ open' = open \ {cfd[conn[w]]}
  /\ fd' = [fd EXCEPT ![w] = "none"]
  /\ pc' = [pc EXCEPT ![w] = IF cfd[conn[w]] = "none" THEN "emptied" ELSE "closed"]
  /\ UNCHANGED <<now, connVars, up, exempt, t0, conn, stolen>>

\* ... the slot's descriptor is set to -1, ...
EmptyConn(w) ==
  /\ pc[w] = "closed"
  /\ cfd' = [cfd EXCEPT ![conn[w]] = "none"]
  /\ pc' = [pc EXCEPT ![w] = "emptied"]
  /\ UNCHANGED <<now, open, in_use, host, last_used, up, exempt, t0, fd, conn,
                 stolen>>

\* ... and in_use to 0.
FreeConn(w) ==
  /\ pc[w] = "emptied"
  /\ in_use' = [in_use EXCEPT ![conn[w]] = 0]
  /\ Leave(w)
  /\ UNCHANGED <<now, open, cfd, host, last_used, stolen>>

Tick ==
  /\ now < MaxTime
  /\ now' = now + 1
  /\ UNCHANGED <<open, connVars, pc, up, exempt, t0, fd, conn, stolen>>

-----------------------------------------------------------------------------
Acquire(w) ==
  \/ Begin(w) \/ Reuse(w) \/ NoReuse(w) \/ NoConnection(w) \/ Connect(w)
  \/ Place(w) \/ NoPlace(w) \/ Evict(w) \/ Overflow(w) \/ OverflowFails(w)

Release(w) ==
  \/ ReleaseHeap(w) \/ ReturnConn(w) \/ StampConn(w)
  \/ CloseConn(w) \/ EmptyConn(w) \/ FreeConn(w)

Next == Tick \/ \E w \in Workers : Acquire(w) \/ Release(w)

Spec == Init /\ [][Next]_vars

-----------------------------------------------------------------------------
(* Properties *)

\* Every variable keeps its type.
TypeOK ==
  /\ now \in 0 .. MaxTime
  /\ open \subseteq Fds
  /\ cfd \in [Slots -> Fds \cup {"none"}]
  /\ in_use \in [Slots -> {0, 1}]
  /\ host \in [Slots -> Upstreams]
  /\ last_used \in [Slots -> 0 .. MaxTime]
  /\ pc \in [Workers -> Points]
  /\ up \in [Workers -> Upstreams]
  /\ exempt \in [Workers -> BOOLEAN]
  /\ t0 \in [Workers -> 0 .. MaxTime]
  /\ fd \in [Workers -> Fds \cup {"none"}]
  /\ conn \in [Workers -> {Heap} \cup Slots]

\* Unless a slot was taken while its release was under way, the socket a worker
\* uses is open and its own: no other worker uses it, and its connection names
\* it and the upstream the worker asked for.
ConnExclusive ==
  ~stolen => \A w \in Workers : pc[w] = "using" =>
    /\ fd[w] \in open
    /\ conn[w] # Heap => cfd[conn[w]] = fd[w] /\ host[conn[w]] = up[w]
    /\ \A v \in Workers \ {w} : pc[v] = "using" => fd[v] # fd[w]

\* Nothing is lost to the pool.  A slot that is marked in use has a user: no
\* release, and no eviction or reuse that follows it, leaves a slot behind that
\* nobody can take.  And, unless a slot was taken while its release was under
\* way, every open socket is in a slot or in the hands of a worker, after
\* evictions, overflows and worn connections too.
NothingLost ==
  /\ \A s \in Slots : in_use[s] = 1 =>
       \E w \in Workers : conn[w] = s /\ pc[w] \in {"using", "closed", "emptied"}
  /\ ~stolen => \A f \in open :
       \/ \E s \in Slots : cfd[s] = f
       \/ \E w \in Workers : fd[w] = f /\ pc[w] \in {"place", "evict", "using"}

=============================================================================
