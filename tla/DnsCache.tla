------------------------------- MODULE DnsCache -------------------------------
(***************************************************************************)
(* The DNS cache of the HTTP pool (src/http_pool.c): workers resolve the   *)
(* host of a callout, from the cache or with getaddrinfo, and store what   *)
(* they got.  The two critical sections under dns_lock are one step each;  *)
(* the time is read before the first, and getaddrinfo runs between them    *)
(* with no lock held, for as long as it likes.                             *)
(*                                                                         *)
(* An address is who was asked for, the time at which the name service     *)
(* answered, and the port that was put into it.  Hits and misses are       *)
(* counted and never read.                                                 *)
(***************************************************************************)
EXTENDS PoolClock

CONSTANTS
  Hosts,         \* host names
  Ports,         \* ports of the upstreams
  Capacity,      \* pool->dns_cache_capacity
  Ttl            \* pool->dns_ttl_s

ASSUME DnsAssumption ==
  /\ Hosts # {} /\ Ports # {}
  /\ Capacity \in Nat \ {0}
  /\ Ttl \in Nat
  /\ MaxTime \in Nat

Time == 0 .. MaxTime
Slots == 1 .. Capacity
Addrs == [host : Hosts, at : Time, port : Ports]
SomeHost == CHOOSE h \in Hosts : TRUE
SomePort == CHOOSE p \in Ports : TRUE
NoAddr == [host |-> SomeHost, at |-> 0, port |-> SomePort]

VARIABLES
  size,     \* pool->dns_cache_size
  cache,    \* [Slots -> [host, addr, resolved_at]], used up to size
  point,    \* [Workers -> Points]
  want,     \* [Workers -> [host : Hosts, port : Ports]], the arguments
  t0,       \* [Workers -> Time], the `now' of resolve
  addr      \* [Workers -> Addrs], *addr_out

cacheVars == <<size, cache>>
dnsVars == <<now, cacheVars, point, want, t0, addr>>

Entries == [host : Hosts, addr : Addrs, resolved_at : Time]

\* In resolve: "lookup" in the cache, "ask" the name service, "store" its
\* answer; "idle" and "resolved" are outside of it.
Points == {"idle", "lookup", "ask", "store", "resolved"}

DnsInit ==
  /\ now = 0
  /\ size = 0
  /\ cache = [s \in Slots |-> [host |-> SomeHost, addr |-> NoAddr, resolved_at |-> 0]]
  /\ point = [w \in Workers |-> "idle"]
  /\ want = [w \in Workers |-> [host |-> SomeHost, port |-> SomePort]]
  /\ t0 = [w \in Workers |-> 0]
  /\ addr = [w \in Workers |-> NoAddr]

\* resolve and its caller are done, and their locals gone.
Leave(w) ==
  /\ want' = [want EXCEPT ![w] = [host |-> SomeHost, port |-> SomePort]]
  /\ t0' = [t0 EXCEPT ![w] = 0]
  /\ addr' = [addr EXCEPT ![w] = NoAddr]
  /\ point' = [point EXCEPT ![w] = "idle"]

-----------------------------------------------------------------------------
(* An operator named Faulty... is a mutated form of the definition after it. *)

\* acquire found no connection to reuse; resolve is called and takes the time.
Call(w) ==
  /\ point[w] = "idle"
  /\ \E h \in Hosts, p \in Ports :
       want' = [want EXCEPT ![w] = [host |-> h, port |-> p]]
  /\ t0' = [t0 EXCEPT ![w] = now]
  /\ point' = [point EXCEPT ![w] = "lookup"]
  /\ UNCHANGED <<now, cacheVars, addr>>

\* The entries that answer the worker: every used one is valid.
Fresh(w) ==
  {s \in 1 .. size : cache[s].host = want[w].host /\ t0[w] - cache[s].resolved_at < Ttl}

\* The first one is copied, and the port of this callout put into the copy.
Hit(w) ==
  /\ point[w] = "lookup"
  /\ \E s \in Fresh(w) :
       /\ \A x \in Fresh(w) : s <= x
       /\ addr' = [addr EXCEPT ![w] = [cache[s].addr EXCEPT !.port = want[w].port]]
  /\ point' = [point EXCEPT ![w] = "resolved"]
  /\ UNCHANGED <<now, cacheVars, want, t0>>

Miss(w) ==
  /\ point[w] = "lookup"
  /\ Fresh(w) = {}
  /\ point' = [point EXCEPT ![w] = "ask"]
  /\ UNCHANGED <<now, cacheVars, want, t0, addr>>

\* getaddrinfo returns the address the host has now, ...
Answer(w) ==
  /\ point[w] = "ask"
  /\ addr' = [addr EXCEPT ![w] =
                [host |-> want[w].host, at |-> now, port |-> want[w].port]]
  /\ point' = [point EXCEPT ![w] = "store"]
  /\ UNCHANGED <<now, cacheVars, want, t0>>

\* ... or fails, and the callout with it.
NoAnswer(w) ==
  /\ point[w] = "ask"
  /\ Leave(w)
  /\ UNCHANGED <<now, cacheVars>>

\* An expired entry of the host is not found.
FaultyOwnSlots(w) ==
  {s \in 1 .. size : cache[s].host = want[w].host /\ t0[w] - cache[s].resolved_at < Ttl}

\* The entries of the host, expired ones included.
OwnSlots(w) == {s \in 1 .. size : cache[s].host = want[w].host}

\* A new host takes the last entry of a full cache.
FaultyStoreSlot(w) ==
  IF OwnSlots(w) # {} THEN CHOOSE s \in OwnSlots(w) : \A x \in OwnSlots(w) : s <= x
  ELSE IF size < Capacity THEN size + 1
  ELSE Capacity

\* The host's own entry, the next unused one, or the first.
StoreSlot(w) ==
  IF OwnSlots(w) # {} THEN CHOOSE s \in OwnSlots(w) : \A x \in OwnSlots(w) : s <= x
  ELSE IF size < Capacity THEN size + 1
  ELSE 1

\* The entry is stamped with the time at which it is stored.
FaultyStore(w) ==
  /\ point[w] = "store"
  /\ size' = IF OwnSlots(w) = {} /\ size < Capacity THEN size + 1 ELSE size
  /\ cache' = [cache EXCEPT ![StoreSlot(w)] =
                 [host |-> want[w].host, addr |-> addr[w], resolved_at |-> now]]
  /\ point' = [point EXCEPT ![w] = "resolved"]
  /\ UNCHANGED <<now, want, t0, addr>>

\* The answer is stored, stamped with the time at which resolve began.
Store(w) ==
  /\ point[w] = "store"
  /\ size' = IF OwnSlots(w) = {} /\ size < Capacity THEN size + 1 ELSE size
  /\ cache' = [cache EXCEPT ![StoreSlot(w)] =
                 [host |-> want[w].host, addr |-> addr[w], resolved_at |-> t0[w]]]
  /\ point' = [point EXCEPT ![w] = "resolved"]
  /\ UNCHANGED <<now, want, t0, addr>>

\* The callout connects to the address and ends.
Return(w) ==
  /\ point[w] = "resolved"
  /\ Leave(w)
  /\ UNCHANGED <<now, cacheVars>>

DnsTick ==
  /\ TimePasses
  /\ UNCHANGED <<cacheVars, point, want, t0, addr>>

Resolve(w) ==
  \/ Call(w) \/ Hit(w) \/ Miss(w) \/ Answer(w) \/ NoAnswer(w) \/ Store(w)
  \/ Return(w)

DnsNext == DnsTick \/ \E w \in Workers : Resolve(w)

DnsSpec == DnsInit /\ [][DnsNext]_dnsVars

-----------------------------------------------------------------------------
(* Properties *)

\* Every variable keeps its type: the cache does not grow past its capacity.
DnsTypeOK ==
  /\ now \in Time
  /\ size \in 0 .. Capacity
  /\ cache \in [Slots -> Entries]
  /\ point \in [Workers -> Points]
  /\ want \in [Workers -> [host : Hosts, port : Ports]]
  /\ t0 \in [Workers -> Time]
  /\ addr \in [Workers -> Addrs]

\* The address a callout connects to is one the name service gave for its own
\* host less than the time to live before resolve was called, or since, and
\* carries its own port: whatever other workers stored, evicted or overwrote
\* meanwhile, however long getaddrinfo took, and whoever's port was cached.
AnswerFresh ==
  \A w \in Workers : point[w] = "resolved" =>
    /\ addr[w].host = want[w].host
    /\ addr[w].port = want[w].port
    /\ addr[w].at >= t0[w] \/ t0[w] - addr[w].at < Ttl

\* No host has two entries, although several workers may have missed it at
\* the same time and its entry may have been evicted in between: a lookup that
\* stops at the first match misses nothing.
OneEntryPerHost ==
  \A r, s \in 1 .. size : cache[r].host = cache[s].host => r = s

\* A full cache gives up its first entry only: the host of any other entry
\* keeps the entry for good, even when it expired and nobody asks for it.
OnlyFirstEvicted ==
  [][\A s \in 2 .. size : cache'[s].host = cache[s].host]_dnsVars

=============================================================================
