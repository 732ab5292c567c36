---------------------------- MODULE CircuitBreaker ----------------------------
(***************************************************************************)
(* The per-upstream circuit breakers of the HTTP pool (src/http_pool.c) as *)
(* proxy_http_call uses them: a callout asks cb_allow inside acquire,      *)
(* exchanges a request and a response with the upstream, and reports       *)
(* success or failure; a callout that gets no connection, for whatever     *)
(* reason, reports a failure.  cb_lock makes each of the three operations  *)
(* atomic; between them other workers run and time passes.                 *)
(*                                                                         *)
(* The breakers' total_... statistics and last_success_time are written    *)
(* and never read; they are left out.                                      *)
(***************************************************************************)
EXTENDS PoolClock, FiniteSets

CONSTANTS
  Upstreams,        \* host:port keys
  MaxBreakers,      \* pool->max_breakers
  Threshold,        \* VWASM_HTTP_CB_THRESHOLD_DEFAULT
  HalfOpenTimeout,  \* VWASM_HTTP_CB_HALFOPEN_TIMEOUT_S
  CountModulus      \* consecutive_failures is a uint32_t: 2^32 in the code

ASSUME BreakerAssumption ==
  /\ MaxBreakers \in Nat
  /\ Threshold \in Nat \ {0}
  /\ HalfOpenTimeout \in Nat \ {0}
  /\ CountModulus \in Nat /\ CountModulus > Threshold
  /\ MaxTime \in Nat

VARIABLES
  tracked,   \* upstreams that have a breaker
  state,     \* [Upstreams -> {"CLOSED", "OPEN", "HALF_OPEN"}]
  failures,  \* [Upstreams -> 0 .. CountModulus - 1], consecutive_failures
  last,      \* [Upstreams -> 0 .. MaxTime], last_failure_time
  pc,        \* [Workers -> {"idle", "rejected", "admitted"}]
  up,        \* [Workers -> Upstreams], upstream of the current callout
  probe,     \* history: the callout was admitted while HALF_OPEN
  attempted  \* history: time of the last failure of an admitted callout

breakerVars == <<tracked, state, failures, last>>
vars == <<now, breakerVars, pc, up, probe, attempted>>

\* Breakers come from calloc and are set when their upstream is first seen.
Init ==
  /\ now = 0
  /\ tracked = {}
  /\ state = [u \in Upstreams |-> "CLOSED"]
  /\ failures = [u \in Upstreams |-> 0]
  /\ last = [u \in Upstreams |-> 0]
  /\ pc = [w \in Workers |-> "idle"]
  /\ up \in [Workers -> Upstreams]
  /\ probe = [w \in Workers |-> FALSE]
  /\ attempted = [u \in Upstreams |-> 0]

(* An operator named Faulty... is a mutated form of the definition after it. *)

\* The test for a full table is off by one.
FaultyFindOrCreate(u) ==
  tracked' = IF u \in tracked \/ Cardinality(tracked) <= MaxBreakers
             THEN tracked \cup {u} ELSE tracked

\* cb_find_or_create: a new breaker unless the table is full.
FindOrCreate(u) ==
  tracked' = IF u \in tracked \/ Cardinality(tracked) < MaxBreakers
             THEN tracked \cup {u} ELSE tracked

-----------------------------------------------------------------------------
(* vwasm_http_pool_cb_allow, called by vwasm_http_pool_acquire *)

Cooled(u) == now - last[u] >= HalfOpenTimeout

\* No breaker, a closed one or a half-open one admits the callout.
Admit(w, u) ==
  /\ pc[w] = "idle"
  /\ FindOrCreate(u)
  /\ u \in tracked' => state[u] # "OPEN"
  /\ up' = [up EXCEPT ![w] = u]
  /\ probe' = [probe EXCEPT ![w] = state[u] = "HALF_OPEN"]
  /\ pc' = [pc EXCEPT ![w] = "admitted"]
  /\ UNCHANGED <<now, state, failures, last, attempted>>

\* The breaker becomes half-open but the callout is rejected.
FaultyHalfOpen(w, u) ==
  /\ pc[w] = "idle"
  /\ u \in tracked /\ state[u] = "OPEN" /\ Cooled(u)
  /\ state' = [state EXCEPT ![u] = "HALF_OPEN"]
  /\ up' = [up EXCEPT ![w] = u]
  /\ UNCHANGED <<now, tracked, failures, last, pc, probe, attempted>>

\* An open breaker whose last failure is old enough becomes half-open.
HalfOpen(w, u) ==
  /\ pc[w] = "idle"
  /\ u \in tracked /\ state[u] = "OPEN" /\ Cooled(u)
  /\ state' = [state EXCEPT ![u] = "HALF_OPEN"]
  /\ up' = [up EXCEPT ![w] = u]
  /\ probe' = [probe EXCEPT ![w] = TRUE]
  /\ pc' = [pc EXCEPT ![w] = "admitted"]
  /\ UNCHANGED <<now, tracked, failures, last, attempted>>

\* Otherwise an open breaker rejects the callout.
Reject(w, u) ==
  /\ pc[w] = "idle"
  /\ u \in tracked /\ state[u] = "OPEN" /\ ~Cooled(u)
  /\ up' = [up EXCEPT ![w] = u]
  /\ probe' = [probe EXCEPT ![w] = FALSE]
  /\ pc' = [pc EXCEPT ![w] = "rejected"]
  /\ UNCHANGED <<now, breakerVars, attempted>>

-----------------------------------------------------------------------------
(* The reports of pw_proxy_http_call *)

\* A success closes an open breaker as well.
FaultyCbSuccess(u) ==
  /\ FindOrCreate(u)
  /\ failures' = [failures EXCEPT ![u] = 0]
  /\ state' = [state EXCEPT ![u] = "CLOSED"]
  /\ UNCHANGED last

\* vwasm_http_pool_cb_success
CbSuccess(u) ==
  /\ FindOrCreate(u)
  /\ IF u \in tracked'
     THEN /\ failures' = [failures EXCEPT ![u] = 0]
          /\ state' = [state EXCEPT ![u] = IF @ = "HALF_OPEN" THEN "CLOSED" ELSE @]
     ELSE UNCHANGED <<failures, state>>
  /\ UNCHANGED last

\* The threshold is exceeded, not reached.
FaultyCbFailure(u) ==
  /\ FindOrCreate(u)
  /\ IF u \in tracked'
     THEN /\ failures' = [failures EXCEPT ![u] = (@ + 1) % CountModulus]
          /\ last' = [last EXCEPT ![u] = now]
          /\ state' = [state EXCEPT ![u] =
               IF @ = "HALF_OPEN" \/ (@ = "CLOSED" /\ failures'[u] > Threshold)
               THEN "OPEN" ELSE @]
     ELSE UNCHANGED <<failures, last, state>>

\* A failed probe leaves the breaker half-open.
FaultyCbFailureHalfOpen(u) ==
  /\ FindOrCreate(u)
  /\ IF u \in tracked'
     THEN /\ failures' = [failures EXCEPT ![u] = (@ + 1) % CountModulus]
          /\ last' = [last EXCEPT ![u] = now]
          /\ state' = [state EXCEPT ![u] =
               IF @ = "CLOSED" /\ failures'[u] >= Threshold THEN "OPEN" ELSE @]
     ELSE UNCHANGED <<failures, last, state>>

\* vwasm_http_pool_cb_failure
CbFailure(u) ==
  /\ FindOrCreate(u)
  /\ IF u \in tracked'
     THEN /\ failures' = [failures EXCEPT ![u] = (@ + 1) % CountModulus]
          /\ last' = [last EXCEPT ![u] = now]
          /\ state' = [state EXCEPT ![u] =
               IF @ = "HALF_OPEN" \/ (@ = "CLOSED" /\ failures'[u] >= Threshold)
               THEN "OPEN" ELSE @]
     ELSE UNCHANGED <<failures, last, state>>

\* The response was complete.
Succeed(w) ==
  /\ pc[w] = "admitted"
  /\ CbSuccess(up[w])
  /\ pc' = [pc EXCEPT ![w] = "idle"]
  /\ UNCHANGED <<now, up, probe, attempted>>

\* No address, a private one, no connection, a failed write, no memory for the
\* response, or a response that is incomplete: each path reports a failure.
Fail(w) ==
  /\ pc[w] = "admitted"
  /\ CbFailure(up[w])
  /\ attempted' = [attempted EXCEPT ![up[w]] = now]
  /\ pc' = [pc EXCEPT ![w] = "idle"]
  /\ UNCHANGED <<now, up, probe>>

\* fd < 0 after a rejection: the rejection, too, is reported as a failure.
ReportRejection(w) ==
  /\ pc[w] = "rejected"
  /\ CbFailure(up[w])
  /\ pc' = [pc EXCEPT ![w] = "idle"]
  /\ UNCHANGED <<now, up, probe, attempted>>

Tick ==
  /\ TimePasses
  /\ UNCHANGED <<breakerVars, pc, up, probe, attempted>>

-----------------------------------------------------------------------------
Report(w) == Succeed(w) \/ Fail(w) \/ ReportRejection(w)

Next ==
  \/ \E w \in Workers, u \in Upstreams : Admit(w, u) \/ HalfOpen(w, u) \/ Reject(w, u)
  \/ \E w \in Workers : Report(w)
  \/ Tick

Spec == Init /\ [][Next]_vars

\* The socket timeouts and the limit on a response's size end every exchange.
FairSpec == Spec /\ \A w \in Workers : WF_vars(Report(w))

-----------------------------------------------------------------------------
(* Properties *)

\* Every variable keeps its type.
TypeOK ==
  /\ now \in 0 .. MaxTime
  /\ tracked \subseteq Upstreams
  /\ state \in [Upstreams -> {"CLOSED", "OPEN", "HALF_OPEN"}]
  /\ failures \in [Upstreams -> 0 .. CountModulus - 1]
  /\ last \in [Upstreams -> 0 .. MaxTime]
  /\ pc \in [Workers -> {"idle", "rejected", "admitted"}]
  /\ up \in [Workers -> Upstreams]
  /\ probe \in [Workers -> BOOLEAN]
  /\ attempted \in [Upstreams -> 0 .. MaxTime]

\* A closed breaker has seen fewer failures in a row than the threshold,
\* however the reports of concurrent callouts interleave and also after it was
\* open with a counter that went on counting, or wrapped.
ClosedBelowThreshold ==
  \A u \in Upstreams : state[u] = "CLOSED" => failures[u] < Threshold

\* The table of breakers keeps its size, and an upstream that found it full is
\* served as if it never failed: whatever its callouts report, it is not
\* counted, never opened and none of its callouts is rejected.
UntrackedServed ==
  /\ Cardinality(tracked) <= MaxBreakers
  /\ \A u \in Upstreams \ tracked :
       /\ state[u] = "CLOSED" /\ failures[u] = 0
       /\ \A w \in Workers : up[w] = u => pc[w] # "rejected"

\* A half-open breaker always has a callout under way that was admitted as a
\* probe and will report: it cannot be left half-open with nobody probing.
HalfOpenHasProbe ==
  \A u \in Upstreams :
    state[u] = "HALF_OPEN" =>
      \E w \in Workers : pc[w] = "admitted" /\ up[w] = u /\ probe[w]

\* A breaker goes round one way: a late success of a callout that was admitted
\* before the breaker opened does not close it, and an open one becomes
\* half-open only when the cool-down period has passed since the upstream last
\* failed a callout.  (A rejected callout is reported as a failure, too: that
\* may put the probe off, never bring it forward.)
LegalTransitions ==
  [][\A u \in Upstreams : state'[u] # state[u] =>
       /\ <<state[u], state'[u]>> \in
            {<<"CLOSED", "OPEN">>, <<"OPEN", "HALF_OPEN">>,
             <<"HALF_OPEN", "CLOSED">>, <<"HALF_OPEN", "OPEN">>}
       /\ state'[u] = "HALF_OPEN" => now - attempted[u] >= HalfOpenTimeout]_vars

\* A half-open breaker makes up its mind.
ProbeDecides ==
  \A u \in Upstreams : state[u] = "HALF_OPEN" ~> state[u] # "HALF_OPEN"

=============================================================================
