-------------------------- MODULE HttpCallout_proofs --------------------------
(***************************************************************************)
(* The circuit breakers and the DNS cache, the two parts of a callout that *)
(* depend on the clock, for any number of workers, upstreams, breakers,    *)
(* hosts and entries, any threshold, any cool-down and any time to live.   *)
(***************************************************************************)
EXTENDS CircuitBreaker, DnsCache, FiniteSetTheorems, TLAPS

(***************************************************************************)
(* The breakers.  Their properties need each other: a half-open breaker    *)
(* keeps its probe because an upstream without a breaker is closed, and    *)
(* the cool-down is that of the last failed callout because no report that *)
(* is counted leaves last_failure_time behind it.                          *)
(***************************************************************************)

\* A breaker remembers a time no earlier than the last failed callout; only an
\* upstream that found the table full may have failed unnoticed.
Remembered ==
  \A u \in Upstreams :
    \/ attempted[u] <= last[u]
    \/ u \notin tracked /\ Cardinality(tracked) >= MaxBreakers

\* No failure is in the future.
Past == \A u \in Upstreams : attempted[u] <= now

IInv ==
  /\ TypeOK
  /\ Past
  /\ IsFiniteSet(tracked)
  /\ UntrackedServed
  /\ ClosedBelowThreshold
  /\ HalfOpenHasProbe
  /\ Remembered

\* The initial states satisfy the invariant.
LEMMA InitInv == Init => IInv
<1> SUFFICES ASSUME Init PROVE IInv
  OBVIOUS
<1>1. TypeOK
  BY BreakerAssumption DEF Init, TypeOK
<1>2. IsFiniteSet(tracked) /\ Cardinality(tracked) = 0
  BY Zenon, FS_EmptySet DEF Init
<1>3. Past /\ UntrackedServed /\ ClosedBelowThreshold /\ HalfOpenHasProbe /\ Remembered
  BY <1>2, BreakerAssumption
  DEF Init, Past, UntrackedServed, ClosedBelowThreshold, HalfOpenHasProbe, Remembered
<1>4. QED
  BY Zenon, <1>1, <1>2, <1>3 DEF IInv

\* cb_find_or_create keeps the table within its size, forgets no breaker, and
\* adds none to a full table.
LEMMA TableFacts ==
  ASSUME IInv, NEW u \in Upstreams, FindOrCreate(u)
  PROVE  /\ tracked \subseteq tracked' /\ tracked' \subseteq tracked \cup {u}
         /\ IsFiniteSet(tracked') /\ Cardinality(tracked') <= MaxBreakers
         /\ Cardinality(tracked') >= Cardinality(tracked)
         /\ Cardinality(tracked) \in Nat /\ Cardinality(tracked') \in Nat
         /\ Cardinality(tracked) >= MaxBreakers => tracked' = tracked
<1>1. IsFiniteSet(tracked) /\ Cardinality(tracked) \in Nat /\ Cardinality(tracked) <= MaxBreakers
  BY Zenon, FS_CardinalityType DEF IInv, UntrackedServed
<1>2. /\ IsFiniteSet(tracked \cup {u})
      /\ Cardinality(tracked \cup {u}) =
           IF u \in tracked THEN Cardinality(tracked) ELSE Cardinality(tracked) + 1
  BY Zenon, <1>1, FS_AddElement
<1>3. CASE u \in tracked
  <2>1. tracked' = tracked
    BY Zenon, <1>3 DEF FindOrCreate
  <2>2. QED
    BY <1>1, <2>1, BreakerAssumption
<1>4. CASE u \notin tracked /\ Cardinality(tracked) < MaxBreakers
  <2>1. tracked' = tracked \cup {u}
    BY Zenon, <1>4 DEF FindOrCreate
  <2>2. QED
    BY <1>1, <1>2, <1>4, <2>1, BreakerAssumption
<1>5. CASE u \notin tracked /\ ~(Cardinality(tracked) < MaxBreakers)
  <2>1. tracked' = tracked
    BY Zenon, <1>5 DEF FindOrCreate
  <2>2. QED
    BY <1>1, <2>1, BreakerAssumption
<1>6. QED
  BY Zenon, <1>3, <1>4, <1>5

\* The three answers of vwasm_http_pool_cb_allow.
LEMMA AskInv ==
  ASSUME IInv, NEW w \in Workers, NEW u \in Upstreams,
         Admit(w, u) \/ HalfOpen(w, u) \/ Reject(w, u)
  PROVE  IInv'
<1>1. CASE Admit(w, u)
  <2>1. FindOrCreate(u)
    BY Zenon, <1>1 DEF Admit
  <2>2. /\ tracked \subseteq tracked' /\ tracked' \subseteq tracked \cup {u}
        /\ IsFiniteSet(tracked') /\ Cardinality(tracked') <= MaxBreakers
        /\ Cardinality(tracked) >= MaxBreakers => tracked' = tracked
    BY Zenon, <2>1, TableFacts
  <2>3. TypeOK'
    BY Zenon, <1>1, <2>2 DEF IInv, TypeOK, Admit
  <2>4. UntrackedServed' /\ ClosedBelowThreshold'
    BY Zenon, <1>1, <2>2 DEF IInv, TypeOK, Admit, UntrackedServed, ClosedBelowThreshold
  <2>5. HalfOpenHasProbe'
    BY ZenonT(40), <1>1 DEF IInv, TypeOK, Admit, HalfOpenHasProbe
  <2>6. Past' /\ Remembered'
    BY Zenon, <1>1, <2>2 DEF IInv, Admit, Past, Remembered
  <2>7. QED
    BY Zenon, <2>2, <2>3, <2>4, <2>5, <2>6 DEF IInv
<1>2. CASE HalfOpen(w, u)
  <2>1. TypeOK' /\ IsFiniteSet(tracked')
    BY Zenon, <1>2 DEF IInv, TypeOK, HalfOpen
  <2>2. Past' /\ UntrackedServed' /\ ClosedBelowThreshold' /\ Remembered'
    BY <1>2 DEF IInv, TypeOK, HalfOpen, Past, UntrackedServed, ClosedBelowThreshold, Remembered
  <2>3. HalfOpenHasProbe'
    BY ZenonT(40), <1>2 DEF IInv, TypeOK, HalfOpen, HalfOpenHasProbe
  <2>4. QED
    BY Zenon, <2>1, <2>2, <2>3 DEF IInv
<1>3. CASE Reject(w, u)
  <2>1. TypeOK' /\ IsFiniteSet(tracked')
    BY Zenon, <1>3 DEF IInv, TypeOK, Reject, breakerVars
  <2>2. Past' /\ UntrackedServed' /\ ClosedBelowThreshold' /\ Remembered'
    BY <1>3 DEF IInv, TypeOK, Reject, breakerVars, Past, UntrackedServed, ClosedBelowThreshold, Remembered
  <2>3. HalfOpenHasProbe'
    BY Zenon, <1>3 DEF IInv, TypeOK, Reject, breakerVars, HalfOpenHasProbe
  <2>4. QED
    BY Zenon, <2>1, <2>2, <2>3 DEF IInv
<1>4. QED
  BY Zenon, <1>1, <1>2, <1>3

\* A failure that is reported, of a callout or of a rejection; attempted may move
\* to the time of the report.
LEMMA FailureInv ==
  ASSUME IInv, NEW w \in Workers, pc[w] # "idle",
         CbFailure(up[w]),
         pc' = [pc EXCEPT ![w] = "idle"],
         attempted' \in {attempted, [attempted EXCEPT ![up[w]] = now]},
         UNCHANGED <<now, up, probe>>
  PROVE  IInv'
<1> DEFINE u == up[w]
<1>1. u \in Upstreams /\ FindOrCreate(u)
  BY Zenon DEF IInv, TypeOK, CbFailure
<1>2. /\ tracked \subseteq tracked' /\ tracked' \subseteq tracked \cup {u}
      /\ IsFiniteSet(tracked') /\ Cardinality(tracked') <= MaxBreakers
      /\ Cardinality(tracked) >= MaxBreakers => tracked' = tracked
      /\ Cardinality(tracked) \in Nat /\ Cardinality(tracked') \in Nat
  BY Zenon, <1>1, TableFacts
<1>0. Past'
  BY <1>1 DEF IInv, TypeOK, Past
<1>3. CASE u \in tracked'
  <2>1. /\ failures' = [failures EXCEPT ![u] = (@ + 1) % CountModulus]
        /\ last' = [last EXCEPT ![u] = now]
        /\ state' = [state EXCEPT ![u] =
             IF @ = "HALF_OPEN" \/ (@ = "CLOSED" /\ failures'[u] >= Threshold)
             THEN "OPEN" ELSE @]
    BY Zenon, <1>3 DEF CbFailure
  <2>2. (failures[u] + 1) % CountModulus \in 0 .. CountModulus - 1
    BY SMTT(30), <1>1, BreakerAssumption DEF IInv, TypeOK
  <2>3. TypeOK'
    BY SMTT(30), <1>1, <1>2, <2>1, <2>2 DEF IInv, TypeOK
  <2>4. UntrackedServed'
    BY SMTT(30), <1>1, <1>2, <1>3, <2>1 DEF IInv, TypeOK, UntrackedServed
  <2>5. ClosedBelowThreshold'
    BY <1>1, <2>1, <2>2, <2>3, BreakerAssumption DEF IInv, TypeOK, ClosedBelowThreshold
  <2>6. HalfOpenHasProbe'
    BY <1>1, <2>1 DEF IInv, TypeOK, HalfOpenHasProbe
  <2>7. Remembered'
    <3>1. attempted'[u] <= last'[u]
      <4>1. last'[u] = now /\ now \in Nat /\ attempted[u] \in Int /\ attempted[u] <= MaxTime
        BY <1>1, <2>1 DEF IInv, TypeOK
      <4>2. attempted[u] <= now
        BY Zenon, <1>1 DEF IInv, Past
      <4>3. QED
        BY <1>1, <4>1, <4>2 DEF IInv, TypeOK
    <3>2. ASSUME NEW v \in Upstreams, v # u
          PROVE  /\ attempted'[v] = attempted[v] /\ last'[v] = last[v]
                 /\ v \in tracked' <=> v \in tracked
      BY Zenon, <1>1, <1>2, <2>1, <3>2 DEF IInv, TypeOK
    <3>3. QED
      BY Zenon, <1>2, <3>1, <3>2 DEF IInv, Remembered
  <2>8. QED
    BY Zenon, <1>2, <1>0, <2>3, <2>4, <2>5, <2>6, <2>7 DEF IInv
<1>4. CASE u \notin tracked'
  <2>1. UNCHANGED <<failures, last, state>> /\ u \notin tracked
    BY Zenon, <1>2, <1>4 DEF CbFailure
  <2>2. tracked' = tracked /\ Cardinality(tracked) >= MaxBreakers
    BY <1>1, <1>2, <1>4, BreakerAssumption DEF FindOrCreate
  <2>3. TypeOK' /\ UntrackedServed' /\ ClosedBelowThreshold'
    BY <1>1, <2>1, <2>2 DEF IInv, TypeOK, UntrackedServed, ClosedBelowThreshold
  <2>4. state[u] = "CLOSED"
    BY Zenon, <1>1, <2>1 DEF IInv, UntrackedServed
  <2>5. HalfOpenHasProbe'
    BY <1>1, <2>1, <2>4 DEF IInv, TypeOK, HalfOpenHasProbe
  <2>6. Remembered'
    BY Zenon, <1>1, <2>1, <2>2 DEF IInv, TypeOK, Remembered
  <2>7. QED
    BY Zenon, <1>2, <1>0, <2>3, <2>5, <2>6 DEF IInv
<1>5. QED
  BY Zenon, <1>3, <1>4

\* A report of success (cb_success) preserves the invariant.
LEMMA SuccessInv ==
  ASSUME IInv, NEW w \in Workers, Succeed(w)
  PROVE  IInv'
<1> DEFINE u == up[w]
<1>1. u \in Upstreams /\ FindOrCreate(u)
  BY Zenon DEF IInv, TypeOK, Succeed, CbSuccess
<1>2. /\ tracked \subseteq tracked' /\ tracked' \subseteq tracked \cup {u}
      /\ IsFiniteSet(tracked') /\ Cardinality(tracked') <= MaxBreakers
      /\ Cardinality(tracked) >= MaxBreakers => tracked' = tracked
  BY Zenon, <1>1, TableFacts
<1>3. TypeOK'
  BY <1>1, <1>2, BreakerAssumption DEF IInv, TypeOK, Succeed, CbSuccess
<1>4. UntrackedServed' /\ ClosedBelowThreshold'
  BY <1>1, <1>2, BreakerAssumption
  DEF IInv, TypeOK, Succeed, CbSuccess, UntrackedServed, ClosedBelowThreshold
<1>5. HalfOpenHasProbe'
  <2>1. u \notin tracked' => state[u] = "CLOSED"
    BY Zenon, <1>1, <1>2 DEF IInv, UntrackedServed
  <2>2. QED
    BY <1>1, <2>1 DEF IInv, TypeOK, Succeed, CbSuccess, HalfOpenHasProbe
<1>6. Past' /\ Remembered'
  BY Zenon, <1>1, <1>2 DEF IInv, Succeed, CbSuccess, Past, Remembered
<1>7. QED
  BY Zenon, <1>2, <1>3, <1>4, <1>5, <1>6 DEF IInv

\* Every step preserves the invariant.
LEMMA NextInv == IInv /\ [Next]_vars => IInv'
<1> SUFFICES ASSUME IInv, [Next]_vars PROVE IInv'
  OBVIOUS
<1>1. ASSUME NEW w \in Workers, NEW u \in Upstreams,
             Admit(w, u) \/ HalfOpen(w, u) \/ Reject(w, u)
      PROVE  IInv'
  BY Zenon, <1>1, AskInv
<1>2. ASSUME NEW w \in Workers, Succeed(w) PROVE IInv'
  BY Zenon, <1>2, SuccessInv
<1>3. ASSUME NEW w \in Workers, Fail(w) PROVE IInv'
  BY Zenon, <1>3, FailureInv DEF Fail
<1>4. ASSUME NEW w \in Workers, ReportRejection(w) PROVE IInv'
  BY Zenon, <1>4, FailureInv DEF ReportRejection
<1>5. CASE Tick
  BY <1>5, BreakerAssumption
  DEF IInv, TypeOK, Tick, TimePasses, breakerVars, Past, UntrackedServed, ClosedBelowThreshold, HalfOpenHasProbe, Remembered
<1>6. CASE UNCHANGED vars
  BY <1>6
  DEF IInv, TypeOK, vars, breakerVars, Past, UntrackedServed, ClosedBelowThreshold, HalfOpenHasProbe, Remembered
<1>7. QED
  BY Zenon, <1>1, <1>2, <1>3, <1>4, <1>5, <1>6 DEF Next, Report

\* The inductive invariant of the breakers holds of every behaviour.
THEOREM Invariance == Spec => []IInv
<1>1. QED
  BY InitInv, NextInv, PTL DEF Spec

\* A closed breaker has counted fewer failures than the threshold, for every
\* threshold and every width of the counter above it.
THEOREM BelowThreshold == Spec => []ClosedBelowThreshold
<1>1. IInv => ClosedBelowThreshold
  BY Zenon DEF IInv
<1>2. QED
  BY <1>1, Invariance, PTL

\* A half-open breaker has a probe under way that will report.
THEOREM Probed == Spec => []HalfOpenHasProbe
<1>1. IInv => HalfOpenHasProbe
  BY Zenon DEF IInv
<1>2. QED
  BY <1>1, Invariance, PTL

\* The table of breakers keeps its size and upstreams without one are served.
THEOREM Untracked == Spec => []UntrackedServed
<1>1. IInv => UntrackedServed
  BY Zenon DEF IInv
<1>2. QED
  BY <1>1, Invariance, PTL

\* Breakers change state in the order intended, and no probe is sent before the
\* cool-down period after the last failed callout is over.
THEOREM Transitions == Spec => LegalTransitions
<1> DEFINE Legal ==
      \A u \in Upstreams : state'[u] # state[u] =>
        /\ <<state[u], state'[u]>> \in
             {<<"CLOSED", "OPEN">>, <<"OPEN", "HALF_OPEN">>,
              <<"HALF_OPEN", "CLOSED">>, <<"HALF_OPEN", "OPEN">>}
        /\ state'[u] = "HALF_OPEN" => now - attempted[u] >= HalfOpenTimeout
<1>1. IInv /\ [Next]_vars => [Legal]_vars
  <2> SUFFICES ASSUME IInv, Next PROVE Legal
    OBVIOUS
  <2>1. ASSUME NEW w \in Workers, NEW u \in Upstreams, HalfOpen(w, u) PROVE Legal
    <3>1. /\ attempted[u] <= last[u] /\ now - last[u] >= HalfOpenTimeout
          /\ attempted[u] \in Int /\ last[u] \in Int /\ now \in Int
      BY <2>1 DEF IInv, TypeOK, Remembered, HalfOpen, Cooled
    <3>2. now - attempted[u] >= HalfOpenTimeout
      BY <3>1, BreakerAssumption
    <3>3. QED
      BY Zenon, <2>1, <3>2 DEF IInv, TypeOK, HalfOpen
  <2>2. ASSUME NEW w \in Workers, CbFailure(up[w]) PROVE Legal
    BY <2>2 DEF IInv, TypeOK, CbFailure
  <2>3. ASSUME NEW w \in Workers, CbSuccess(up[w]) PROVE Legal
    BY ZenonT(40), <2>3 DEF IInv, TypeOK, CbSuccess
  <2>4. ASSUME state' = state PROVE Legal
    BY Zenon, <2>4
  <2>5. QED
    BY Zenon, <2>1, <2>2, <2>3, <2>4
    DEF Next, Report, Admit, Reject, breakerVars, Succeed, Fail, ReportRejection, Tick
<1>2. QED
  BY <1>1, Invariance, PTL DEF Spec, LegalTransitions

-----------------------------------------------------------------------------
(***************************************************************************)
(* The DNS cache.  AnswerFresh is not inductive: that a cached address may *)
(* be handed out follows from the stamp of its entry being no later than   *)
(* the time at which the name service gave it, and that from the worker    *)
(* that stores it having taken its stamp before it asked.                  *)
(***************************************************************************)

\* Every entry holds an address of its host, stamped no later than it was given.
StampNotLater ==
  \A s \in 1 .. size :
    cache[s].addr.host = cache[s].host /\ cache[s].resolved_at <= cache[s].addr.at

\* A worker in resolve began it in the past; one that has an answer to store
\* asked for its own host and port after it began.
AskedAfter ==
  \A w \in Workers :
    /\ t0[w] <= now
    /\ point[w] = "store" =>
         addr[w].host = want[w].host /\ addr[w].port = want[w].port /\ t0[w] <= addr[w].at

DnsInv == DnsTypeOK /\ StampNotLater /\ AskedAfter /\ AnswerFresh /\ OneEntryPerHost

\* The arbitrary host, port and address of an empty entry have their types.
LEMMA SomeTypes == SomeHost \in Hosts /\ SomePort \in Ports /\ NoAddr \in Addrs
BY DnsAssumption DEF SomeHost, SomePort, NoAddr, Addrs, Time

\* The slot an answer goes to: the host's own, a new one, or the first of a
\* full cache.
LEMMA StoreSlotCases ==
  ASSUME DnsTypeOK, OneEntryPerHost, NEW w \in Workers
  PROVE  /\ StoreSlot(w) \in Slots
         /\ \/ StoreSlot(w) \in OwnSlots(w)
            \/ OwnSlots(w) = {} /\ size < Capacity /\ StoreSlot(w) = size + 1
            \/ OwnSlots(w) = {} /\ size = Capacity /\ StoreSlot(w) = 1
<1> USE DnsAssumption
<1>1. OwnSlots(w) \subseteq 1 .. size /\ 1 .. size \subseteq Slots
  BY DEF OwnSlots, DnsTypeOK, Slots
<1>2. CASE OwnSlots(w) # {}
  <2>1. PICK s \in OwnSlots(w) : TRUE
    BY Zenon, <1>2
  <2>2. \A x \in OwnSlots(w) : s <= x
    BY <2>1 DEF OwnSlots, OneEntryPerHost, DnsTypeOK
  <2>3. StoreSlot(w) \in OwnSlots(w)
    BY Zenon, <1>2, <2>1, <2>2 DEF StoreSlot
  <2>4. QED
    BY Zenon, <1>1, <2>3
<1>3. CASE OwnSlots(w) = {}
  BY <1>3 DEF StoreSlot, DnsTypeOK, Slots
<1>4. QED
  BY Zenon, <1>2, <1>3

\* The cache starts with the invariant.
LEMMA DnsInitInv == DnsInit => DnsInv
BY SomeTypes, DnsAssumption
DEF DnsInit, DnsInv, DnsTypeOK, StampNotLater, AskedAfter, AnswerFresh, OneEntryPerHost,
    Time, Slots, Entries, Points

\* The locals of a worker that leaves are in their types.
LEMMA LeaveType ==
  ASSUME DnsTypeOK, NEW w \in Workers, Leave(w)
  PROVE  /\ want' \in [Workers -> [host : Hosts, port : Ports]]
         /\ t0' \in [Workers -> Time]
         /\ addr' \in [Workers -> Addrs]
         /\ point' \in [Workers -> Points]
         /\ \A v \in Workers : v # w => t0'[v] = t0[v] /\ addr'[v] = addr[v]
                                        /\ point'[v] = point[v] /\ want'[v] = want[v]
         /\ point'[w] = "idle" /\ t0'[w] = 0
BY SomeTypes, DnsAssumption DEF DnsTypeOK, Leave, Time, Points

\* Every step keeps it.
LEMMA DnsNextInv == DnsInv /\ [DnsNext]_dnsVars => DnsInv'
<1> SUFFICES ASSUME DnsInv, [DnsNext]_dnsVars PROVE DnsInv'
  OBVIOUS
<1> USE DnsAssumption
<1>1. ASSUME NEW w \in Workers, Call(w) PROVE DnsInv'
  <2>1. PICK h \in Hosts, p \in Ports :
          want' = [want EXCEPT ![w] = [host |-> h, port |-> p]]
    BY Zenon, <1>1 DEF Call
  <2>2. DnsTypeOK'
    BY Zenon, <1>1, <2>1 DEF Call, DnsInv, DnsTypeOK, cacheVars, Points
  <2>3. StampNotLater' /\ OneEntryPerHost'
    BY Zenon, <1>1 DEF Call, DnsInv, StampNotLater, OneEntryPerHost, cacheVars
  <2>4. AskedAfter' /\ AnswerFresh'
    BY <1>1, <2>1 DEF Call, DnsInv, DnsTypeOK, AskedAfter, AnswerFresh, Time
  <2>5. QED
    BY Zenon, <2>2, <2>3, <2>4 DEF DnsInv
<1>2. ASSUME NEW w \in Workers, Hit(w) PROVE DnsInv'
  <2>1. PICK s \in Fresh(w) :
          addr' = [addr EXCEPT ![w] = [cache[s].addr EXCEPT !.port = want[w].port]]
    BY Zenon, <1>2 DEF Hit
  <2>2. s \in 1 .. size /\ s \in Slots /\ cache[s].host = want[w].host
        /\ t0[w] - cache[s].resolved_at < Ttl /\ cache[s] \in Entries
    BY <2>1 DEF Fresh, DnsInv, DnsTypeOK, Slots
  <2>3. [cache[s].addr EXCEPT !.port = want[w].port] \in Addrs
    BY Zenon, <2>2 DEF DnsInv, DnsTypeOK, Entries, Addrs
  <2>4. DnsTypeOK'
    BY Zenon, <1>2, <2>1, <2>3 DEF Hit, DnsInv, DnsTypeOK, cacheVars, Points
  <2>5. StampNotLater' /\ OneEntryPerHost'
    BY Zenon, <1>2 DEF Hit, DnsInv, StampNotLater, OneEntryPerHost, cacheVars
  <2>6. AskedAfter'
    BY Zenon, <1>2, <2>1 DEF Hit, DnsInv, DnsTypeOK, AskedAfter
  <2>7. /\ addr'[w].host = want[w].host /\ addr'[w].port = want[w].port
        /\ t0[w] - addr'[w].at < Ttl
    <3>1. /\ cache[s].addr.host = cache[s].host
          /\ cache[s].resolved_at <= cache[s].addr.at
      BY Zenon, <2>2 DEF DnsInv, StampNotLater
    <3>2. cache[s].addr \in Addrs /\ cache[s].resolved_at \in Int
          /\ cache[s].addr.at \in Int /\ t0[w] \in Int /\ Ttl \in Int
      BY <2>2 DEF DnsInv, DnsTypeOK, Entries, Addrs, Time
    <3>3. addr'[w] = [cache[s].addr EXCEPT !.port = want[w].port]
      BY Zenon, <2>1 DEF DnsInv, DnsTypeOK
    <3>4. addr'[w].host = cache[s].addr.host /\ addr'[w].at = cache[s].addr.at
          /\ addr'[w].port = want[w].port
      BY Zenon, <3>2, <3>3 DEF Addrs
    <3>5. QED
      BY <3>1, <3>2, <3>4, <2>2
  <2>8. AnswerFresh'
    BY Zenon, <1>2, <2>1, <2>7 DEF Hit, DnsInv, DnsTypeOK, AnswerFresh
  <2>9. QED
    BY Zenon, <2>4, <2>5, <2>6, <2>8 DEF DnsInv
<1>3. ASSUME NEW w \in Workers, Miss(w) PROVE DnsInv'
  BY ZenonT(40), <1>3 DEF Miss, DnsInv, DnsTypeOK, StampNotLater, AskedAfter, AnswerFresh,
    OneEntryPerHost, cacheVars, Points
<1>4. ASSUME NEW w \in Workers, Answer(w) PROVE DnsInv'
  <2> DEFINE a == [host |-> want[w].host, at |-> now, port |-> want[w].port]
  <2>1. a \in Addrs /\ a.host = want[w].host /\ a.at = now /\ a.port = want[w].port
    BY Zenon DEF DnsInv, DnsTypeOK, Addrs
  <2>2. addr' = [addr EXCEPT ![w] = a]
    BY Zenon, <1>4 DEF Answer
  <2> HIDE DEF a
  <2>3. DnsTypeOK'
    BY <1>4, <2>1, <2>2 DEF Answer, DnsInv, DnsTypeOK, cacheVars, Points
  <2>4. StampNotLater' /\ OneEntryPerHost'
    BY Zenon, <1>4 DEF Answer, DnsInv, StampNotLater, OneEntryPerHost, cacheVars
  <2>5. AskedAfter' /\ AnswerFresh'
    BY <1>4, <2>1, <2>2 DEF Answer, DnsInv, DnsTypeOK, AskedAfter, AnswerFresh
  <2>6. QED
    BY Zenon, <2>3, <2>4, <2>5 DEF DnsInv
<1>5. ASSUME NEW w \in Workers, NoAnswer(w) \/ Return(w) PROVE DnsInv'
  <2>1. Leave(w) /\ UNCHANGED <<now, cacheVars>>
    BY Zenon, <1>5 DEF NoAnswer, Return
  <2>2. DnsTypeOK'
    BY Zenon, <2>1, LeaveType DEF DnsInv, DnsTypeOK, cacheVars
  <2>3. StampNotLater' /\ OneEntryPerHost'
    BY Zenon, <2>1 DEF DnsInv, StampNotLater, OneEntryPerHost, cacheVars
  <2>4. now' = now /\ now \in Time
    BY Zenon, <2>1 DEF DnsInv, DnsTypeOK
  <2>5. /\ \A v \in Workers : v # w => t0'[v] = t0[v] /\ addr'[v] = addr[v]
                                       /\ point'[v] = point[v] /\ want'[v] = want[v]
        /\ point'[w] = "idle" /\ t0'[w] = 0
    BY Zenon, <2>1, LeaveType DEF DnsInv
  <2>6. AnswerFresh'
    BY ZenonT(60), <2>5 DEF DnsInv, AnswerFresh
  <2>7. 0 <= now
    BY <2>4 DEF Time
  <2>8. AskedAfter'
    BY ZenonT(60), <2>4, <2>5, <2>7 DEF DnsInv, AskedAfter
  <2>9. QED
    BY Zenon, <2>2, <2>3, <2>6, <2>8 DEF DnsInv
<1>6. ASSUME NEW w \in Workers, Store(w) PROVE DnsInv'
  <2> DEFINE s == StoreSlot(w)
             e == [host |-> want[w].host, addr |-> addr[w], resolved_at |-> t0[w]]
  <2>1. /\ s \in Slots
        /\ \/ s \in OwnSlots(w)
           \/ OwnSlots(w) = {} /\ size < Capacity /\ s = size + 1
           \/ OwnSlots(w) = {} /\ size = Capacity /\ s = 1
    BY Zenon, StoreSlotCases DEF DnsInv
  <2>2. e \in Entries /\ e.host = want[w].host /\ e.addr = addr[w] /\ e.resolved_at = t0[w]
    BY Zenon DEF DnsInv, DnsTypeOK, Entries
  <2>3. /\ cache' = [cache EXCEPT ![s] = e]
        /\ size' = IF OwnSlots(w) = {} /\ size < Capacity THEN size + 1 ELSE size
        /\ point[w] = "store" /\ point' = [point EXCEPT ![w] = "resolved"]
        /\ UNCHANGED <<now, want, t0, addr>>
    BY Zenon, <1>6 DEF Store
  <2> HIDE DEF s, e
  <2>4. size \in 0 .. Capacity /\ size' \in 0 .. Capacity
    BY <2>3 DEF DnsInv, DnsTypeOK
  <2>5. DnsTypeOK'
    BY ZenonT(60), <2>1, <2>2, <2>3, <2>4 DEF DnsInv, DnsTypeOK, Points
  <2>6. \A r \in 1 .. size' : r \in Slots /\ (r # s => r \in 1 .. size /\ cache'[r] = cache[r])
    BY SMTT(30), <2>1, <2>3, <2>4 DEF DnsInv, DnsTypeOK, Slots, OwnSlots
  <2>7. cache'[s] = e
    BY Zenon, <2>1, <2>3 DEF DnsInv, DnsTypeOK
  <2>8. StampNotLater'
    BY <2>2, <2>3, <2>6, <2>7 DEF DnsInv, StampNotLater, AskedAfter
  <2>9. \A r \in 1 .. size' : r # s => cache[r].host # want[w].host
    BY Zenon, <2>1, <2>4, <2>6 DEF DnsInv, OneEntryPerHost, OwnSlots
  <2>10. OneEntryPerHost'
    BY ZenonT(60), <2>2, <2>6, <2>7, <2>9 DEF DnsInv, OneEntryPerHost
  <2>11. AskedAfter' /\ AnswerFresh'
    BY Zenon, <2>3 DEF DnsInv, DnsTypeOK, AskedAfter, AnswerFresh, Time, Addrs
  <2>12. QED
    BY Zenon, <2>5, <2>8, <2>10, <2>11 DEF DnsInv
<1>7. CASE DnsTick
  BY <1>7 DEF DnsTick, TimePasses, DnsInv, DnsTypeOK, StampNotLater, AskedAfter, AnswerFresh,
    OneEntryPerHost, cacheVars, Time
<1>8. CASE UNCHANGED dnsVars
  BY Zenon, <1>8 DEF dnsVars, cacheVars, DnsInv, DnsTypeOK, StampNotLater, AskedAfter,
    AnswerFresh, OneEntryPerHost
<1>9. QED
  BY Zenon, <1>1, <1>2, <1>3, <1>4, <1>5, <1>6, <1>7, <1>8 DEF DnsNext, Resolve

\* In every behaviour of the cache: entries are stamped no later than they were
\* given, what resolve returns is fresh, and no host has two entries.
THEOREM DnsInvariance == DnsSpec => []DnsInv
BY DnsInitInv, DnsNextInv, PTL DEF DnsSpec

\* The cache never outgrows its capacity, and every variable keeps its type.
THEOREM DnsTypeCorrect == DnsSpec => []DnsTypeOK
<1>1. DnsInv => DnsTypeOK
  BY Zenon DEF DnsInv
<1>2. QED
  BY <1>1, DnsInvariance, PTL

\* What resolve returns is an address of the host asked for, with the port asked
\* for, no older than the time to live when resolve was called.
THEOREM Freshness == DnsSpec => []AnswerFresh
<1>1. DnsInv => AnswerFresh
  BY Zenon DEF DnsInv
<1>2. QED
  BY <1>1, DnsInvariance, PTL

\* Workers that store the same host at once leave one entry for it.
THEOREM Uniqueness == DnsSpec => []OneEntryPerHost
<1>1. DnsInv => OneEntryPerHost
  BY Zenon DEF DnsInv
<1>2. QED
  BY <1>1, DnsInvariance, PTL

\* Only the first entry ever changes its host.
THEOREM Eviction == DnsSpec => OnlyFirstEvicted
<1>1. ASSUME DnsInv, [DnsNext]_dnsVars
      PROVE  [\A s \in 2 .. size : cache'[s].host = cache[s].host]_dnsVars
  <2>1. ASSUME NEW w \in Workers, Store(w), NEW s \in 2 .. size
        PROVE  cache'[s].host = cache[s].host
    <3> DEFINE e == [host |-> want[w].host, addr |-> addr[w], resolved_at |-> t0[w]]
    <3>1. StoreSlot(w) \in Slots /\ (StoreSlot(w) \in OwnSlots(w) \/ StoreSlot(w) # s)
      BY <1>1, StoreSlotCases, DnsAssumption DEF DnsInv, DnsTypeOK
    <3>2. cache' = [cache EXCEPT ![StoreSlot(w)] = e] /\ e.host = want[w].host
      BY Zenon, <2>1 DEF Store
    <3>3. s \in Slots /\ cache \in [Slots -> Entries]
      BY <1>1, DnsAssumption DEF DnsInv, DnsTypeOK, Slots
    <3> HIDE DEF e
    <3>4. QED
      BY Zenon, <3>1, <3>2, <3>3 DEF OwnSlots
  <2>2. ASSUME cache' = cache PROVE \A s \in 2 .. size : cache'[s].host = cache[s].host
    BY Zenon, <2>2
  <2>3. QED
    BY Zenon, <1>1, <2>1, <2>2 DEF DnsNext, Resolve, DnsTick, Call, Hit, Miss, Answer, NoAnswer,
      Return, cacheVars, dnsVars
<1>2. QED
  BY <1>1, DnsInvariance, PTL DEF DnsSpec, OnlyFirstEvicted

=============================================================================
