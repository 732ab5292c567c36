------------------------ MODULE EngineLifecycle_proofs ------------------------
(***************************************************************************)
(* The life of an engine and of the threads that use it, proved for any    *)
(* number of VCLs, modules, workers and timers, and any limits.            *)
(***************************************************************************)
EXTENDS EngineLifecycle, TLAPS

Loading == {"link", "filter", "init", "warm"}
Tearing == {"timers", "pools", "epoch", "join", "delete"}

\* The engine of v is being destroyed.
Torn(v) == cli.at \in Tearing /\ cli.v = v

\* The CLI thread works on a VCL whose engine exists; the one it tears down is
\* out of the registry and has no filter.
Events ==
  /\ cli.at # "idle" => cli.v \in Vcls /\ engine[cli.v] = "live"
  /\ cli.at \in Loading => vcl[cli.v] = "loading"
  /\ cli.at \in Tearing => /\ vcl[cli.v] \in {"loading", "ready"}
                           /\ cli.v \notin registry \cup filters
                           /\ cli.i \in 1 .. MaxModules + 1
  /\ cli.at = "link" => cli.v \notin registry
  /\ cli.at \in {"link", "filter"} => cli.v \notin filters
  /\ cli.at = "warm" => cli.i \in Index /\ made[cli.v][cli.i] > 0

\* The engine's state is that of its VCL, and only a VCL between its load and
\* its discard is registered.
Engines ==
  \A v \in Vcls :
    /\ vcl[v] = "new" <=> engine[v] = None
    /\ vcl[v] = "gone" <=> engine[v] = "deleted"
    /\ vcl[v] \in {"new", "gone"} => v \notin registry \cup filters
    /\ vcl[v] = "loading" => cli.at # "idle" /\ cli.v = v

\* The VCLs that requests use are ready and not torn down.
Requests ==
  /\ active # None => vcl[active] = "ready" /\ ~ Torn(active)
  /\ \A w \in Workers : req[w] # None => vcl[req[w]] = "ready" /\ ~ Torn(req[w])

\* What a VCL has allocated is what its engine points at, until it is destroyed;
\* a module whose pool is about to be made has none.
Pools ==
  \A v \in Vcls \ remade :
    /\ objects[v] \subseteq Owned(v)
    /\ \A i \in Index, n \in 1 .. MaxPools :
         made[v][i] = 0 \/ (cli.at = "warm" /\ cli.v = v /\ cli.i = i) =>
           <<"pool", i, n>> \notin objects[v] /\ <<"snapshot", i, n>> \notin objects[v]
    /\ vcl[v] = "gone" \/ (cli.at \in {"epoch", "join", "delete"} /\ cli.v = v) =>
         objects[v] = {}

\* The epoch thread has ended before the engine is deleted.
EpochEnds ==
  \A v \in Vcls : vcl[v] = "gone" \/ (cli.at = "delete" /\ cli.v = v) => epoch[v] = "done"

\* A timer in a slot or in the hands of a call serves the module it is found under.
Homes ==
  /\ \A t \in Timers : thread[t] = None <=> home[t] = <<None, 0>>
  /\ \A t \in freed \cup joined : thread[t] # None
  /\ \A v \in Vcls, i \in Index :
       tick_timers[v][i] # None => home[tick_timers[v][i]] = <<v, i>>
  /\ \A c \in Callers :
       /\ call[c].t # None <=> call[c].at \in {"wait", "publish"}
       /\ call[c].t # None => home[call[c].t] = <<call[c].v, call[c].i>>

At(c, v, i) == call[c].at # "none" /\ call[c].v = v /\ call[c].i = i

\* Who may be in a call that stops or sets a timer.
Calls ==
  \A c \in Callers : call[c].at # "none" =>
    /\ call[c].v \in Vcls /\ call[c].i \in Index
    /\ c \in Workers => req[c] = call[c].v
    /\ c = Cli => /\ cli.v = call[c].v
                  /\ \/ cli.at = "warm" /\ call[c].i = cli.i
                     \/ cli.at = "timers" /\ call[c].i = cli.i - 1 /\ ~ call[c].on
    /\ c \in Timers => /\ home[c] = <<call[c].v, call[c].i>> /\ home[c] \in raced
                       /\ thread[c] = "guest"
    /\ call[c].at \in {"create", "publish"} => call[c].on

\* Two callers at one timer race.
Alone ==
  \A c, d \in Callers, v \in Vcls, i \in Index :
    c # d /\ At(c, v, i) /\ At(d, v, i) => <<v, i>> \in raced

\* What a caller that is alone finds in the slot; nobody else has its new timer.
Found ==
  \A c \in Callers : call[c].at # "none" /\ <<call[c].v, call[c].i>> \notin raced =>
    /\ call[c].at = "join" => Slot(c) # None
    /\ call[c].at = "wait" => Slot(c) = call[c].t
    /\ call[c].at \in {"free", "clear"} => Slot(c) # None /\ Slot(c) \in joined
    /\ call[c].at \in {"create", "publish"} => Slot(c) = None
    /\ call[c].at = "publish" => call[c].t \notin joined \cup freed

\* A timer in its slot is joined and freed only by a call that is about to empty
\* the slot.
Kept ==
  \A v \in Vcls, i \in Index : <<v, i>> \notin raced /\ tick_timers[v][i] # None =>
    /\ tick_timers[v][i] \in joined =>
         \E c \in Callers : At(c, v, i) /\ call[c].at \in {"free", "clear"}
    /\ tick_timers[v][i] \in freed =>
         \E c \in Callers : At(c, v, i) /\ call[c].at = "clear"

\* Joined threads have ended, and so have those whose structure was freed.
Ended ==
  /\ \A t \in joined : thread[t] = "done"
  /\ \A t \in freed : home[t] \notin raced => thread[t] = "done"

\* A thread that lives is in its slot or about to be published.
Reached ==
  \A t \in Timers : Lives(t) /\ home[t] \notin raced =>
    \/ tick_timers[home[t][1]][home[t][2]] = t
    \/ \E c \in Callers : call[c].at = "publish" /\ call[c].t = t

\* The slots that engine_destroy has passed are empty, and stay so.
Passed(v, i) ==
  \/ vcl[v] = "gone"
  \/ /\ Torn(v)
     /\ cli.at = "timers" => i < cli.i /\ ~ At(Cli, v, i)
Emptied ==
  \A v \in Vcls, i \in Index :
    <<v, i>> \notin raced /\ Passed(v, i) => tick_timers[v][i] = None

NoFault == raced = {} => ~ fault

-----------------------------------------------------------------------------
\* The types of what the CLI thread and requests change, and of what timers change.
VclTypes ==
  /\ active \in Vcls \cup {None}
  /\ vcl \in [Vcls -> VclStates]
  /\ filters \subseteq Vcls /\ registry \subseteq Vcls
  /\ req \in [Workers -> Vcls \cup {None}]
  /\ cli \in [at : CliPoints, v : Vcls \cup {None}, i : 0 .. MaxModules + 1]
  /\ engine \in [Vcls -> {None, "live", "deleted"}]
  /\ modules \in [Vcls -> Seq(Modules)]
  /\ \A v \in Vcls : Len(modules[v]) <= MaxModules
  /\ remade \subseteq Vcls
  /\ made \in [Vcls -> [Index -> 0 .. MaxPools]]
  /\ warm_instances \in [Vcls -> [Index -> 0 .. MaxPools]]
  /\ pools \in [Vcls -> [Index -> 0 .. MaxPools]]
  /\ objects \in [Vcls -> SUBSET Objects]
  /\ http_pool \in [Vcls -> BOOLEAN] /\ epoch_running \in [Vcls -> BOOLEAN]
  /\ epoch \in [Vcls -> EpochPoints]

CallTypes == [at : CallPoints, v : Vcls \cup {None}, i : 0 .. MaxModules,
              on : BOOLEAN, t : Timers \cup {None}]

TimerTypes ==
  /\ tick_timers \in [Vcls -> [Index -> Timers \cup {None}]]
  /\ running \in [Timers -> BOOLEAN]
  /\ home \in [Timers -> (Vcls \X Index) \cup {<<None, 0>>}]
  /\ thread \in [Timers -> TimerPoints]
  /\ freed \subseteq Timers /\ joined \subseteq Timers
  /\ call \in [Callers -> CallTypes]
  /\ sets \in 0 .. MaxSets /\ raced \subseteq Vcls \X Index /\ fault \in BOOLEAN

\* The inductive invariant, in two parts.
VclInv == VclTypes /\ Events /\ Engines /\ Requests /\ Pools /\ EpochEnds
TimerInv ==
  /\ TimerTypes /\ Homes /\ Calls /\ Alone /\ Found /\ Kept /\ Ended /\ Reached
  /\ Emptied /\ NoFault
IInv == VclInv /\ TimerInv

\* The names of threads and VCLs are distinct.
LEMMA Distinct ==
  /\ None \notin Vcls /\ None \notin Timers /\ None \notin Workers
  /\ Cli \notin Workers /\ Cli \notin Timers
  /\ Cli \in Callers /\ Workers \subseteq Callers /\ Timers \subseteq Callers
  /\ \A c \in Callers : c = Cli \/ c \in Workers \/ c \in Timers
  /\ \A c \in Workers : c \notin Timers
  /\ MaxModules \in Nat /\ MaxPools \in Nat /\ MaxSets \in Nat
  /\ MaxModules >= 1 /\ 0 \in 0 .. MaxModules + 1 /\ 0 \in 0 .. MaxPools
BY EngineAssumption DEF Callers, None, Cli

\* Where the CLI thread is when it begins to destroy an engine.
LEMMA BeginDestroyType ==
  ASSUME NEW v \in Vcls, BeginDestroy(v)
  PROVE  cli' \in [at : CliPoints, v : Vcls \cup {None}, i : 0 .. MaxModules + 1]
<1>1. 1 \in 0 .. MaxModules + 1
  BY Distinct
<1>2. QED
  BY Zenon, <1>1 DEF BeginDestroy, CliPoints

\* The components of a pair.
LEMMA SamePair ==
  ASSUME NEW a, NEW b, NEW c, NEW d, <<a, b>> = <<c, d>> PROVE a = c /\ b = d
OBVIOUS

\* A function of two arguments that is changed at one place.
LEMMA Updates ==
  ASSUME NEW A, NEW B, NEW C, NEW f \in [A -> [B -> C]], NEW a \in A
  PROVE  /\ \A g \in [B -> C] : [f EXCEPT ![a] = g] \in [A -> [B -> C]]
         /\ \A b \in B, x \in C :
               /\ [f EXCEPT ![a][b] = x] \in [A -> [B -> C]]
               /\ [f EXCEPT ![a][b] = x][a] = [f[a] EXCEPT ![b] = x]
OBVIOUS

\* The end of a call.
LEMMA NoCallType == NoCall \in CallTypes /\ NoCall.at = "none" /\ NoCall.t = None
BY Distinct DEF NoCall, CallTypes, CallPoints

\* The type of the CLI thread's place, which most steps need.
LEMMA CliType ==
  ASSUME IInv
  PROVE  /\ cli \in [at : CliPoints, v : Vcls \cup {None}, i : 0 .. MaxModules + 1]
         /\ vcl \in [Vcls -> VclStates]
BY Zenon DEF IInv, VclInv, VclTypes

-----------------------------------------------------------------------------
(* Steps that leave one of the parts alone *)

\* What the timers' part does not mention may change.
LEMMA VclStep ==
  ASSUME IInv, VclInv', UNCHANGED timerVars,
         cli' = cli \/ call[Cli].at = "none",
         \A w \in Workers : call[w].at # "none" => req'[w] = req[w],
         \A v \in Vcls, i \in Index : Passed(v, i)' => Passed(v, i)
  PROVE  IInv'
<1> USE DEF timerVars
<1>1. TimerTypes' /\ Homes' /\ Ended' /\ NoFault'
  BY DEF IInv, TimerInv, TimerTypes, Homes, Ended, NoFault
<1>2. Alone'
  BY DEF IInv, TimerInv, Alone, At
<1>3. Found'
  BY Zenon DEF IInv, TimerInv, Found, Slot
<1>4. Kept'
  BY DEF IInv, TimerInv, Kept, At
<1>5. Reached'
  BY Zenon DEF IInv, TimerInv, Reached, Lives
<1>6. Emptied'
  BY Zenon DEF IInv, TimerInv, Emptied
<1>7. Calls'
  BY Distinct DEF IInv, TimerInv, Calls
<1>8. QED
  BY ZenonT(40), <1>1, <1>2, <1>3, <1>4, <1>5, <1>6, <1>7 DEF IInv, TimerInv

\* The CLI thread's part mentions no timer.
LEMMA TimerStepKeeps ==
  ASSUME IInv, UNCHANGED <<vclVars, registry, cli, engineVars, epochVars>>
  PROVE  VclInv'
<1> USE DEF vclVars, engineVars, poolVars, epochVars
<1>1. VclTypes' /\ Events' /\ Engines' /\ Requests' /\ EpochEnds'
  BY DEF IInv, VclInv, VclTypes, Events, Engines, Requests, EpochEnds, Torn
<1>2. Pools'
  BY DEF IInv, VclInv, Pools, Owned
<1>3. QED
  BY ZenonT(40), <1>1, <1>2 DEF VclInv

\* A timer's thread goes on: it does not come to life, and does not move while its
\* guest code is in a call.
LEMMA ThreadStep ==
  ASSUME IInv, VclInv',
         UNCHANGED <<cli, req, vcl, tick_timers, home, freed, joined, call, sets, raced>>,
         thread' \in [Timers -> TimerPoints],
         running' \in [Timers -> BOOLEAN],
         fault' \in BOOLEAN,
         raced = {} => ~ fault',
         \A t \in Timers : /\ thread'[t] = None <=> thread[t] = None
                           /\ thread[t] = "done" => thread'[t] = "done"
                           /\ call[t].at # "none" => thread'[t] = thread[t]
  PROVE  IInv'
<1>1. TimerTypes' /\ NoFault'
  BY ZenonT(40) DEF IInv, TimerInv, TimerTypes, NoFault
<1>2. Homes'
  BY DEF IInv, TimerInv, TimerTypes, Homes
<1>3. Alone'
  BY DEF IInv, TimerInv, Alone, At
<1>4. Found'
  BY Zenon DEF IInv, TimerInv, Found, Slot
<1>5. Kept'
  BY DEF IInv, TimerInv, Kept, At
<1>6. Ended'
  BY Zenon DEF IInv, TimerInv, TimerTypes, Ended
<1>7. Reached'
  BY DEF IInv, TimerInv, Reached, Lives
<1>8. Emptied'
  BY ZenonT(40) DEF IInv, TimerInv, Emptied, Passed, Torn, At
<1>9. Calls'
  BY Distinct DEF IInv, TimerInv, Calls
<1>10. QED
  BY Zenon, <1>1, <1>2, <1>3, <1>4, <1>5, <1>6, <1>7, <1>8, <1>9 DEF IInv, TimerInv

-----------------------------------------------------------------------------
(* The CLI thread and requests *)

\* A module whose VCL has no engine step in progress has no warm-up either.
LEMMA CliCalls ==
  ASSUME IInv, cli.at \notin {"warm", "timers"}
  PROVE  call[Cli].at = "none"
BY Zenon, Distinct DEF IInv, TimerInv, Calls

LEMMA EngineNewInv == ASSUME IInv, NEW v \in Vcls, EngineNew(v) PROVE IInv'
<1> USE DEF EngineNew, poolVars
<1>1. VclTypes'
  BY Distinct DEF IInv, VclInv, VclTypes, VclStates, CliPoints, EpochPoints
<1>2. Events' /\ Engines'
  BY Distinct DEF IInv, VclInv, VclTypes, Events, Engines, Loading, Tearing, None
<1>3. Requests'
  BY ZenonT(40), Distinct DEF IInv, VclInv, VclTypes, Requests, Torn, Tearing
<1>4. Pools'
  BY SMTT(30) DEF IInv, VclInv, VclTypes, Pools, Owned
<1>5. EpochEnds'
  BY Zenon DEF IInv, VclInv, VclTypes, EpochEnds
<1>6. call[Cli].at = "none"
  BY Zenon, CliCalls
<1>7. \A u \in Vcls, i \in Index : Passed(u, i)' => Passed(u, i)
  BY Zenon DEF Passed, Torn, Tearing, IInv, VclInv, VclTypes
<1>8. QED
  BY ZenonT(40), <1>1, <1>2, <1>3, <1>4, <1>5, <1>6, <1>7, VclStep DEF VclInv

\* The CLI thread goes from one step of an event to the next.
LEMMA CliMoves ==
  ASSUME IInv, UNCHANGED <<active, vcl, req, engine, epoch, timerVars>>,
         VclTypes', Events', Pools',
         cli.at # "idle" => cli'.at # "idle" /\ cli'.v = cli.v,
         \A u \in (registry' \cup filters') \ (registry \cup filters) :
            cli.at # "idle" /\ u = cli.v,
         cli'.at \in Tearing =>
            \/ Torn(cli'.v)
            \/ vcl[cli'.v] = "loading"
            \/ cli'.v # active /\ \A w \in Workers : req[w] # cli'.v,
         cli'.at = "delete" => epoch[cli'.v] = "done",
         call[Cli].at = "none",
         \A u \in Vcls, i \in Index : Passed(u, i)' => Passed(u, i)
  PROVE  IInv'
<1>1. Engines'
  <2>1. cli.at # "idle" => vcl[cli.v] \in {"loading", "ready"} /\ cli.v \in Vcls
    BY Zenon, CliType DEF IInv, VclInv, Events, Loading, Tearing, CliPoints
  <2>2. QED
    BY ZenonT(40), <2>1 DEF IInv, VclInv, Engines
<1>2. Requests'
  BY Distinct DEF IInv, VclInv, VclTypes, Requests, Torn
<1>3. EpochEnds'
  BY Zenon DEF IInv, VclInv, EpochEnds
<1>4. QED
  BY Zenon, <1>1, <1>2, <1>3, VclStep DEF VclInv

\* What is allocated does not change, no warm-up begins, and no tear-down gets past
\* the pools.
LEMMA PoolsKept ==
  ASSUME IInv, UNCHANGED <<vcl, poolVars>>,
         cli'.at # "warm" \/ cli' = cli,
         cli'.at \in {"epoch", "join", "delete"} =>
            cli.at \in {"epoch", "join", "delete"} /\ cli'.v = cli.v
  PROVE  Pools'
BY DEF IInv, VclInv, Pools, Owned, poolVars

\* When the tear-down of an engine begins no slot has been passed.
LEMMA TearDownBegins ==
  ASSUME NEW v \in Vcls, cli' = [at |-> "timers", v |-> v, i |-> 1], vcl' = vcl
  PROVE  \A u \in Vcls, i \in Index : Passed(u, i)' => Passed(u, i)
BY Distinct DEF Passed, Torn, Tearing, Index

LEMMA LoadInv == ASSUME IInv, LoadStep PROVE IInv'
<1> USE DEF Goto, BeginDestroy, vclVars, engineVars, poolVars, epochVars
<1>0. call[Cli].at = "none" /\ cli.v \in Vcls
  BY Zenon, CliCalls DEF LoadStep, Link, AddFilter, AddFilterFails, IInv, VclInv, Events
<1>1. CASE Link
  <2>0. /\ cli.v \notin registry /\ registry' = registry \cup {cli.v}
        /\ cli' = [cli EXCEPT !.at = "filter"]
    BY Zenon, <1>1 DEF Link, IInv, VclInv, Events
  <2>1. VclTypes'
    BY Zenon, <1>0, <1>1, <2>0 DEF Link, IInv, VclInv, VclTypes, CliPoints
  <2>2. Events'
    BY Zenon, <1>1, <1>0, <2>0 DEF Link, IInv, VclInv, VclTypes, Events, Loading, Tearing
  <2>3. Pools'
    BY Zenon, <1>1, <2>0, PoolsKept DEF Link, IInv, VclInv, VclTypes
  <2>4. \A u \in Vcls, i \in Index : Passed(u, i)' => Passed(u, i)
    BY Zenon, <1>1, <1>0, <2>0 DEF Link, IInv, VclInv, VclTypes, Passed, Torn, Tearing
  <2>5. QED
    BY ZenonT(40), <1>1, <1>0, <2>0, <2>1, <2>2, <2>3, <2>4, CliMoves
       DEF Link, IInv, VclInv, VclTypes, Tearing
<1>2. CASE AddFilter
  <2>1. VclTypes'
    BY Zenon, <1>0, <1>2 DEF AddFilter, IInv, VclInv, VclTypes, CliPoints
  <2>2. Events'
    BY Zenon, <1>2, <1>0 DEF AddFilter, IInv, VclInv, VclTypes, Events, Loading, Tearing
  <2>3. Pools'
    BY Zenon, <1>2, PoolsKept DEF AddFilter, IInv, VclInv, VclTypes
  <2>4. \A u \in Vcls, i \in Index : Passed(u, i)' => Passed(u, i)
    BY Zenon, <1>2, <1>0 DEF AddFilter, IInv, VclInv, VclTypes, Passed, Torn, Tearing
  <2>5. QED
    BY ZenonT(40), <1>2, <1>0, <2>1, <2>2, <2>3, <2>4, CliMoves
       DEF AddFilter, IInv, VclInv, VclTypes, Tearing
<1>3. CASE AddFilterFails
  <2>1. VclTypes'
    BY SMTT(30), <1>0, <1>3, Distinct DEF AddFilterFails, IInv, VclInv, VclTypes, CliPoints
  <2>2. Events'
    BY <1>3, <1>0, Distinct DEF AddFilterFails, IInv, VclInv, VclTypes, Events, Loading, Tearing
  <2>3. Pools'
    BY Zenon, <1>3, PoolsKept DEF AddFilterFails
  <2>4. \A u \in Vcls, i \in Index : Passed(u, i)' => Passed(u, i)
    BY ZenonT(60), <1>0, <1>3, TearDownBegins DEF AddFilterFails
  <2>5. QED
    BY ZenonT(40), <1>3, <1>0, <2>1, <2>2, <2>3, <2>4, CliMoves
       DEF AddFilterFails, IInv, VclInv, VclTypes, Events, Loading
<1>4. QED
  BY Zenon, <1>1, <1>2, <1>3 DEF LoadStep

\* An event that tears down an engine: of the VCL in hand when its load failed.
LEMMA DiscardInv ==
  ASSUME IInv, NEW v \in Vcls, DiscardEvent(v),
         \/ cli.at \in {"init", "warm"} /\ cli.v = v /\ call[Cli].at = "none"
         \/ Discard(v),
         UNCHANGED <<active, vcl, req, engine, epoch, timerVars>>,
         VclTypes', Pools'
  PROVE  IInv'
<1> USE DEF DiscardEvent, BeginDestroy, Discard
<1>1. call[Cli].at = "none"
  BY Zenon, CliCalls
<1>2. /\ engine[v] = "live" /\ vcl[v] \in {"loading", "ready"}
      /\ cli' = [at |-> "timers", v |-> v, i |-> 1]
  <2>1. engine[v] \in {None, "live", "deleted"}
    BY Zenon DEF IInv, VclInv, VclTypes
  <2>2. CASE cli.at \in {"init", "warm"} /\ cli.v = v
    BY Zenon, <2>2 DEF IInv, VclInv, Events, Loading
  <2>3. CASE vcl[v] = "ready"
    BY ZenonT(40), <2>1, <2>3 DEF IInv, VclInv, Engines
  <2>4. QED
    BY Zenon, <2>2, <2>3
<1>3. Events'
  BY <1>2, Distinct DEF Events, Loading, Tearing
<1>4. \A u \in Vcls, i \in Index : Passed(u, i)' => Passed(u, i)
  BY Zenon, TearDownBegins
<1>5. QED
  BY <1>1, <1>2, <1>3, <1>4, CliMoves DEF IInv, VclInv, Events, Loading

-----------------------------------------------------------------------------
(* vcl_init *)

LEMMA InitFailsInv == ASSUME IInv, InitFails \/ WarmUpFails PROVE IInv'
<1> USE DEF InitFails, WarmUpFails, InInit, WarmedUp, engineVars, poolVars, epochVars
<1>1. /\ cli.v \in Vcls /\ cli.at \in {"init", "warm"} /\ call[Cli].at = "none"
      /\ DiscardEvent(cli.v)
  BY ZenonT(40), CliCalls DEF IInv, VclInv, Events
<1>2. VclTypes'
  BY SMTT(30), <1>1, Distinct DEF DiscardEvent, BeginDestroy, IInv, VclInv, VclTypes, CliPoints
<1>3. Pools'
  BY Zenon, <1>1, PoolsKept DEF DiscardEvent, BeginDestroy
<1>4. QED
  BY Zenon, <1>1, <1>2, <1>3, DiscardInv

LEMMA LoadModuleInv == ASSUME IInv, NEW m \in Modules, LoadModule(m) PROVE IInv'
<1> USE DEF LoadModule, InInit, vclVars, poolVars, epochVars
<1>1. cli.v \in Vcls
  BY Zenon DEF IInv, VclInv, Events
<1>2. modules' \in [Vcls -> Seq(Modules)] /\ \A v \in Vcls : Len(modules'[v]) <= MaxModules
  BY SMTT(30), <1>1, Distinct DEF CanLoad, IInv, VclInv, VclTypes
<1>3. VclTypes' /\ Events' /\ Engines' /\ Requests' /\ EpochEnds'
  BY <1>2 DEF IInv, VclInv, VclTypes, Events, Engines, Requests, EpochEnds, Torn
<1>4. Pools'
  BY Zenon, PoolsKept
<1>5. \A u \in Vcls, i \in Index : Passed(u, i)' => Passed(u, i)
  BY Zenon DEF Passed, Torn, timerVars, At
<1>6. QED
  BY Zenon, <1>3, <1>4, <1>5, VclStep DEF VclInv

LEMMA WarmUpInv == ASSUME IInv, NEW i \in Index, WarmUp(i) PROVE IInv'
<1> USE DEF WarmUp, InInit, vclVars, epochVars
<1>1. cli.v \in Vcls /\ call[Cli].at = "none"
  BY Zenon, CliCalls DEF IInv, VclInv, Events
<1>2. VclTypes'
  <2>0. /\ made \in [Vcls -> [Index -> 0 .. MaxPools]]
        /\ warm_instances \in [Vcls -> [Index -> 0 .. MaxPools]]
    BY ZenonT(60) DEF IInv, VclInv, VclTypes
  <2>a. made[cli.v][i] + 1 \in 0 .. MaxPools /\ 0 \in 0 .. MaxPools
    <3>1. made[cli.v][i] < MaxPools
      BY Zenon
    <3> HIDE DEF WarmUp
    <3>2. QED
      BY <1>1, <2>0, <3>1, Distinct
  <2>1. made' \in [Vcls -> [Index -> 0 .. MaxPools]]
    BY ZenonT(60), <1>1, <2>0, <2>a, Updates
  <2>2. warm_instances' \in [Vcls -> [Index -> 0 .. MaxPools]]
    BY ZenonT(60), <1>1, <2>0, <2>a, Updates
  <2>3. cli' \in [at : CliPoints, v : Vcls \cup {None}, i : 0 .. MaxModules + 1]
    <3>1. i \in 0 .. MaxModules + 1
      BY Distinct DEF Index
    <3>2. QED
      BY Zenon, <1>1, <3>1 DEF IInv, VclInv, VclTypes, CliPoints
  <2>4. QED
    BY Zenon, <1>1, <2>1, <2>2, <2>3 DEF IInv, VclInv, VclTypes
<1>3. Events'
  BY <1>1 DEF IInv, VclInv, VclTypes, Events, Loading, Tearing
<1>4. Pools'
  <2> SUFFICES ASSUME NEW v \in Vcls, v \notin remade'
               PROVE  /\ objects[v] \subseteq Owned(v)'
                      /\ \A j \in Index, n \in 1 .. MaxPools :
                           made'[v][j] = 0 \/ (v = cli.v /\ j = i) =>
                             /\ <<"pool", j, n>> \notin objects[v]
                             /\ <<"snapshot", j, n>> \notin objects[v]
                      /\ vcl[v] = "gone" => objects[v] = {}
    <3>1. cli'.at = "warm" /\ cli'.v = cli.v /\ cli'.i = i
      BY Zenon, CliType
    <3>2. QED
      BY <3>1 DEF Pools
  <2>1. /\ v \notin remade
        /\ v = cli.v => made[v][i] = 0
        /\ \A j \in Index : made'[v][j] = 0 => made[v][j] = 0
        /\ \A j \in Index : v # cli.v \/ j # i => warm_instances'[v][j] = warm_instances[v][j]
    <3>1. /\ made \in [Vcls -> [Index -> 0 .. MaxPools]]
          /\ warm_instances \in [Vcls -> [Index -> 0 .. MaxPools]]
      BY Zenon DEF IInv, VclInv, VclTypes
    <3>2. /\ made' = [made EXCEPT ![cli.v][i] = made[cli.v][i] + 1]
          /\ remade' = IF made[cli.v][i] = 0 THEN remade ELSE remade \cup {cli.v}
          /\ warm_instances' = [warm_instances EXCEPT ![cli.v][i] = 0]
      BY Zenon
    <3> HIDE DEF WarmUp
    <3>3. v \notin remade /\ (v = cli.v => made[v][i] = 0)
      BY Zenon, <3>2
    <3>4. \A j \in Index : made'[v][j] = 0 => made[v][j] = 0
      BY SMTT(30), <1>1, <3>1, <3>2
    <3>5. \A j \in Index : v # cli.v \/ j # i => warm_instances'[v][j] = warm_instances[v][j]
      BY <1>1, <3>1, <3>2
    <3>6. QED
      BY Zenon, <3>3, <3>4, <3>5
  <2>2. objects[v] \subseteq Owned(v)'
    <3> SUFFICES ASSUME NEW o \in objects[v] PROVE o \in Owned(v)'
      OBVIOUS
    <3>1. o \in Owned(v) /\ o \in Objects
      BY Zenon, <2>1 DEF IInv, VclInv, VclTypes, Pools
    <3>2. ASSUME NEW j \in Index, o = <<"snapshot", j, warm_instances[v][j]>>
          PROVE  o \in Owned(v)'
      <4>1. v # cli.v \/ j # i
        <5>1. warm_instances[v][j] \in 1 .. MaxPools
          BY Zenon, <3>1, <3>2 DEF Objects
        <5>2. QED
          BY Zenon, <2>1, <3>2, <5>1 DEF IInv, VclInv, Pools
      <4>2. QED
        BY Zenon, <2>1, <3>2, <4>1 DEF Owned
    <3>3. QED
      BY Zenon, <3>1, <3>2 DEF Owned
  <2>3. QED
    BY ZenonT(40), <2>1, <2>2 DEF IInv, VclInv, Pools
<1>5. \A u \in Vcls, j \in Index : Passed(u, j)' => Passed(u, j)
  BY Zenon, CliType DEF Passed, Torn, Tearing
<1>6. QED
  BY Zenon, <1>1, <1>2, <1>3, <1>4, <1>5, CliMoves DEF IInv, VclInv, VclTypes, Tearing

LEMMA WarmUpReactorInv == ASSUME IInv, WarmUpReactor PROVE IInv'
<1> USE DEF WarmUpReactor, WarmedUp, Goto, vclVars, engineVars, poolVars, epochVars
<1>1. cli.v \in Vcls
  BY Zenon DEF IInv, VclInv, Events
<1>2. VclTypes'
  BY Zenon, <1>1 DEF IInv, VclInv, VclTypes, CliPoints
<1>3. Events'
  BY Zenon, <1>1 DEF IInv, VclInv, VclTypes, Events, Loading, Tearing
<1>4. Pools'
  BY Zenon, PoolsKept DEF IInv, VclInv, VclTypes
<1>5. \A u \in Vcls, j \in Index : Passed(u, j)' => Passed(u, j)
  BY Zenon, CliType DEF Passed, Torn, Tearing
<1>6. QED
  BY ZenonT(40), <1>1, <1>2, <1>3, <1>4, <1>5, CliMoves DEF IInv, VclInv, VclTypes, Tearing

\* A pool is made of the snapshot, for a module that had none.
LEMMA PoolNewInv == ASSUME IInv, PoolNew PROVE IInv'
<1> DEFINE i == cli.i
           n == made[cli.v][i]
<1> USE DEF PoolNew, WarmedUp, Goto, vclVars, epochVars
<1>1. /\ cli.v \in Vcls /\ i \in Index /\ n \in 1 .. MaxPools
      /\ cli.at = "warm" /\ call[Cli].at = "none"
  <2>1. /\ cli.v \in Vcls /\ cli.i \in Index /\ made[cli.v][cli.i] > 0
        /\ cli.at = "warm" /\ call[Cli].at = "none"
    BY Zenon DEF IInv, VclInv, Events
  <2>2. made \in [Vcls -> [Index -> 0 .. MaxPools]]
    BY Zenon DEF IInv, VclInv, VclTypes
  <2> HIDE DEF PoolNew
  <2>3. QED
    BY <2>1, <2>2, Distinct
<1>2. VclTypes'
  <2>0. /\ pools \in [Vcls -> [Index -> 0 .. MaxPools]]
        /\ warm_instances \in [Vcls -> [Index -> 0 .. MaxPools]]
    BY Zenon DEF IInv, VclInv, VclTypes
  <2>a. n \in 0 .. MaxPools
    <3> HIDE DEF PoolNew
    <3>1. QED
      BY <1>1, Distinct
  <2>1. pools' \in [Vcls -> [Index -> 0 .. MaxPools]]
    BY ZenonT(60), <1>1, <2>0, <2>a, Updates
  <2>2. warm_instances' \in [Vcls -> [Index -> 0 .. MaxPools]]
    BY ZenonT(60), <1>1, <2>0, <2>a, Updates
  <2>3. objects' \in [Vcls -> SUBSET Objects]
    <3>1. objects' = [objects EXCEPT ![cli.v] = @ \cup {<<"snapshot", i, n>>, <<"pool", i, n>>}]
      BY Zenon
    <3>2. objects \in [Vcls -> SUBSET Objects]
      BY Zenon DEF IInv, VclInv, VclTypes
    <3>3. {<<"snapshot", i, n>>, <<"pool", i, n>>} \subseteq Objects
      <4> HIDE DEF PoolNew
      <4>1. QED
        BY <1>1, <2>a DEF Objects
    <3>4. QED
      BY ZenonT(60), <1>1, <3>1, <3>2, <3>3
  <2>4. QED
    BY Zenon, <1>1, <2>1, <2>2, <2>3 DEF IInv, VclInv, VclTypes, CliPoints
<1>3. Events'
  BY Zenon, <1>1 DEF IInv, VclInv, VclTypes, Events, Loading, Tearing
<1>4. Pools'
  <2> DEFINE new == {<<"snapshot", i, n>>, <<"pool", i, n>>}
  <2> SUFFICES ASSUME NEW v \in Vcls, v \notin remade
               PROVE  /\ objects'[v] \subseteq Owned(v)'
                      /\ \A j \in Index, k \in 1 .. MaxPools : made[v][j] = 0 =>
                             /\ <<"pool", j, k>> \notin objects'[v]
                             /\ <<"snapshot", j, k>> \notin objects'[v]
                      /\ vcl[v] = "gone" => objects'[v] = {}
    BY ZenonT(40), <1>1 DEF IInv, VclInv, VclTypes, Pools
  <2>1. CASE v # cli.v
    <3>1. objects'[v] = objects[v] /\ Owned(v)' = Owned(v)
      BY <1>1, <2>1 DEF IInv, VclInv, VclTypes, Owned
    <3>2. QED
      BY Zenon, <3>1 DEF IInv, VclInv, Pools
  <2>2. CASE v = cli.v
    <3>1. /\ pools'[v] = [pools[v] EXCEPT ![i] = n]
          /\ warm_instances'[v] = [warm_instances[v] EXCEPT ![i] = n]
          /\ objects'[v] = objects[v] \cup new
      BY ZenonT(60), <1>1, <2>2 DEF IInv, VclInv, VclTypes
    <3>2. new \subseteq Owned(v)'
      <4>1. pools'[v][i] = n /\ warm_instances'[v][i] = n
        <5>1. pools[v] \in [Index -> 0 .. MaxPools] /\ warm_instances[v] \in [Index -> 0 .. MaxPools]
          BY Zenon DEF IInv, VclInv, VclTypes
        <5> HIDE DEF PoolNew, i, n
        <5>2. QED
          BY <1>1, <3>1, <5>1
      <4>2. QED
        BY <1>1, <4>1 DEF Owned
    <3>3. ASSUME NEW o \in objects[v] PROVE o \in Owned(v)'
      <4>1. o \in Owned(v) /\ o \in Objects
        BY Zenon DEF IInv, VclInv, VclTypes, Pools
      <4>2. ASSUME NEW j \in Index, o = <<"pool", j, pools[v][j]>> PROVE o \in Owned(v)'
        <5>1. pools[v][j] \in 1 .. MaxPools
          BY Zenon, <4>1, <4>2 DEF Objects
        <5>2. j # i
          BY ZenonT(40), <1>1, <2>2, <4>2, <5>1 DEF IInv, VclInv, Pools
        <5>3. pools'[v][j] = pools[v][j]
          BY <2>2, <3>1, <5>2 DEF IInv, VclInv, VclTypes
        <5>4. QED
          BY Zenon, <4>2, <5>3 DEF Owned
      <4>3. ASSUME NEW j \in Index, o = <<"snapshot", j, warm_instances[v][j]>>
            PROVE  o \in Owned(v)'
        <5>1. warm_instances[v][j] \in 1 .. MaxPools
          BY Zenon, <4>1, <4>3 DEF Objects
        <5>2. j # i
          BY ZenonT(40), <1>1, <2>2, <4>3, <5>1 DEF IInv, VclInv, Pools
        <5>3. warm_instances'[v][j] = warm_instances[v][j]
          BY <2>2, <3>1, <5>2 DEF IInv, VclInv, VclTypes
        <5>4. QED
          BY Zenon, <4>3, <5>3 DEF Owned
      <4>4. QED
        BY Zenon, <4>1, <4>2, <4>3 DEF Owned
    <3>4. ASSUME NEW j \in Index, NEW k \in 1 .. MaxPools, made[v][j] = 0
          PROVE  <<"pool", j, k>> \notin objects'[v] /\ <<"snapshot", j, k>> \notin objects'[v]
      <4>1. j # i
        BY <1>1, <2>2, <3>4
      <4>2. QED
        BY ZenonT(60), <3>1, <3>4, <4>1 DEF IInv, VclInv, Pools
    <3>5. vcl[v] # "gone"
      BY Zenon, <1>1, <2>2 DEF IInv, VclInv, Events, Loading
    <3>6. QED
      BY Zenon, <3>1, <3>2, <3>3, <3>4, <3>5
  <2>3. QED
    BY Zenon, <2>1, <2>2
<1>5. \A u \in Vcls, j \in Index : Passed(u, j)' => Passed(u, j)
  BY Zenon, CliType DEF Passed, Torn, Tearing
<1>6. QED
  BY ZenonT(40), <1>1, <1>2, <1>3, <1>4, <1>5, CliMoves DEF IInv, VclInv, VclTypes, Tearing

LEMMA PoolNewFailsInv == ASSUME IInv, PoolNewFails PROVE IInv'
<1> USE DEF PoolNewFails, WarmedUp, epochVars
<1>1. /\ cli.v \in Vcls /\ cli.i \in Index
      /\ cli.at = "warm" /\ call[Cli].at = "none"
  BY Zenon DEF IInv, VclInv, Events
<1>2. VclTypes'
  <2>1. pools' \in [Vcls -> [Index -> 0 .. MaxPools]]
    BY SMTT(30), <1>1, Distinct DEF IInv, VclInv, VclTypes
  <2>2. cli' \in [at : CliPoints, v : Vcls \cup {None}, i : 0 .. MaxModules + 1]
    BY Zenon, <1>1, BeginDestroyType DEF DiscardEvent
  <2>3. QED
    BY ZenonT(40), <1>1, <2>1, <2>2 DEF DiscardEvent, IInv, VclInv, VclTypes
<1>3. Pools'
  <2> SUFFICES ASSUME NEW v \in Vcls, v \notin remade PROVE objects[v] \subseteq Owned(v)'
    BY Zenon, <1>1 DEF DiscardEvent, BeginDestroy, IInv, VclInv, VclTypes, Pools
  <2> SUFFICES ASSUME NEW o \in objects[v] PROVE o \in Owned(v)'
    OBVIOUS
  <2>1. o \in Owned(v) /\ o \in Objects
    BY Zenon DEF IInv, VclInv, VclTypes, Pools
  <2>2. ASSUME NEW j \in Index, o = <<"pool", j, pools[v][j]>> PROVE o \in Owned(v)'
    <3>1. pools[v][j] \in 1 .. MaxPools
      BY Zenon, <2>1, <2>2 DEF Objects
    <3>2. v # cli.v \/ j # cli.i
      BY ZenonT(60), <1>1, <2>2, <3>1 DEF IInv, VclInv, Pools
    <3>3. pools'[v][j] = pools[v][j]
      BY <3>2 DEF IInv, VclInv, VclTypes
    <3>4. QED
      BY Zenon, <2>2, <3>3 DEF Owned
  <2>3. QED
    BY Zenon, <2>1, <2>2 DEF Owned
<1>4. QED
  BY Zenon, <1>1, <1>2, <1>3, DiscardInv

LEMMA HttpPoolInv == ASSUME IInv, HttpPoolNew \/ HttpPoolNewFails PROVE IInv'
<1> USE DEF InInit, vclVars, epochVars
<1>0. cli.v \in Vcls /\ call[Cli].at = "none" /\ cli.at = "init"
  BY Zenon, CliCalls DEF HttpPoolNew, HttpPoolNewFails, IInv, VclInv, Events
<1>1. CASE HttpPoolNew
  <2> USE DEF HttpPoolNew
  <2>1. VclTypes'
    <3>1. objects' \in [Vcls -> SUBSET Objects]
      BY Zenon, <1>0, <1>1 DEF IInv, VclInv, VclTypes, Objects
    <3>2. QED
      BY Zenon, <1>0, <1>1, <3>1 DEF IInv, VclInv, VclTypes
  <2>2. Pools'
    <3> SUFFICES ASSUME NEW v \in Vcls, v \notin remade
                 PROVE  /\ objects'[v] \subseteq Owned(v)'
                        /\ \A i \in Index, n \in 1 .. MaxPools : made[v][i] = 0 =>
                             /\ <<"pool", i, n>> \notin objects'[v]
                             /\ <<"snapshot", i, n>> \notin objects'[v]
                        /\ vcl[v] = "gone" => objects'[v] = {}
      BY Zenon, <1>0, <1>1 DEF Pools
    <3>1. CASE v # cli.v
      <4>1. objects'[v] = objects[v] /\ http_pool'[v] = http_pool[v]
        BY Zenon, <1>0, <1>1, <3>1 DEF IInv, VclInv, VclTypes
      <4>2. Owned(v)' = Owned(v)
        BY Zenon, <1>1, <4>1 DEF Owned
      <4>3. QED
        BY Zenon, <1>1, <4>1, <4>2 DEF IInv, VclInv, Pools
    <3>2. CASE v = cli.v
      <4>1. objects'[v] = objects[v] \cup {<<"http", 0, 0>>}
        BY ZenonT(40), <1>1, <3>2 DEF IInv, VclInv, VclTypes
      <4>2. Owned(v) \subseteq Owned(v)' /\ <<"http", 0, 0>> \in Owned(v)'
        BY <1>1, <3>2 DEF IInv, VclInv, VclTypes, Owned
      <4>3. \A i \in Index, n \in 1 .. MaxPools : made[v][i] = 0 =>
               <<"pool", i, n>> \notin objects'[v] /\ <<"snapshot", i, n>> \notin objects'[v]
        BY Zenon, <4>1 DEF IInv, VclInv, Pools
      <4>4. vcl[v] # "gone"
        BY Zenon, <1>0, <3>2 DEF IInv, VclInv, Events, Loading
      <4>5. QED
        BY Zenon, <4>1, <4>2, <4>3, <4>4 DEF IInv, VclInv, Pools
    <3>3. QED
      BY Zenon, <3>1, <3>2
  <2>3. Events'
    BY Zenon, <1>1 DEF IInv, VclInv, Events
  <2>4. \A u \in Vcls, i \in Index : Passed(u, i)' => Passed(u, i)
    BY Zenon, <1>1 DEF Passed, Torn, timerVars, At
  <2>5. QED
    BY ZenonT(40), <1>0, <1>1, <2>1, <2>2, <2>3, <2>4, CliMoves DEF Tearing
<1>2. CASE HttpPoolNewFails
  <2> USE DEF HttpPoolNewFails
  <2>1. VclTypes'
    <3>1. objects' \in [Vcls -> SUBSET Objects]
      BY Zenon, <1>0, <1>2 DEF IInv, VclInv, VclTypes
    <3>2. cli' \in [at : CliPoints, v : Vcls \cup {None}, i : 0 .. MaxModules + 1]
      BY Zenon, <1>0, <1>2, BeginDestroyType DEF DiscardEvent
    <3>3. QED
      BY Zenon, <1>0, <1>2, <3>1, <3>2 DEF DiscardEvent, IInv, VclInv, VclTypes
  <2>2. Pools'
    <3> SUFFICES ASSUME NEW v \in Vcls, v \notin remade
                 PROVE  objects'[v] \subseteq objects[v] /\ objects'[v] \subseteq Owned(v)'
      BY ZenonT(60), <1>0, <1>2 DEF DiscardEvent, BeginDestroy, IInv, VclInv, Pools
    <3>1. objects'[v] = IF v = cli.v THEN objects[v] \ {<<"http", 0, 0>>} ELSE objects[v]
      BY Zenon, <1>0, <1>2 DEF IInv, VclInv, VclTypes
    <3>2. Owned(v) \ {<<"http", 0, 0>>} \subseteq Owned(v)'
      BY ZenonT(40), <1>2 DEF Owned
    <3>3. v # cli.v => Owned(v)' = Owned(v)
      BY <1>2 DEF IInv, VclInv, VclTypes, Owned
    <3>4. QED
      BY ZenonT(60), <3>1, <3>2, <3>3 DEF IInv, VclInv, Pools
  <2>3. QED
    BY Zenon, <1>0, <1>2, <2>1, <2>2, DiscardInv
<1>3. QED
  BY Zenon, <1>1, <1>2

LEMMA InitDoneInv == ASSUME IInv, InitDone PROVE IInv'
<1> USE DEF InitDone, InInit, Idle, engineVars, poolVars, epochVars
<1>1. cli.v \in Vcls /\ call[Cli].at = "none" /\ vcl[cli.v] = "loading"
  BY Zenon, CliCalls DEF IInv, VclInv, Events, Loading
<1>2. VclTypes'
  <2>1. cli' \in [at : CliPoints, v : Vcls \cup {None}, i : 0 .. MaxModules + 1]
    BY Zenon, Distinct DEF CliPoints
  <2>2. vcl' \in [Vcls -> VclStates]
    BY Zenon, CliType DEF VclStates
  <2>3. QED
    BY Zenon, <2>1, <2>2 DEF IInv, VclInv, VclTypes
<1>3. Events' /\ Engines'
  BY ZenonT(40), <1>1 DEF IInv, VclInv, VclTypes, Events, Engines, Loading, Tearing
<1>4. Requests' /\ EpochEnds'
  <2>1. cli'.at = "idle"
    BY Zenon
  <2>2. /\ vcl'[cli.v] = "ready"
        /\ \A u \in Vcls \ {cli.v} : vcl'[u] = vcl[u]
    BY Zenon, <1>1, CliType
  <2>3. \A u \in Vcls : vcl[u] = "ready" => u # cli.v /\ vcl'[u] = "ready"
    BY Zenon, <1>1, <2>2
  <2>4. active \in Vcls \cup {None} /\ req \in [Workers -> Vcls \cup {None}]
    BY Zenon DEF IInv, VclInv, VclTypes
  <2>5. Requests'
    BY Zenon, <2>1, <2>3, <2>4 DEF IInv, VclInv, Requests, Torn, Tearing
  <2>6. EpochEnds'
    BY ZenonT(40), <2>1, <2>2 DEF IInv, VclInv, EpochEnds
  <2>7. QED
    BY Zenon, <2>5, <2>6
<1>5. Pools'
  BY <1>1 DEF IInv, VclInv, VclTypes, Pools, Owned
<1>6. \A u \in Vcls, i \in Index : Passed(u, i)' => Passed(u, i)
  BY Zenon, <1>1, CliType DEF Passed, Torn, Tearing
<1>7. QED
  BY ZenonT(40), <1>1, <1>2, <1>3, <1>4, <1>5, <1>6, VclStep DEF VclInv

LEMMA InitInv == ASSUME IInv, InitStep PROVE IInv'
BY ZenonT(40), InitFailsInv, LoadModuleInv, WarmUpInv, WarmUpReactorInv, PoolNewInv, PoolNewFailsInv,
   HttpPoolInv, InitDoneInv DEF InitStep

-----------------------------------------------------------------------------
(* vcl.use, requests, vcl.discard and the epoch thread *)

LEMMA UseInv ==
  ASSUME IInv, UseOther \/ \E v \in Vcls : Use(v) PROVE IInv'
<1> USE DEF UseOther, Use, engineVars, poolVars, epochVars
<1>1. VclTypes' /\ Events' /\ Engines' /\ EpochEnds'
  BY DEF IInv, VclInv, VclTypes, Events, Engines, EpochEnds
<1>2. Requests'
  BY Zenon DEF IInv, VclInv, Requests, Torn, Tearing
<1>3. Pools'
  BY Zenon, PoolsKept
<1>4. \A u \in Vcls, i \in Index : Passed(u, i)' => Passed(u, i)
  BY Zenon DEF Passed, Torn, timerVars, At
<1>5. QED
  BY ZenonT(60), <1>1, <1>2, <1>3, <1>4, VclStep DEF VclInv

LEMMA RequestInv ==
  ASSUME IInv, NEW w \in Workers, Request(w) \/ RequestEnds(w) PROVE IInv'
<1> USE DEF engineVars, poolVars, epochVars
<1>0. /\ UNCHANGED <<active, vcl, filters, registry, cli, engineVars, epochVars, timerVars>>
      /\ req[w] = None \/ call[w].at = "none"
  BY Zenon DEF Request, RequestEnds
<1>a. /\ req' \in [Workers -> Vcls \cup {None}]
      /\ req'[w] \in {None, active}
      /\ \A x \in Workers \ {w} : req'[x] = req[x]
  <2>1. req \in [Workers -> Vcls \cup {None}] /\ active \in Vcls \cup {None}
    BY Zenon DEF IInv, VclInv, VclTypes
  <2>2. QED
    BY Zenon, <2>1 DEF Request, RequestEnds
<1>1. VclTypes' /\ Events' /\ Engines' /\ EpochEnds'
  <2>1. VclTypes'
    BY Zenon, <1>0, <1>a DEF IInv, VclInv, VclTypes
  <2>2. Events' /\ Engines'
    BY Zenon, <1>0 DEF IInv, VclInv, Events, Engines
  <2>3. EpochEnds'
    BY Zenon, <1>0 DEF IInv, VclInv, EpochEnds
  <2>4. QED
    BY Zenon, <2>1, <2>2, <2>3
<1>2. Requests'
  BY Zenon, <1>0, <1>a DEF IInv, VclInv, Requests, Torn
<1>3. Pools'
  BY Zenon, <1>0, PoolsKept
<1>4. \A u \in Vcls, i \in Index : Passed(u, i)' => Passed(u, i)
  BY Zenon, <1>0 DEF Passed, Torn, timerVars, At
<1>5. call[w].at = "none"
  <2>1. call[w].at # "none" => req[w] = call[w].v /\ call[w].v \in Vcls
    BY Zenon, Distinct DEF IInv, TimerInv, Calls
  <2>2. QED
    BY Zenon, <1>0, <2>1, Distinct
<1>6. \A x \in Workers : call[x].at # "none" => req'[x] = req[x]
  BY Zenon, <1>5, <1>a
<1>7. QED
  BY Zenon, <1>0, <1>1, <1>2, <1>3, <1>4, <1>6, VclStep DEF VclInv

LEMMA DiscardedInv == ASSUME IInv, NEW v \in Vcls, Discard(v) PROVE IInv'
<1> USE DEF Discard, engineVars, poolVars, epochVars
<1>1. VclTypes'
  BY Distinct DEF DiscardEvent, BeginDestroy, IInv, VclInv, VclTypes, CliPoints
<1>2. Pools'
  BY Zenon, PoolsKept DEF DiscardEvent, BeginDestroy
<1>3. QED
  BY ZenonT(40), <1>1, <1>2, DiscardInv

LEMMA EpochTestInv == ASSUME IInv, NEW v \in Vcls, EpochTest(v) PROVE IInv'
<1> USE DEF EpochTest, vclVars, engineVars, poolVars
<1>1. VclTypes'
  BY ZenonT(40) DEF IInv, VclInv, VclTypes, EpochPoints
<1>2. Events' /\ Engines' /\ Requests'
  BY DEF IInv, VclInv, VclTypes, Events, Engines, Requests, Torn
<1>3. EpochEnds'
  BY Zenon DEF IInv, VclInv, VclTypes, EpochEnds
<1>4. Pools'
  BY Zenon, PoolsKept
<1>5. \A u \in Vcls, i \in Index : Passed(u, i)' => Passed(u, i)
  BY Zenon DEF Passed, Torn, timerVars, At
<1>6. QED
  BY Zenon, <1>1, <1>2, <1>3, <1>4, <1>5, VclStep DEF VclInv, vclVars

-----------------------------------------------------------------------------
(* vwasm_engine_destroy, after the timers *)

LEMMA TimersDestroyedInv == ASSUME IInv, TimersDestroyed PROVE IInv'
<1> USE DEF TimersDestroyed, Destroying, Goto, vclVars, engineVars, poolVars, epochVars
<1>1. cli.v \in Vcls /\ cli.at = "timers" /\ call[Cli].at = "none"
  BY Zenon DEF IInv, VclInv, Events
<1>2. VclTypes'
  BY Zenon, <1>1 DEF IInv, VclInv, VclTypes, CliPoints
<1>3. Events'
  BY Zenon, <1>1 DEF IInv, VclInv, VclTypes, Events, Loading, Tearing
<1>4. Pools'
  BY Zenon, <1>1, PoolsKept DEF IInv, VclInv, VclTypes
<1>5. \A u \in Vcls, i \in Index : Passed(u, i)' => Passed(u, i)
  <2> SUFFICES ASSUME NEW u \in Vcls, NEW i \in Index, Passed(u, i)' PROVE Passed(u, i)
    OBVIOUS
  <2>1. i < cli.i /\ ~ At(Cli, u, i)
    BY <1>1, Distinct DEF Index, At, IInv, VclInv, VclTypes
  <2>2. QED
    BY Zenon, <1>1, <2>1 DEF IInv, VclInv, VclTypes, Passed, Torn, Tearing
<1>6. QED
  BY ZenonT(40), <1>1, <1>2, <1>3, <1>4, <1>5, CliMoves DEF IInv, VclInv, VclTypes, Torn, Tearing

LEMMA DestroyPoolsInv == ASSUME IInv, DestroyPools PROVE IInv'
<1> USE DEF DestroyPools, Goto, vclVars, epochVars
<1>1. cli.v \in Vcls /\ cli.at = "pools" /\ call[Cli].at = "none"
  BY Zenon, CliCalls DEF IInv, VclInv, Events
<1>2. VclTypes'
  <2>1. /\ pools' \in [Vcls -> [Index -> 0 .. MaxPools]]
        /\ warm_instances' \in [Vcls -> [Index -> 0 .. MaxPools]]
    BY <1>1, Distinct DEF IInv, VclInv, VclTypes
  <2>2. objects' \in [Vcls -> SUBSET Objects]
    BY Zenon, <1>1 DEF IInv, VclInv, VclTypes
  <2>3. QED
    BY ZenonT(40), <1>1, <2>1, <2>2 DEF IInv, VclInv, VclTypes, CliPoints
<1>3. Events'
  BY Zenon, <1>1 DEF IInv, VclInv, VclTypes, Events, Loading, Tearing
<1>4. Pools'
  <2> SUFFICES ASSUME NEW v \in Vcls, v \notin remade
               PROVE  \/ v = cli.v /\ objects'[v] = {}
                      \/ v # cli.v /\ objects'[v] = objects[v] /\ Owned(v)' = Owned(v)
    BY <1>1 DEF IInv, VclInv, VclTypes, Pools
  <2>1. CASE v = cli.v
    <3>1. objects'[v] = objects[v] \ Owned(v)
      BY Zenon, <1>1, <2>1 DEF IInv, VclInv, VclTypes
    <3>2. objects[v] \subseteq Owned(v)
      BY Zenon DEF IInv, VclInv, Pools
    <3>3. QED
      BY Zenon, <2>1, <3>1, <3>2
  <2>2. CASE v # cli.v
    BY <1>1, <2>2 DEF IInv, VclInv, VclTypes, Owned
  <2>3. QED
    BY ZenonT(40), <2>1, <2>2
<1>5. \A u \in Vcls, i \in Index : Passed(u, i)' => Passed(u, i)
  BY Zenon, <1>1, CliType DEF Passed, Torn, Tearing
<1>6. QED
  BY ZenonT(40), <1>1, <1>2, <1>3, <1>4, <1>5, CliMoves DEF IInv, VclInv, VclTypes, Torn, Tearing

LEMMA EndEpochInv == ASSUME IInv, StopEpoch \/ JoinEpoch PROVE IInv'
<1> USE DEF StopEpoch, JoinEpoch, Goto, vclVars, engineVars, poolVars, epochVars
<1>1. cli.v \in Vcls /\ call[Cli].at = "none" /\ cli.at \in {"epoch", "join"}
  BY Zenon, CliCalls DEF IInv, VclInv, Events
<1>2. /\ cli' \in [at : CliPoints, v : Vcls \cup {None}, i : 0 .. MaxModules + 1]
      /\ cli'.at \in {"join", "delete"} /\ cli'.v = cli.v /\ cli'.i = cli.i
  BY Zenon, CliType DEF CliPoints
<1>3. VclTypes'
  <2>1. epoch_running' \in [Vcls -> BOOLEAN]
    BY Zenon, <1>1 DEF IInv, VclInv, VclTypes
  <2>2. QED
    BY ZenonT(60), <1>2, <2>1 DEF IInv, VclInv, VclTypes
<1>4. Events'
  BY Zenon, <1>1, <1>2 DEF IInv, VclInv, Events, Loading, Tearing
<1>5. Pools'
  BY Zenon, <1>1, <1>2, PoolsKept
<1>6. \A u \in Vcls, i \in Index : Passed(u, i)' => Passed(u, i)
  BY Zenon, <1>1, <1>2 DEF Passed, Torn, Tearing
<1>7. cli'.at = "delete" => epoch[cli'.v] = "done"
  BY Zenon, CliType
<1>8. QED
  BY Zenon, <1>1, <1>2, <1>3, <1>4, <1>5, <1>6, <1>7, CliMoves DEF Torn, Tearing

LEMMA DeleteEngineInv == ASSUME IInv, DeleteEngine PROVE IInv'
<1> USE DEF DeleteEngine, Idle, epochVars
<1>1. cli.v \in Vcls /\ call[Cli].at = "none" /\ vcl[cli.v] \in {"loading", "ready"}
  BY Zenon, CliCalls DEF IInv, VclInv, Events, Tearing
<1>2. VclTypes'
  <2>1. made' \in [Vcls -> [Index -> 0 .. MaxPools]]
    <3>1. made \in [Vcls -> [Index -> 0 .. MaxPools]]
      BY Zenon DEF IInv, VclInv, VclTypes
    <3>2. QED
      BY Zenon, <1>1, <3>1, Distinct, Updates
  <2>2. QED
    <3>1. cli' \in [at : CliPoints, v : Vcls \cup {None}, i : 0 .. MaxModules + 1]
      BY Distinct DEF CliPoints
    <3>2. engine' \in [Vcls -> {None, "live", "deleted"}] /\ vcl' \in [Vcls -> VclStates]
      BY Zenon, <1>1 DEF IInv, VclInv, VclTypes, VclStates
    <3>3. QED
      BY ZenonT(60), <2>1, <3>1, <3>2 DEF IInv, VclInv, VclTypes
<1>a. /\ cli.at = "delete" /\ cli'.at = "idle"
      /\ vcl'[cli.v] = "gone" /\ engine'[cli.v] = "deleted"
      /\ \A u \in Vcls \ {cli.v} : vcl'[u] = vcl[u] /\ engine'[u] = engine[u]
  BY Zenon, <1>1 DEF IInv, VclInv, VclTypes
<1>b. UNCHANGED <<active, req, registry, filters, epoch>>
  BY Zenon
<1> HIDE DEF DeleteEngine
<1>3. Events' /\ Engines'
  <2>1. Events'
    BY Zenon, <1>a DEF Events, Loading, Tearing
  <2>2. cli.v \notin registry \cup filters
    BY Zenon, <1>a DEF IInv, VclInv, Events, Tearing
  <2>3. \A u \in Vcls \ {cli.v} : vcl[u] # "loading"
    BY Zenon DEF IInv, VclInv, Engines
  <2>4. Engines'
    BY <1>a, <1>b, <2>2, <2>3 DEF IInv, VclInv, Engines, None
  <2>5. QED
    BY Zenon, <2>1, <2>4
<1>4. Requests' /\ EpochEnds'
  <2>1. active # cli.v /\ \A w \in Workers : req[w] # cli.v
    BY Zenon, <1>1, <1>a, Distinct DEF IInv, VclInv, Requests, Torn, Tearing
  <2>2. active \in Vcls \cup {None} /\ req \in [Workers -> Vcls \cup {None}]
    BY Zenon DEF IInv, VclInv, VclTypes
  <2>3. Requests'
    BY Zenon, <1>a, <1>b, <2>1, <2>2 DEF IInv, VclInv, Requests, Torn, Tearing
  <2>4. EpochEnds'
    BY Zenon, <1>a, <1>b DEF IInv, VclInv, EpochEnds
  <2>5. QED
    BY Zenon, <2>3, <2>4
<1> USE DEF DeleteEngine
<1>5. Pools'
  <2> SUFFICES ASSUME NEW v \in Vcls, v \notin remade
               PROVE  \/ v = cli.v /\ objects[v] = {}
                      \/ v # cli.v /\ made'[v] = made[v] /\ vcl'[v] = vcl[v]
    BY DEF IInv, VclInv, Pools, Owned
  <2>1. v = cli.v => objects[v] = {}
    BY Zenon, <1>1 DEF IInv, VclInv, Pools
  <2>2. v # cli.v => made'[v] = made[v] /\ vcl'[v] = vcl[v]
    BY Zenon, <1>1 DEF IInv, VclInv, VclTypes
  <2>3. QED
    BY ZenonT(40), <2>1, <2>2
<1>6. \A u \in Vcls, i \in Index : Passed(u, i)' => Passed(u, i)
  BY Zenon, <1>1, CliType DEF Passed, Torn, Tearing
<1>7. QED
  BY Zenon, <1>1, <1>2, <1>3, <1>4, <1>5, <1>6, VclStep DEF VclInv

-----------------------------------------------------------------------------
(* The timers' threads and the epoch thread *)

\* An engine is deleted when no slot of it holds a timer and no call can reach it.
LEMMA ThreadsEnd == ASSUME IInv PROVE ThreadsEndFirst
<1> SUFFICES ASSUME NEW v \in Vcls, engine[v] = "deleted"
             PROVE  /\ epoch[v] = "done"
                    /\ \A t \in Timers : home[t][1] = v /\ home[t] \notin raced => ~ Lives(t)
  BY Zenon DEF ThreadsEndFirst
<1>1. vcl[v] = "gone" /\ epoch[v] = "done"
  BY Zenon DEF IInv, VclInv, Engines, EpochEnds
<1>2. ASSUME NEW t \in Timers, home[t][1] = v, home[t] \notin raced, Lives(t) PROVE FALSE
  <2>1. home[t] \in Vcls \X Index
    BY <1>2 DEF IInv, TimerInv, TimerTypes, Homes, Lives
  <2>2. PICK i \in Index : home[t] = <<v, i>>
    BY <1>2, <2>1
  <2>3. tick_timers[v][i] = None
    BY ZenonT(40), <1>1, <1>2, <2>2 DEF IInv, TimerInv, Emptied, Passed
  <2>4. PICK c \in Callers : call[c].at = "publish" /\ call[c].t = t
    BY <1>2, <2>2, <2>3, Distinct DEF IInv, TimerInv, Reached
  <2>5. call[c].v = v
    <3>1. home[t] = <<call[c].v, call[c].i>>
      BY Zenon, <2>4, Distinct DEF IInv, TimerInv, Homes
    <3>2. QED
      BY <3>1, <2>2
  <2>6. c \notin Timers
    <3>1. home[t] = <<call[c].v, call[c].i>>
      BY Zenon, <2>4, Distinct DEF IInv, TimerInv, Homes
    <3>2. QED
      BY ZenonT(60), <1>2, <2>4, <3>1 DEF IInv, TimerInv, Calls
  <2>7. c \notin Workers
    BY <1>1, <2>4, <2>5, Distinct DEF IInv, VclInv, TimerInv, Calls, Requests
  <2>8. c # Cli
    BY Zenon, <1>1, <2>4, <2>5 DEF IInv, VclInv, TimerInv, Calls, Events
  <2>9. QED
    BY ZenonT(40), <2>6, <2>7, <2>8, Distinct
<1>3. QED
  BY Zenon, <1>1, <1>2

LEMMA TimerStepInv == ASSUME IInv, NEW t \in Timers, TimerStep(t) PROVE IInv'
<1> USE DEF unchangedByTimer, TimerGoto, vclVars
<1>0. UNCHANGED unchangedByTimer
  BY Zenon DEF TimerStep, TestRunning, TickBegins, TickFails, TickSpins, TickEnds
<1>1. VclInv'
  BY Zenon, <1>0, TimerStepKeeps
<1>2. /\ thread[t] \notin {None, "done"}
      /\ thread[t] = "guest" => call[t].at = "none"
      /\ \E p \in TimerPoints \ {None} : thread' = [thread EXCEPT ![t] = p]
  <2>1. CASE TestRunning(t)
    BY Zenon, <2>1 DEF TestRunning, TimerPoints, None
  <2>2. CASE TickBegins(t)
    BY <2>2 DEF TickBegins, TimerPoints, None, IInv, TimerInv, TimerTypes, Fault
  <2>3. CASE TickFails(t)
    BY Zenon, <2>3 DEF TickFails, TimerPoints, None
  <2>4. CASE TickSpins(t)
    BY Zenon, <2>4 DEF TickSpins, InTick, TimerPoints, None
  <2>5. CASE TickEnds(t)
    BY Zenon, <2>5 DEF TickEnds, InTick, TimerPoints, None
  <2>6. QED
    BY Zenon, <2>1, <2>2, <2>3, <2>4, <2>5 DEF TimerStep
<1>3. running' \in [Timers -> BOOLEAN]
  BY Zenon DEF TimerStep, TestRunning, TickBegins, TickFails, TickSpins, TickEnds, IInv, TimerInv, TimerTypes
<1>4. fault' \in BOOLEAN /\ (raced = {} => ~ fault')
  <2>0. fault \in BOOLEAN /\ (raced = {} => ~ fault)
    BY Zenon DEF IInv, TimerInv, TimerTypes, NoFault
  <2>1. CASE TickBegins(t)
    <3>1. raced = {} /\ engine[home[t][1]] = "deleted" => FALSE
      <4> SUFFICES ASSUME raced = {}, engine[home[t][1]] = "deleted" PROVE FALSE
        OBVIOUS
      <4>1. Lives(t) /\ home[t] \in Vcls \X Index
        BY Zenon, <1>2 DEF Lives, IInv, TimerInv, TimerTypes, Homes
      <4>2. home[t][1] \in Vcls
        BY Zenon, <4>1
      <4>3. QED
        BY ZenonT(40), <4>1, <4>2, ThreadsEnd DEF ThreadsEndFirst
    <3>2. QED
      BY Zenon, <2>0, <2>1, <3>1 DEF TickBegins, Fault
  <2>2. CASE TickEnds(t)
    <3>1. raced = {} => t \notin freed
      BY Zenon, <1>2 DEF IInv, TimerInv, Ended
    <3>2. QED
      BY Zenon, <2>0, <2>2, <3>1 DEF TickEnds
  <2>3. CASE UNCHANGED fault
    BY Zenon, <2>0, <2>3
  <2>4. QED
    BY Zenon, <2>1, <2>2, <2>3 DEF TimerStep, TestRunning, TickFails, TickSpins
<1>5. call[t].at # "none" => thread'[t] = thread[t]
  BY Zenon, <1>2, Distinct DEF IInv, TimerInv, Calls
<1>6. thread' \in [Timers -> TimerPoints]
  BY Zenon, <1>2 DEF IInv, TimerInv, TimerTypes
<1>7. \A u \in Timers : /\ thread'[u] = None <=> thread[u] = None
                        /\ thread[u] = "done" => thread'[u] = "done"
                        /\ call[u].at # "none" => thread'[u] = thread[u]
  BY Zenon, <1>2, <1>5 DEF IInv, TimerInv, TimerTypes
<1>8. QED
  BY Zenon, <1>0, <1>1, <1>3, <1>4, <1>6, <1>7, ThreadStep

LEMMA EpochIncrementInv == ASSUME IInv, NEW v \in Vcls, EpochIncrement(v) PROVE IInv'
<1> USE DEF EpochIncrement, vclVars, engineVars, poolVars
<1>1. VclInv'
  <2>1. VclTypes'
    BY Zenon DEF IInv, VclInv, VclTypes, EpochPoints
  <2>2. Events' /\ Engines' /\ Requests'
    BY Zenon DEF IInv, VclInv, Events, Engines, Requests, Torn
  <2>3. Pools'
    BY Zenon, PoolsKept
  <2>4. EpochEnds'
    BY Zenon DEF IInv, VclInv, VclTypes, EpochEnds
  <2>5. QED
    BY Zenon, <2>1, <2>2, <2>3, <2>4 DEF VclInv
<1>2. thread' \in [Timers -> TimerPoints]
  BY Zenon DEF IInv, TimerInv, TimerTypes, TimerPoints
<1>3. \A t \in Timers : /\ thread'[t] = None <=> thread[t] = None
                        /\ thread[t] = "done" => thread'[t] = "done"
                        /\ call[t].at # "none" => thread'[t] = thread[t]
  BY Zenon, Distinct DEF IInv, TimerInv, Calls, None
<1>4. running' \in [Timers -> BOOLEAN] /\ fault' \in BOOLEAN /\ (raced = {} => ~ fault')
  BY Zenon DEF IInv, TimerInv, TimerTypes, NoFault
<1>5. QED
  BY Zenon, <1>1, <1>2, <1>3, <1>4, ThreadStep

-----------------------------------------------------------------------------
(* Calls that stop and set timers *)

\* What is left alone by every step of a call.
LEMMA CallVars ==
  ASSUME IInv, UNCHANGED <<vclVars, registry, cli, engineVars, epochVars>>
  PROVE  VclInv' /\ cli' = cli /\ req' = req /\ vcl' = vcl
BY Zenon, TimerStepKeeps DEF vclVars

\* In a call, c has a module and a slot, and nobody else changes its call.
LEMMA InCall ==
  ASSUME IInv, NEW c \in Callers, call[c].at # "none"
  PROVE  /\ call[c].v \in Vcls /\ call[c].i \in Index
         /\ call[c] \in CallTypes
         /\ Slot(c) \in Timers \cup {None}
         /\ Slot(c) # None => home[Slot(c)] = <<call[c].v, call[c].i>>
<1>1. call[c].v \in Vcls /\ call[c].i \in Index
  BY Zenon DEF IInv, TimerInv, Calls
<1>2. call[c] \in CallTypes /\ Slot(c) \in Timers \cup {None}
  <2>1. /\ call \in [Callers -> CallTypes]
        /\ tick_timers \in [Vcls -> [Index -> Timers \cup {None}]]
    BY Zenon DEF IInv, TimerInv, TimerTypes
  <2>2. QED
    BY Zenon, <1>1, <2>1 DEF Slot
<1>3. Slot(c) # None => home[Slot(c)] = <<call[c].v, call[c].i>>
  <2>1. \A v \in Vcls, i \in Index : tick_timers[v][i] # None => home[tick_timers[v][i]] = <<v, i>>
    BY Zenon DEF IInv, TimerInv, Homes
  <2>2. QED
    BY Zenon, <1>1, <2>1 DEF Slot
<1>4. QED
  BY Zenon, <1>1, <1>2, <1>3

\* A step of a call leaves the others where they are, and its own module what it was.
LEMMA CallRules ==
  ASSUME IInv, NEW c \in Callers, call[c].at # "none",
         UNCHANGED <<cli, req, raced>>,
         \A d \in Callers \ {c} : call'[d] = call[d],
         call'[c].at # "none" => /\ call'[c].v = call[c].v /\ call'[c].i = call[c].i
                                 /\ call'[c].on = call[c].on,
         call'[c].at \in {"create", "publish"} => call'[c].on,
         \A t \in Timers : thread[t] = "guest" => home'[t] = home[t] /\ thread'[t] = thread[t]
  PROVE  /\ Alone' /\ Calls'
         /\ \A d \in Callers, v \in Vcls, i \in Index :
               /\ At(d, v, i)' => At(d, v, i)
               /\ At(d, v, i) /\ (d # c \/ call'[c].at # "none") => At(d, v, i)'
<1>1. \A d \in Callers, v \in Vcls, i \in Index :
         /\ At(d, v, i)' => At(d, v, i)
         /\ At(d, v, i) /\ (d # c \/ call'[c].at # "none") => At(d, v, i)'
  BY DEF At
<1>2. Alone'
  BY ZenonT(40), <1>1 DEF IInv, TimerInv, Alone
<1>3. Calls'
  <2> SUFFICES ASSUME NEW d \in Callers, call'[d].at # "none"
               PROVE  /\ call'[d].v \in Vcls /\ call'[d].i \in Index
                      /\ d \in Workers => req[d] = call'[d].v
                      /\ d = Cli => /\ cli.v = call'[d].v
                                    /\ \/ cli.at = "warm" /\ call'[d].i = cli.i
                                       \/ cli.at = "timers" /\ call'[d].i = cli.i - 1 /\ ~ call'[d].on
                      /\ d \in Timers => /\ home'[d] = <<call'[d].v, call'[d].i>>
                                         /\ home'[d] \in raced /\ thread'[d] = "guest"
                      /\ call'[d].at \in {"create", "publish"} => call'[d].on
    BY DEF Calls
  <2>1. /\ call[d].at # "none" /\ call'[d].v = call[d].v /\ call'[d].i = call[d].i
        /\ call'[d].on = call[d].on /\ (d # c => call'[d].at = call[d].at)
    OBVIOUS
  <2>2. d \in Timers => home'[d] = home[d] /\ thread'[d] = thread[d]
    BY Zenon, <2>1 DEF IInv, TimerInv, Calls
  <2>3. QED
    BY SMTT(30), <2>1, <2>2 DEF IInv, TimerInv, Calls
<1>4. QED
  BY ZenonT(40), <1>1, <1>2, <1>3

\* A step of a call of c that changes no timer's slot or thread.
GoesOn(c) ==
  /\ call[c].at \notin {"none", "free", "clear", "publish"}
  /\ UNCHANGED <<cli, req, vcl, tick_timers, home, thread, freed, joined, sets, raced>>
  /\ call' \in [Callers -> CallTypes]
  /\ \A d \in Callers \ {c} : call'[d] = call[d]
  /\ call'[c].at # "none" => /\ call'[c].v = call[c].v /\ call'[c].i = call[c].i
                             /\ call'[c].on = call[c].on
  /\ call'[c].t # None <=> call'[c].at = "wait"
  /\ call'[c].t # None => call'[c].t = Slot(c)
  /\ call'[c].at = "create" => call'[c].on
  /\ call'[c].at \notin {"clear", "publish"}
  /\ <<call[c].v, call[c].i>> \notin raced =>
        /\ call'[c].at \in {"join", "wait"} => Slot(c) # None
        /\ call'[c].at # "free"
        /\ call'[c].at = "create" => Slot(c) = None
  /\ c = Cli /\ call'[c].at = "none" => cli.at # "timers" \/ Slot(c) = None
  /\ running' \in [Timers -> BOOLEAN] /\ fault' \in BOOLEAN /\ (raced = {} => ~ fault')

LEMMA CallGoesOn ==
  ASSUME IInv, VclInv', NEW c \in Callers, GoesOn(c) PROVE IInv'
<1> DEFINE v == call[c].v
           i == call[c].i
<1>0. /\ UNCHANGED <<cli, req, vcl, tick_timers, home, thread, freed, joined, sets, raced>>
      /\ call[c].at \notin {"none", "free", "clear", "publish"}
      /\ \A d \in Callers \ {c} : call'[d] = call[d]
  BY Zenon DEF GoesOn
<1>1. call'[c].at # "none" => call'[c].v = v /\ call'[c].i = i /\ call'[c].on = call[c].on
  BY Zenon DEF GoesOn
<1>2. call'[c].at \notin {"clear", "publish"} /\ (call'[c].at = "create" => call'[c].on)
  BY Zenon DEF GoesOn
<1>3. v \in Vcls /\ i \in Index /\ (Slot(c) # None => home[Slot(c)] = <<v, i>>)
  BY Zenon, <1>0, InCall
<1>4. /\ Alone' /\ Calls'
      /\ \A d \in Callers, u \in Vcls, j \in Index :
            /\ At(d, u, j)' => At(d, u, j)
            /\ At(d, u, j) /\ (d # c \/ call'[c].at # "none") => At(d, u, j)'
  BY ZenonT(40), <1>0, <1>1, <1>2, CallRules
<1>5. TimerTypes' /\ NoFault' /\ Ended'
  <2>1. /\ call' \in [Callers -> CallTypes] /\ running' \in [Timers -> BOOLEAN]
        /\ fault' \in BOOLEAN /\ (raced = {} => ~ fault')
    BY Zenon DEF GoesOn
  <2>2. QED
    BY Zenon, <1>0, <2>1 DEF IInv, TimerInv, TimerTypes, NoFault, Ended
<1>6. Homes'
  <2>1. \A d \in Callers \ {c} :
             /\ call'[d].t # None <=> call'[d].at \in {"wait", "publish"}
             /\ call'[d].t # None => home[call'[d].t] = <<call'[d].v, call'[d].i>>
    BY ZenonT(40), <1>0 DEF IInv, TimerInv, Homes
  <2>2. call'[c].t # None <=> call'[c].at \in {"wait", "publish"}
    BY Zenon, <1>2 DEF GoesOn
  <2>3. call'[c].t # None => home[call'[c].t] = <<call'[c].v, call'[c].i>>
    <3>1. call'[c].t # None => call'[c].t = Slot(c) /\ call'[c].at # "none"
      BY Zenon DEF GoesOn
    <3>2. QED
      BY Zenon, <1>1, <1>3, <3>1
  <2>4. \A d \in Callers :
             /\ call'[d].t # None <=> call'[d].at \in {"wait", "publish"}
             /\ call'[d].t # None => home[call'[d].t] = <<call'[d].v, call'[d].i>>
    BY Zenon, <2>1, <2>2, <2>3
  <2>5. QED
    BY Zenon, <1>0, <2>4 DEF IInv, TimerInv, Homes
<1>7. Found'
  <2> SUFFICES ASSUME NEW d \in Callers, call'[d].at # "none", <<call'[d].v, call'[d].i>> \notin raced
               PROVE  /\ call'[d].at = "join" => Slot(d)' # None
                      /\ call'[d].at = "wait" => Slot(d)' = call'[d].t
                      /\ call'[d].at \in {"free", "clear"} => Slot(d)' # None /\ Slot(d)' \in joined
                      /\ call'[d].at \in {"create", "publish"} => Slot(d)' = None
                      /\ call'[d].at = "publish" => call'[d].t \notin joined \cup freed
    BY Zenon, <1>0 DEF Found
  <2>1. Slot(d)' = Slot(d)
    BY Zenon, <1>0, <1>1 DEF Slot
  <2>2. CASE d = c
    <3>1. <<v, i>> \notin raced
      BY Zenon, <1>1, <2>2
    <3>2. /\ call'[c].at \in {"join", "wait"} => Slot(c) # None
          /\ call'[c].at # "free"
          /\ call'[c].at = "create" => Slot(c) = None
      BY Zenon, <3>1 DEF GoesOn
    <3>3. call'[c].at = "wait" => call'[c].t = Slot(c)
      BY Zenon DEF GoesOn
    <3>4. QED
      BY ZenonT(40), <1>2, <2>1, <2>2, <3>2, <3>3
  <2>3. CASE d # c
    <3>1. call'[d] = call[d]
      BY Zenon, <1>0, <2>3
    <3>2. QED
      BY Zenon, <2>1, <3>1 DEF IInv, TimerInv, Found
  <2>4. QED
    BY Zenon, <2>2, <2>3
<1>8. Kept'
  <2> SUFFICES ASSUME NEW u \in Vcls, NEW j \in Index, <<u, j>> \notin raced, tick_timers[u][j] # None
               PROVE  /\ tick_timers[u][j] \in joined =>
                           \E d \in Callers : At(d, u, j)' /\ call'[d].at \in {"free", "clear"}
                      /\ tick_timers[u][j] \in freed =>
                           \E d \in Callers : At(d, u, j)' /\ call'[d].at = "clear"
    BY Zenon, <1>0 DEF Kept
  <2>1. \A d \in Callers : At(d, u, j) /\ call[d].at \in {"free", "clear"} =>
                             At(d, u, j)' /\ call'[d].at = call[d].at
    BY Zenon, <1>0, <1>4
  <2>2. ASSUME tick_timers[u][j] \in joined
        PROVE  \E d \in Callers : At(d, u, j)' /\ call'[d].at \in {"free", "clear"}
    <3>1. PICK d \in Callers : At(d, u, j) /\ call[d].at \in {"free", "clear"}
      BY Zenon, <2>2 DEF IInv, TimerInv, Kept
    <3>2. QED
      BY Zenon, <3>1, <2>1
  <2>3. ASSUME tick_timers[u][j] \in freed
        PROVE  \E d \in Callers : At(d, u, j)' /\ call'[d].at = "clear"
    <3>1. PICK d \in Callers : At(d, u, j) /\ call[d].at = "clear"
      BY Zenon, <2>3 DEF IInv, TimerInv, Kept
    <3>2. QED
      BY Zenon, <3>1, <2>1
  <2>4. QED
    BY Zenon, <2>2, <2>3
<1>9. Reached'
  <2> SUFFICES ASSUME NEW t \in Timers, Lives(t), home[t] \notin raced
               PROVE  \/ tick_timers[home[t][1]][home[t][2]] = t
                      \/ \E d \in Callers : call'[d].at = "publish" /\ call'[d].t = t
    BY Zenon, <1>0 DEF Reached, Lives
  <2>1. \A d \in Callers : call[d].at = "publish" => call'[d] = call[d]
    BY Zenon, <1>0
  <2>2. QED
    BY Zenon, <2>1 DEF IInv, TimerInv, Reached
<1>10. Emptied'
  <2> SUFFICES ASSUME NEW u \in Vcls, NEW j \in Index, <<u, j>> \notin raced, Passed(u, j)'
               PROVE  tick_timers[u][j] = None
    BY Zenon, <1>0 DEF Emptied
  <2>1. CASE Passed(u, j)
    BY Zenon, <2>1 DEF IInv, TimerInv, Emptied
  <2>2. CASE ~ Passed(u, j)
    <3>0. cli' = cli /\ vcl' = vcl
      BY Zenon, <1>0
    <3>1. cli.at = "timers" /\ At(Cli, u, j) /\ ~ At(Cli, u, j)'
      BY Zenon, <2>2, <3>0 DEF Passed, Torn
    <3>2. c = Cli /\ call'[c].at = "none" /\ u = v /\ j = i
      <4>1. ~ (Cli # c \/ call'[c].at # "none")
        BY Zenon, <1>4, <3>1, Distinct
      <4>2. QED
        BY Zenon, <3>1, <4>1 DEF At
    <3>3. Slot(c) = None
      BY Zenon, <3>1, <3>2 DEF GoesOn
    <3>4. QED
      BY Zenon, <3>2, <3>3 DEF Slot
  <2>3. QED
    BY Zenon, <2>1, <2>2
<1>11. QED
  BY ZenonT(40), <1>4, <1>5, <1>6, <1>7, <1>8, <1>9, <1>10 DEF IInv, TimerInv

\* Another caller that has joined or freed the timer in the slot races with c.
LEMMA NotEnded ==
  ASSUME IInv, NEW c \in Callers, call[c].at \in {"stop", "join"},
         <<call[c].v, call[c].i>> \notin raced
  PROVE  Slot(c) \notin freed \cup joined
<1> DEFINE v == call[c].v
           i == call[c].i
<1>1. v \in Vcls /\ i \in Index /\ At(c, v, i)
  BY Zenon, InCall DEF At
<1>2. ASSUME Slot(c) \in freed \cup joined PROVE FALSE
  <2>1. Slot(c) # None
    BY Zenon, <1>2, Distinct DEF IInv, TimerInv, TimerTypes
  <2>2. PICK d \in Callers : At(d, v, i) /\ call[d].at \in {"free", "clear"}
    BY Zenon, <1>1, <1>2, <2>1 DEF IInv, TimerInv, Kept, Slot
  <2>3. d # c
    BY Zenon, <2>2
  <2>4. QED
    BY Zenon, <1>1, <2>2, <2>3 DEF IInv, TimerInv, Alone
<1>3. QED
  BY Zenon, <1>2

LEMMA StopTimerInv == ASSUME IInv, NEW c \in Callers, StopTimer(c) PROVE IInv'
<1> USE DEF StopTimer
<1>1. VclInv' /\ cli' = cli /\ req' = req /\ vcl' = vcl
  BY Zenon, CallVars
<1>2. call[c].at = "stop" /\ call[c].t = None /\ call[c] \in CallTypes
  BY Zenon, InCall DEF IInv, TimerInv, Homes
<1>3. call \in [Callers -> CallTypes] /\ running \in [Timers -> BOOLEAN] /\ fault \in BOOLEAN
      /\ (raced = {} => ~ fault)
  BY Zenon DEF IInv, TimerInv, TimerTypes, NoFault
<1>4. CASE Slot(c) = None
  <2>1. /\ call' = [call EXCEPT ![c] = IF call[c].on THEN [call[c] EXCEPT !.at = "create"]
                                       ELSE NoCall]
        /\ UNCHANGED <<running, fault>>
    BY Zenon, <1>4 DEF AfterStop
  <2>2. NoCall \in CallTypes /\ [call[c] EXCEPT !.at = "create"] \in CallTypes
    BY <1>2, Distinct DEF NoCall, CallTypes, CallPoints
  <2>3. call' \in [Callers -> CallTypes] /\ \A d \in Callers \ {c} : call'[d] = call[d]
    BY Zenon, <1>3, <2>1, <2>2
  <2>4. \/ call'[c] = NoCall
        \/ call[c].on /\ call'[c] = [call[c] EXCEPT !.at = "create"]
    BY Zenon, <1>3, <2>1
  <2>5. /\ call'[c].at \in {"none", "create"} /\ call'[c].t = None
        /\ call'[c].at # "none" => /\ call'[c].v = call[c].v /\ call'[c].i = call[c].i
                                   /\ call'[c].on = call[c].on /\ call[c].on
    BY <1>2, <2>4 DEF NoCall, CallTypes
  <2>6. QED
    BY ZenonT(40), <1>1, <1>2, <1>3, <1>4, <2>1, <2>3, <2>5, CallGoesOn DEF GoesOn
<1>5. CASE Slot(c) # None /\ Slot(c) \in freed
  <2>1. raced # {} /\ fault' = TRUE /\ UNCHANGED <<running, call>>
    BY Zenon, <1>2, <1>5, NotEnded DEF Fault
  <2>2. QED
    BY ZenonT(40), <1>1, <1>2, <1>3, <2>1, CallGoesOn DEF GoesOn
<1>6. CASE Slot(c) # None /\ Slot(c) \notin freed
  <2>1. /\ call' = [call EXCEPT ![c].at = "join"] /\ UNCHANGED fault
        /\ running' \in [Timers -> BOOLEAN]
    BY Zenon, <1>3, <1>6 DEF CallGoto
  <2>2. [call[c] EXCEPT !.at = "join"] \in CallTypes
    BY Zenon, <1>2 DEF CallTypes, CallPoints
  <2>3. /\ call' \in [Callers -> CallTypes] /\ \A d \in Callers \ {c} : call'[d] = call[d]
        /\ call'[c] = [call[c] EXCEPT !.at = "join"]
    BY Zenon, <1>3, <2>1, <2>2
  <2>4. /\ call'[c].at = "join" /\ call'[c].t = None
        /\ call'[c].v = call[c].v /\ call'[c].i = call[c].i /\ call'[c].on = call[c].on
    BY Zenon, <1>2, <2>3 DEF CallTypes
  <2>5. QED
    BY ZenonT(40), <1>1, <1>2, <1>3, <1>6, <2>1, <2>3, <2>4, CallGoesOn DEF GoesOn
<1>7. QED
  BY Zenon, <1>4, <1>5, <1>6

LEMMA JoinTimerInv == ASSUME IInv, NEW c \in Callers, JoinTimer(c) PROVE IInv'
<1> USE DEF JoinTimer
<1> DEFINE v == call[c].v
           i == call[c].i
<1>1. VclInv' /\ cli' = cli /\ req' = req /\ vcl' = vcl
  BY Zenon, CallVars
<1>2. /\ call[c].at = "join" /\ call[c].t = None /\ call[c] \in CallTypes
      /\ v \in Vcls /\ i \in Index /\ At(c, v, i)
  BY Zenon, InCall DEF IInv, TimerInv, Homes, At
<1>3. call \in [Callers -> CallTypes] /\ running \in [Timers -> BOOLEAN] /\ fault \in BOOLEAN
      /\ (raced = {} => ~ fault)
  BY Zenon DEF IInv, TimerInv, TimerTypes, NoFault
<1>4. <<v, i>> \notin raced => Slot(c) # None
  BY Zenon, <1>2 DEF IInv, TimerInv, Found
<1>5. CASE Slot(c) = None \/ Slot(c) \in freed \cup joined
  <2>1. raced # {} /\ fault' = TRUE /\ UNCHANGED <<running, call>>
    BY ZenonT(40), <1>2, <1>4, <1>5, NotEnded DEF Fault
  <2>2. QED
    BY Zenon, <1>1, <1>2, <1>3, <1>4, <2>1, CallGoesOn DEF GoesOn
<1>6. CASE ~ (Slot(c) = None \/ Slot(c) \in freed \cup joined)
  <2>0. Slot(c) \in Timers /\ home[Slot(c)] = <<v, i>>
    BY Zenon, <1>2, <1>6, InCall
  <2>1. Refused(c) => <<v, i>> \in raced
    <3>1. CASE Slot(c) = c
      BY Zenon, <1>2, <2>0, <3>1 DEF IInv, TimerInv, Calls
    <3>2. ASSUME NEW d \in Callers, call[d].at = "wait", call[d].t = Slot(c)
          PROVE  <<v, i>> \in raced
      <4>1. home[Slot(c)] = <<call[d].v, call[d].i>>
        BY Zenon, <1>6, <3>2 DEF IInv, TimerInv, Homes
      <4>2. At(d, v, i) /\ d # c
        BY <1>2, <2>0, <3>2, <4>1 DEF At
      <4>3. QED
        BY Zenon, <1>2, <4>2 DEF IInv, TimerInv, Alone
    <3>3. QED
      BY Zenon, <3>1, <3>2 DEF Refused
  <2> DEFINE new == [call[c] EXCEPT !.at = IF Refused(c) THEN "free" ELSE "wait",
                                    !.t = IF Refused(c) THEN None ELSE Slot(c)]
  <2>2. call' = [call EXCEPT ![c] = new] /\ UNCHANGED <<running, fault>>
    BY Zenon, <1>6
  <2>3. new \in CallTypes
    BY Zenon, <1>2, <2>0, Distinct DEF CallTypes, CallPoints
  <2>4. /\ call' \in [Callers -> CallTypes] /\ \A d \in Callers \ {c} : call'[d] = call[d]
        /\ call'[c] = new
    BY Zenon, <1>3, <2>2, <2>3
  <2>5. /\ call'[c].v = v /\ call'[c].i = i /\ call'[c].on = call[c].on
        /\ \/ Refused(c) /\ call'[c].at = "free" /\ call'[c].t = None
           \/ ~ Refused(c) /\ call'[c].at = "wait" /\ call'[c].t = Slot(c)
    BY Zenon, <1>2, <2>4 DEF CallTypes
  <2>6. QED
    BY SMTT(30), <1>1, <1>2, <1>3, <1>6, <2>1, <2>2, <2>4, <2>5, CallGoesOn DEF GoesOn
<1>7. QED
  BY Zenon, <1>5, <1>6

LEMMA CreateTimerFailsInv == ASSUME IInv, NEW c \in Callers, CreateTimerFails(c) PROVE IInv'
<1> USE DEF CreateTimerFails
<1>1. VclInv' /\ cli' = cli /\ req' = req /\ vcl' = vcl
  BY Zenon, CallVars
<1>2. call \in [Callers -> CallTypes] /\ running \in [Timers -> BOOLEAN] /\ fault \in BOOLEAN
      /\ (raced = {} => ~ fault)
  BY Zenon DEF IInv, TimerInv, TimerTypes, NoFault
<1>3. NoCall \in CallTypes /\ NoCall.at = "none" /\ NoCall.t = None
  BY Zenon, NoCallType
<1>4. /\ call' \in [Callers -> CallTypes] /\ call'[c] = NoCall
      /\ \A d \in Callers \ {c} : call'[d] = call[d]
  BY Zenon, <1>2, <1>3
<1>5. c = Cli => cli.at # "timers"
  BY Zenon, Distinct DEF IInv, TimerInv, Calls
<1>6. QED
  BY Zenon, <1>1, <1>2, <1>3, <1>4, <1>5, CallGoesOn DEF GoesOn

LEMMA JoinReturnsInv == ASSUME IInv, NEW c \in Callers, JoinReturns(c) PROVE IInv'
<1> DEFINE v == call[c].v
           i == call[c].i
           t == call[c].t
<1>0. /\ joined' = joined \cup {t}
      /\ UNCHANGED <<tick_timers, running, home, thread, freed, sets, raced, fault>>
  BY Zenon DEF JoinReturns
<1>1. VclInv' /\ cli' = cli /\ req' = req /\ vcl' = vcl
  BY Zenon, CallVars DEF JoinReturns
<1>2. /\ call[c].at = "wait" /\ v \in Vcls /\ i \in Index /\ call[c] \in CallTypes
      /\ t \in Timers /\ thread[t] = "done" /\ home[t] = <<v, i>> /\ At(c, v, i)
  BY Zenon, InCall DEF JoinReturns, IInv, TimerInv, Homes, CallTypes, At
<1>3. call \in [Callers -> CallTypes]
  BY Zenon DEF IInv, TimerInv, TimerTypes
<1>4. [call[c] EXCEPT !.at = "free", !.t = None] \in CallTypes
  BY Zenon, <1>2 DEF CallTypes, CallPoints
<1>5. /\ call' \in [Callers -> CallTypes] /\ \A d \in Callers \ {c} : call'[d] = call[d]
      /\ call'[c] = [call[c] EXCEPT !.at = "free", !.t = None]
  BY Zenon, <1>3, <1>4 DEF JoinReturns
<1>6. /\ call'[c].at = "free" /\ call'[c].t = None
      /\ call'[c].v = v /\ call'[c].i = i /\ call'[c].on = call[c].on
  BY Zenon, <1>2, <1>5 DEF CallTypes
<1>7. /\ Alone' /\ Calls'
      /\ \A d \in Callers, u \in Vcls, j \in Index : At(d, u, j)' <=> At(d, u, j)
  BY Zenon, <1>0, <1>1, <1>2, <1>5, <1>6, CallRules
<1>8. TimerTypes' /\ NoFault'
  BY Zenon, <1>0, <1>2, <1>5 DEF IInv, TimerInv, TimerTypes, NoFault
<1>9. Homes'
  <2>1. \A x \in freed \cup joined' : thread[x] # None
    BY ZenonT(40), <1>0, <1>2 DEF IInv, TimerInv, Homes, None
  <2>2. \A d \in Callers \ {c} :
           /\ call'[d].t # None <=> call'[d].at \in {"wait", "publish"}
           /\ call'[d].t # None => home[call'[d].t] = <<call'[d].v, call'[d].i>>
    BY Zenon, <1>5 DEF IInv, TimerInv, Homes
  <2>3. \A d \in Callers :
           /\ call'[d].t # None <=> call'[d].at \in {"wait", "publish"}
           /\ call'[d].t # None => home[call'[d].t] = <<call'[d].v, call'[d].i>>
    BY Zenon, <1>6, <2>2
  <2>4. QED
    BY ZenonT(40), <1>0, <2>1, <2>3 DEF IInv, TimerInv, Homes
<1>10. Found'
  <2> SUFFICES ASSUME NEW d \in Callers, call'[d].at # "none", <<call'[d].v, call'[d].i>> \notin raced
               PROVE  /\ call'[d].at = "join" => Slot(d)' # None
                      /\ call'[d].at = "wait" => Slot(d)' = call'[d].t
                      /\ call'[d].at \in {"free", "clear"} => Slot(d)' # None /\ Slot(d)' \in joined'
                      /\ call'[d].at \in {"create", "publish"} => Slot(d)' = None
                      /\ call'[d].at = "publish" => call'[d].t \notin joined' \cup freed
    BY Zenon, <1>0 DEF Found
  <2>1. Slot(d)' = Slot(d)
    BY ZenonT(60), <1>0, <1>5, <1>6 DEF Slot
  <2>2. CASE d = c
    BY SMTT(30), <1>0, <1>2, <1>6, <2>1, <2>2, Distinct DEF IInv, TimerInv, Found
  <2>3. CASE d # c
    <3>1. call'[d] = call[d]
      BY Zenon, <1>5, <2>3
    <3>2. call[d].at = "publish" => call[d].t # t
      <4>1. ASSUME call[d].at = "publish", call[d].t = t PROVE FALSE
        <5>1. home[t] = <<call[d].v, call[d].i>>
          BY Zenon, <1>2, <4>1, Distinct DEF IInv, TimerInv, Homes
        <5>2. At(d, v, i) /\ <<v, i>> \notin raced
          <6>1. home[t] = <<v, i>> /\ <<call[d].v, call[d].i>> \notin raced
            BY Zenon, <1>2, <3>1
          <6>a. <<v, i>> = <<call[d].v, call[d].i>>
            BY Zenon, <5>1, <6>1
          <6>2. v = call[d].v /\ i = call[d].i
            BY ZenonT(60), <6>a, SamePair
          <6>3. QED
            BY Zenon, <4>1, <6>1, <6>2 DEF At
        <5>3. QED
          BY Zenon, <1>2, <2>3, <5>2 DEF IInv, TimerInv, Alone
      <4>2. QED
        BY Zenon, <4>1
    <3>3. QED
      BY Zenon, <1>0, <2>1, <3>1, <3>2 DEF IInv, TimerInv, Found
  <2>4. QED
    BY Zenon, <2>2, <2>3
<1>11. Kept'
  <2> SUFFICES ASSUME NEW u \in Vcls, NEW j \in Index, <<u, j>> \notin raced, tick_timers[u][j] # None
               PROVE  /\ tick_timers[u][j] \in joined' =>
                           \E d \in Callers : At(d, u, j)' /\ call'[d].at \in {"free", "clear"}
                      /\ tick_timers[u][j] \in freed =>
                           \E d \in Callers : At(d, u, j)' /\ call'[d].at = "clear"
    BY Zenon, <1>0 DEF Kept
  <2>1. \A d \in Callers : call[d].at \in {"free", "clear"} => call'[d].at = call[d].at
    BY ZenonT(60), <1>2, <1>5
  <2>2. tick_timers[u][j] = t => u = v /\ j = i
    <3> SUFFICES ASSUME tick_timers[u][j] = t PROVE u = v /\ j = i
      OBVIOUS
    <3>1. home[tick_timers[u][j]] = <<u, j>>
      BY Zenon DEF IInv, TimerInv, Homes
    <3>2. <<u, j>> = <<v, i>>
      BY Zenon, <1>2, <3>1
    <3>3. QED
      BY Zenon, <3>2, SamePair
  <2>3. QED
    BY <1>0, <1>2, <1>6, <1>7, <2>1, <2>2 DEF IInv, TimerInv, Kept
<1>12. Ended'
  BY Zenon, <1>0, <1>2 DEF IInv, TimerInv, Ended
<1>13. Reached'
  <2> SUFFICES ASSUME NEW x \in Timers, Lives(x), home[x] \notin raced
               PROVE  \/ tick_timers[home[x][1]][home[x][2]] = x
                      \/ \E d \in Callers : call'[d].at = "publish" /\ call'[d].t = x
    BY Zenon, <1>0 DEF Reached, Lives
  <2>1. \A d \in Callers : call[d].at = "publish" => call'[d] = call[d]
    BY Zenon, <1>2, <1>5
  <2>2. QED
    BY Zenon, <2>1 DEF IInv, TimerInv, Reached
<1>14. Emptied'
  BY Zenon, <1>0, <1>1, <1>7, Distinct DEF IInv, TimerInv, Emptied, Passed, Torn
<1>15. QED
  BY ZenonT(40), <1>1, <1>7, <1>8, <1>9, <1>10, <1>11, <1>12, <1>13, <1>14 DEF IInv, TimerInv

LEMMA FreeTimerInv == ASSUME IInv, NEW c \in Callers, FreeTimer(c) PROVE IInv'
<1> DEFINE v == call[c].v
           i == call[c].i
           t == Slot(c)
<1>0. /\ call[c].at = "free"
      /\ UNCHANGED <<tick_timers, running, home, thread, joined, sets, raced>>
  BY Zenon DEF FreeTimer
<1>1. VclInv' /\ cli' = cli /\ req' = req /\ vcl' = vcl
  BY Zenon, CallVars DEF FreeTimer
<1>2. /\ v \in Vcls /\ i \in Index /\ call[c] \in CallTypes /\ call[c].t = None
      /\ t \in Timers \cup {None} /\ At(c, v, i)
      /\ t # None => home[t] = <<v, i>>
  BY ZenonT(40), <1>0, InCall DEF IInv, TimerInv, Homes, At
<1>3. <<v, i>> \notin raced => t # None /\ t \in joined
  BY Zenon, <1>0 DEF IInv, TimerInv, Found
<1>4. <<v, i>> \notin raced => t \notin freed
  <2>1. ASSUME <<v, i>> \notin raced, t \in freed PROVE FALSE
    <3>1. PICK d \in Callers : At(d, v, i) /\ call[d].at = "clear"
      BY ZenonT(40), <1>2, <1>3, <2>1 DEF IInv, TimerInv, Kept, Slot
    <3>2. QED
      BY ZenonT(40), <1>0, <1>2, <2>1, <3>1 DEF IInv, TimerInv, Alone
  <2>2. QED
    BY Zenon, <2>1
<1>5. CASE t \in freed
  <2>1. raced # {} /\ fault' = TRUE /\ UNCHANGED <<freed, call>>
    BY Zenon, <1>4, <1>5 DEF FreeTimer, Fault
  <2>2. thread \in [Timers -> TimerPoints] /\ running \in [Timers -> BOOLEAN]
    BY Zenon DEF IInv, TimerInv, TimerTypes
  <2>3. QED
    BY ZenonT(40), <1>0, <1>1, <2>1, <2>2, ThreadStep
<1>6. CASE t \notin freed
  <2>1. /\ freed' = freed \cup ({t} \ {None}) /\ fault' = fault
        /\ call' = [call EXCEPT ![c].at = "clear"]
    BY Zenon, <1>6 DEF FreeTimer, CallGoto
  <2>2. /\ call' \in [Callers -> CallTypes] /\ \A d \in Callers \ {c} : call'[d] = call[d]
        /\ call'[c] = [call[c] EXCEPT !.at = "clear"]
    <3>1. [call[c] EXCEPT !.at = "clear"] \in CallTypes
      BY Zenon, <1>2 DEF CallTypes, CallPoints
    <3>2. call \in [Callers -> CallTypes]
      BY Zenon DEF IInv, TimerInv, TimerTypes
    <3>3. QED
      BY Zenon, <2>1, <3>1, <3>2
  <2>3. /\ call'[c].at = "clear" /\ call'[c].t = None
        /\ call'[c].v = v /\ call'[c].i = i /\ call'[c].on = call[c].on
    BY Zenon, <1>2, <2>2 DEF CallTypes
  <2>4. /\ Alone' /\ Calls'
        /\ \A d \in Callers, u \in Vcls, j \in Index : At(d, u, j)' <=> At(d, u, j)
    BY Zenon, <1>0, <1>1, <2>2, <2>3, CallRules
  <2>5. TimerTypes' /\ NoFault'
    BY ZenonT(40), <1>0, <1>2, <2>1, <2>2 DEF IInv, TimerInv, TimerTypes, NoFault
  <2>6. Homes'
    <3>1. t # None => thread[t] # None
      <4>1. t # None => home[t] # <<None, 0>>
        BY <1>2, Distinct
      <4>2. QED
        BY ZenonT(40), <1>2, <4>1 DEF IInv, TimerInv, Homes
    <3>2. \A x \in freed' \cup joined : thread[x] # None
      BY Zenon, <2>1, <3>1 DEF IInv, TimerInv, Homes
    <3>3. \A d \in Callers \ {c} :
             /\ call'[d].t # None <=> call'[d].at \in {"wait", "publish"}
             /\ call'[d].t # None => home[call'[d].t] = <<call'[d].v, call'[d].i>>
      BY Zenon, <2>2 DEF IInv, TimerInv, Homes
    <3>4. \A d \in Callers :
             /\ call'[d].t # None <=> call'[d].at \in {"wait", "publish"}
             /\ call'[d].t # None => home[call'[d].t] = <<call'[d].v, call'[d].i>>
      BY Zenon, <2>3, <3>3
    <3>5. QED
      BY ZenonT(40), <1>0, <3>2, <3>4 DEF IInv, TimerInv, Homes
  <2>7. Found'
    <3> SUFFICES ASSUME NEW d \in Callers, call'[d].at # "none", <<call'[d].v, call'[d].i>> \notin raced
                 PROVE  /\ call'[d].at = "join" => Slot(d)' # None
                        /\ call'[d].at = "wait" => Slot(d)' = call'[d].t
                        /\ call'[d].at \in {"free", "clear"} => Slot(d)' # None /\ Slot(d)' \in joined
                        /\ call'[d].at \in {"create", "publish"} => Slot(d)' = None
                        /\ call'[d].at = "publish" => call'[d].t \notin joined \cup freed'
      BY Zenon, <1>0 DEF Found
    <3>1. Slot(d)' = Slot(d)
      BY Zenon, <1>0, <2>2, <2>3 DEF Slot
    <3>2. CASE d = c
      BY Zenon, <1>3, <2>3, <3>1, <3>2
    <3>3. CASE d # c
      <4>1. call'[d] = call[d]
        BY Zenon, <2>2, <3>3
      <4>2. ASSUME call[d].at = "publish", call[d].t = t, t # None PROVE FALSE
        <5>1. home[t] = <<call[d].v, call[d].i>>
          BY Zenon, <4>2 DEF IInv, TimerInv, Homes
        <5>2. At(d, v, i) /\ <<v, i>> \notin raced
          <6>1. home[t] = <<v, i>> /\ <<call[d].v, call[d].i>> \notin raced
            BY Zenon, <1>2, <4>1, <4>2
          <6>a. <<v, i>> = <<call[d].v, call[d].i>>
            BY Zenon, <5>1, <6>1
          <6>2. v = call[d].v /\ i = call[d].i
            BY Zenon, <6>a, SamePair
          <6>3. QED
            BY Zenon, <4>2, <6>1, <6>2 DEF At
        <5>3. QED
          BY ZenonT(40), <1>2, <3>3, <5>2 DEF IInv, TimerInv, Alone
      <4>3. call[d].at = "publish" => call[d].t \notin freed'
        BY ZenonT(40), <2>1, <4>1, <4>2 DEF IInv, TimerInv, Found
      <4>4. QED
        BY ZenonT(40), <3>1, <4>1, <4>3 DEF IInv, TimerInv, Found
    <3>4. QED
      BY Zenon, <3>2, <3>3
  <2>8. Kept'
    <3> SUFFICES ASSUME NEW u \in Vcls, NEW j \in Index, <<u, j>> \notin raced, tick_timers[u][j] # None
                 PROVE  /\ tick_timers[u][j] \in joined =>
                             \E d \in Callers : At(d, u, j)' /\ call'[d].at \in {"free", "clear"}
                        /\ tick_timers[u][j] \in freed' =>
                             \E d \in Callers : At(d, u, j)' /\ call'[d].at = "clear"
      BY Zenon, <1>0 DEF Kept
    <3>1. \A d \in Callers : /\ call[d].at \in {"free", "clear"} => call'[d].at \in {"free", "clear"}
                             /\ call[d].at = "clear" => call'[d].at = "clear"
      BY ZenonT(40), <1>0, <2>2, <2>3
    <3>2. tick_timers[u][j] = t => u = v /\ j = i
      BY <1>2 DEF IInv, TimerInv, Homes
    <3>3. tick_timers[u][j] \in joined =>
             \E d \in Callers : At(d, u, j)' /\ call'[d].at \in {"free", "clear"}
      BY Zenon, <2>4, <3>1 DEF IInv, TimerInv, Kept
    <3>4. CASE tick_timers[u][j] = t
      BY ZenonT(40), <1>2, <2>3, <2>4, <3>2, <3>3, <3>4
    <3>5. CASE tick_timers[u][j] # t
      BY ZenonT(40), <2>1, <2>4, <3>1, <3>3, <3>5 DEF IInv, TimerInv, Kept
    <3>6. QED
      BY Zenon, <3>4, <3>5
  <2>9. Ended'
    <3>1. t # None /\ home[t] \notin raced => thread[t] = "done"
      BY ZenonT(60), <1>2, <1>3 DEF IInv, TimerInv, Ended
    <3>2. QED
      BY Zenon, <1>0, <2>1, <3>1 DEF IInv, TimerInv, Ended
  <2>10. Reached'
    <3>1. \A d \in Callers : call[d].at = "publish" => call'[d] = call[d]
      BY Zenon, <1>0, <2>2
    <3>2. ASSUME NEW u \in Timers, Lives(u), home[u] \notin raced
          PROVE  \/ tick_timers[home[u][1]][home[u][2]] = u
                 \/ \E d \in Callers : call'[d].at = "publish" /\ call'[d].t = u
      BY Zenon, <3>1, <3>2 DEF IInv, TimerInv, Reached
    <3>3. home' = home /\ raced' = raced /\ thread' = thread /\ tick_timers' = tick_timers
      BY Zenon, <1>0
    <3>4. QED
      BY SMTT(30), <3>2, <3>3 DEF Reached, Lives
  <2>11. Emptied'
    BY ZenonT(40), <1>0, <1>1, <2>4, Distinct DEF IInv, TimerInv, Emptied, Passed, Torn
  <2>12. QED
    BY ZenonT(40), <1>1, <2>4, <2>5, <2>6, <2>7, <2>8, <2>9, <2>10, <2>11 DEF IInv, TimerInv
<1>7. QED
  BY Zenon, <1>5, <1>6

LEMMA ClearTimerInv == ASSUME IInv, NEW c \in Callers, ClearTimer(c) PROVE IInv'
<1> DEFINE v == call[c].v
           i == call[c].i
<1>0. /\ call[c].at = "clear"
      /\ tick_timers' = [tick_timers EXCEPT ![v][i] = None]
      /\ call' = [call EXCEPT ![c] = IF call[c].on THEN [call[c] EXCEPT !.at = "create"] ELSE NoCall]
      /\ UNCHANGED <<running, home, thread, freed, joined, sets, raced, fault>>
  BY Zenon DEF ClearTimer, AfterStop
<1>1. VclInv' /\ cli' = cli /\ req' = req /\ vcl' = vcl
  BY Zenon, CallVars DEF ClearTimer
<1>2. /\ v \in Vcls /\ i \in Index /\ call[c] \in CallTypes /\ call[c].t = None
      /\ At(c, v, i)
  BY Zenon, <1>0, InCall DEF IInv, TimerInv, Homes, At
<1>3. /\ tick_timers' \in [Vcls -> [Index -> Timers \cup {None}]]
      /\ tick_timers'[v][i] = None
      /\ \A u \in Vcls, j \in Index : u # v \/ j # i => tick_timers'[u][j] = tick_timers[u][j]
  <2>1. tick_timers \in [Vcls -> [Index -> Timers \cup {None}]]
    BY Zenon DEF IInv, TimerInv, TimerTypes
  <2>2. QED
    BY Zenon, <1>0, <1>2, <2>1
<1>4. /\ call' \in [Callers -> CallTypes] /\ \A d \in Callers \ {c} : call'[d] = call[d]
      /\ \/ call'[c] = NoCall
         \/ call[c].on /\ call'[c] = [call[c] EXCEPT !.at = "create"]
  <2>1. NoCall \in CallTypes /\ [call[c] EXCEPT !.at = "create"] \in CallTypes
    BY <1>2, Distinct DEF NoCall, CallTypes, CallPoints
  <2>2. call \in [Callers -> CallTypes]
    BY Zenon DEF IInv, TimerInv, TimerTypes
  <2>3. QED
    BY Zenon, <1>0, <2>1, <2>2
<1>5. /\ call'[c].at \in {"none", "create"} /\ call'[c].t = None
      /\ call'[c].at # "none" => /\ call'[c].v = v /\ call'[c].i = i
                                 /\ call'[c].on = call[c].on /\ call[c].on
  BY <1>2, <1>4 DEF NoCall, CallTypes
<1>6. /\ Alone' /\ Calls'
      /\ \A d \in Callers, u \in Vcls, j \in Index :
           /\ At(d, u, j)' => At(d, u, j)
           /\ At(d, u, j) /\ d # c => At(d, u, j)'
  BY ZenonT(40), <1>0, <1>1, <1>4, <1>5, CallRules
<1>7. TimerTypes' /\ NoFault' /\ Ended'
  BY ZenonT(40), <1>0, <1>3, <1>4 DEF IInv, TimerInv, TimerTypes, NoFault, Ended
<1>8. Homes'
  <2>1. \A d \in Callers \ {c} :
           /\ call'[d].t # None <=> call'[d].at \in {"wait", "publish"}
           /\ call'[d].t # None => home[call'[d].t] = <<call'[d].v, call'[d].i>>
    BY ZenonT(40), <1>4 DEF IInv, TimerInv, Homes
  <2>2. \A d \in Callers :
           /\ call'[d].t # None <=> call'[d].at \in {"wait", "publish"}
           /\ call'[d].t # None => home[call'[d].t] = <<call'[d].v, call'[d].i>>
    BY Zenon, <1>5, <2>1
  <2>3. \A u \in Vcls, j \in Index :
           tick_timers'[u][j] # None => home[tick_timers'[u][j]] = <<u, j>>
    <3> SUFFICES ASSUME NEW u \in Vcls, NEW j \in Index, tick_timers'[u][j] # None
                 PROVE  home[tick_timers'[u][j]] = <<u, j>>
      OBVIOUS
    <3>1. tick_timers'[u][j] = tick_timers[u][j]
      BY Zenon, <1>3
    <3>2. QED
      BY ZenonT(40), <3>1 DEF IInv, TimerInv, Homes
  <2>4. QED
    BY ZenonT(40), <1>0, <2>2, <2>3 DEF IInv, TimerInv, Homes
<1>9. Found'
  <2> SUFFICES ASSUME NEW d \in Callers, call'[d].at # "none", <<call'[d].v, call'[d].i>> \notin raced
               PROVE  /\ call'[d].at = "join" => Slot(d)' # None
                      /\ call'[d].at = "wait" => Slot(d)' = call'[d].t
                      /\ call'[d].at \in {"free", "clear"} => Slot(d)' # None /\ Slot(d)' \in joined
                      /\ call'[d].at \in {"create", "publish"} => Slot(d)' = None
                      /\ call'[d].at = "publish" => call'[d].t \notin joined \cup freed
    BY Zenon, <1>0 DEF Found
  <2>1. CASE d = c
    BY Zenon, <1>3, <1>5, <2>1 DEF Slot
  <2>2. CASE d # c
    <3>1. call'[d] = call[d] /\ call[d].v \in Vcls /\ call[d].i \in Index
      BY Zenon, <1>4, <2>2, InCall
    <3>2. call[d].v # v \/ call[d].i # i
      BY Zenon, <1>2, <2>2, <3>1 DEF IInv, TimerInv, Alone, At
    <3>3. Slot(d)' = Slot(d)
      BY ZenonT(40), <1>3, <3>1, <3>2 DEF Slot
    <3>4. QED
      BY Zenon, <3>1, <3>3 DEF IInv, TimerInv, Found
  <2>3. QED
    BY Zenon, <2>1, <2>2
<1>10. Kept'
  <2> SUFFICES ASSUME NEW u \in Vcls, NEW j \in Index, <<u, j>> \notin raced, tick_timers'[u][j] # None
               PROVE  /\ tick_timers'[u][j] \in joined =>
                           \E d \in Callers : At(d, u, j)' /\ call'[d].at \in {"free", "clear"}
                      /\ tick_timers'[u][j] \in freed =>
                           \E d \in Callers : At(d, u, j)' /\ call'[d].at = "clear"
    BY Zenon, <1>0 DEF Kept
  <2>1. (u # v \/ j # i) /\ tick_timers'[u][j] = tick_timers[u][j]
    BY Zenon, <1>3
  <2>2. \A d \in Callers : At(d, u, j) => d # c
    BY Zenon, <2>1 DEF At
  <2>3. \A d \in Callers : At(d, u, j) => At(d, u, j)' /\ call'[d].at = call[d].at
    BY Zenon, <1>4, <1>6, <2>2
  <2>4. QED
    BY <2>1, <2>3 DEF IInv, TimerInv, Kept
<1>11. Reached'
  <2> SUFFICES ASSUME NEW t \in Timers, Lives(t), home[t] \notin raced
               PROVE  \/ tick_timers'[home[t][1]][home[t][2]] = t
                      \/ \E d \in Callers : call'[d].at = "publish" /\ call'[d].t = t
    BY ZenonT(60), <1>0 DEF Reached, Lives
  <2>1. CASE tick_timers[home[t][1]][home[t][2]] = t
    <3>1. home[t] \in Vcls \X Index
      BY DEF IInv, TimerInv, TimerTypes, Homes, Lives
    <3>2. home[t] # <<v, i>>
      <4>1. ASSUME home[t] = <<v, i>> PROVE FALSE
        <5>1. Slot(c) = t
          BY <2>1, <4>1 DEF Slot
        <5>2. t \in joined
          BY ZenonT(40), <1>0, <4>1, <5>1 DEF IInv, TimerInv, Found
        <5>3. QED
          BY ZenonT(40), <5>2 DEF IInv, TimerInv, Ended, Lives
      <4>2. QED
        BY Zenon, <4>1
    <3>3. tick_timers'[home[t][1]][home[t][2]] = tick_timers[home[t][1]][home[t][2]]
      BY <1>3, <3>1, <3>2
    <3>4. QED
      BY ZenonT(40), <2>1, <3>3
  <2>2. CASE \E d \in Callers : call[d].at = "publish" /\ call[d].t = t
    BY Zenon, <1>0, <1>4, <2>2
  <2>3. QED
    BY Zenon, <2>1, <2>2 DEF IInv, TimerInv, Reached
<1>12. Emptied'
  <2> SUFFICES ASSUME NEW u \in Vcls, NEW j \in Index, <<u, j>> \notin raced, Passed(u, j)',
                      u # v \/ j # i
               PROVE  tick_timers[u][j] = None
    BY <1>0, <1>3 DEF Emptied
  <2>1. At(Cli, u, j) => At(Cli, u, j)'
    <3>1. At(Cli, u, j) => Cli # c
      BY Zenon DEF At
    <3>2. QED
      BY Zenon, <1>6, <3>1, Distinct
  <2>2. QED
    BY ZenonT(40), <1>1, <2>1 DEF IInv, TimerInv, Emptied, Passed, Torn
<1>13. QED
  BY ZenonT(40), <1>1, <1>6, <1>7, <1>8, <1>9, <1>10, <1>11, <1>12 DEF IInv, TimerInv

LEMMA CreateTimerInv ==
  ASSUME IInv, NEW c \in Callers, NEW t \in Timers, CreateTimer(c, t) PROVE IInv'
<1> DEFINE v == call[c].v
           i == call[c].i
<1>0. /\ call[c].at = "create"
      /\ thread' = [thread EXCEPT ![t] = "sleep"]
      /\ running' = [running EXCEPT ![t] = TRUE]
      /\ home' = [home EXCEPT ![t] = <<v, i>>]
      /\ call' = [call EXCEPT ![c] = [call[c] EXCEPT !.at = "publish", !.t = t]]
      /\ UNCHANGED <<tick_timers, freed, joined, sets, raced, fault>>
  BY Zenon DEF CreateTimer, IInv, TimerInv, TimerTypes
<1>1. VclInv' /\ cli' = cli /\ req' = req /\ vcl' = vcl
  BY Zenon, CallVars DEF CreateTimer
<1>2. /\ v \in Vcls /\ i \in Index /\ call[c] \in CallTypes /\ call[c].on
      /\ At(c, v, i)
  BY ZenonT(40), <1>0, InCall DEF IInv, TimerInv, Calls, At
<1>3. thread[t] = None /\ home[t] = <<None, 0>> /\ t \notin freed \cup joined
  <2>1. thread[t] = None
    BY Zenon DEF CreateTimer, Fresh
  <2>2. QED
    BY Zenon, <2>1 DEF IInv, TimerInv, Homes
<1>4. /\ call' \in [Callers -> CallTypes] /\ \A d \in Callers \ {c} : call'[d] = call[d]
      /\ call'[c] = [call[c] EXCEPT !.at = "publish", !.t = t]
  <2>1. [call[c] EXCEPT !.at = "publish", !.t = t] \in CallTypes
    BY Zenon, <1>2 DEF CallTypes, CallPoints
  <2>2. call \in [Callers -> CallTypes]
    BY Zenon DEF IInv, TimerInv, TimerTypes
  <2>3. QED
    BY Zenon, <1>0, <2>1, <2>2
<1>5. /\ call'[c].at = "publish" /\ call'[c].t = t
      /\ call'[c].v = v /\ call'[c].i = i /\ call'[c].on = call[c].on
  <2> DEFINE r == call[c]
  <2>1. r \in CallTypes /\ call'[c] = [r EXCEPT !.at = "publish", !.t = t]
    BY Zenon, <1>2, <1>4
  <2> HIDE DEF r
  <2>2. /\ call'[c].at = "publish" /\ call'[c].t = t
        /\ call'[c].v = r.v /\ call'[c].i = r.i /\ call'[c].on = r.on
    BY Zenon, <2>1 DEF CallTypes
  <2>3. QED
    BY Zenon, <2>2 DEF r
<1>6. /\ thread' \in [Timers -> TimerPoints] /\ running' \in [Timers -> BOOLEAN]
      /\ home' \in [Timers -> (Vcls \X Index) \cup {<<None, 0>>}]
      /\ thread'[t] = "sleep" /\ home'[t] = <<v, i>>
      /\ \A x \in Timers \ {t} : thread'[x] = thread[x] /\ home'[x] = home[x]
  <2>1. /\ thread \in [Timers -> TimerPoints] /\ running \in [Timers -> BOOLEAN]
        /\ home \in [Timers -> (Vcls \X Index) \cup {<<None, 0>>}]
    BY Zenon DEF IInv, TimerInv, TimerTypes
  <2>2. QED
    BY Zenon, <1>0, <1>2, <2>1 DEF TimerPoints
<1>7. /\ Alone' /\ Calls'
      /\ \A d \in Callers, u \in Vcls, j \in Index : At(d, u, j)' <=> At(d, u, j)
  <2>1. \A x \in Timers : thread[x] = "guest" => home'[x] = home[x] /\ thread'[x] = thread[x]
    BY Zenon, <1>3, <1>6 DEF None
  <2>2. QED
    BY ZenonT(40), <1>0, <1>1, <1>2, <1>4, <1>5, <2>1, CallRules
<1>8. TimerTypes' /\ NoFault'
  BY Zenon, <1>0, <1>4, <1>6 DEF IInv, TimerInv, TimerTypes, NoFault
<1>9. Homes'
  <2>1. \A x \in Timers : thread'[x] = None <=> home'[x] = <<None, 0>>
    <3>1. <<v, i>> # <<None, 0>>
      BY Zenon, <1>2, Distinct
    <3>2. QED
      BY ZenonT(60), <1>6, <3>1 DEF IInv, TimerInv, Homes, None
  <2>2. \A x \in freed \cup joined : thread'[x] # None
    <3>1. freed \cup joined \subseteq Timers
      BY Zenon DEF IInv, TimerInv, TimerTypes
    <3>2. QED
      BY ZenonT(40), <1>3, <1>6, <3>1 DEF IInv, TimerInv, Homes
  <2>3. \A u \in Vcls, j \in Index :
           tick_timers[u][j] # None => home'[tick_timers[u][j]] = <<u, j>>
    <3> SUFFICES ASSUME NEW u \in Vcls, NEW j \in Index, tick_timers[u][j] # None
                 PROVE  home'[tick_timers[u][j]] = <<u, j>>
      OBVIOUS
    <3>1. home[tick_timers[u][j]] = <<u, j>> /\ tick_timers[u][j] \in Timers
      <4>1. tick_timers \in [Vcls -> [Index -> Timers \cup {None}]]
        BY Zenon DEF IInv, TimerInv, TimerTypes
      <4>2. home[tick_timers[u][j]] = <<u, j>>
        BY Zenon DEF IInv, TimerInv, Homes
      <4>3. QED
        BY Zenon, <4>1, <4>2
    <3>2. tick_timers[u][j] # t
      <4>1. <<u, j>> # <<None, 0>>
        BY Distinct
      <4>2. QED
        BY ZenonT(40), <1>3, <3>1, <4>1
    <3>3. QED
      BY ZenonT(40), <1>6, <3>1, <3>2
  <2>4. ASSUME NEW d \in Callers \ {c}
        PROVE  /\ call'[d].t # None <=> call'[d].at \in {"wait", "publish"}
               /\ call'[d].t # None => home'[call'[d].t] = <<call'[d].v, call'[d].i>>
    <3>1. call'[d] = call[d] /\ call[d] \in CallTypes
      BY Zenon, <1>4 DEF IInv, TimerInv, TimerTypes
    <3>2. /\ call[d].t # None <=> call[d].at \in {"wait", "publish"}
          /\ call[d].t # None => home[call[d].t] = <<call[d].v, call[d].i>>
      BY Zenon DEF IInv, TimerInv, Homes
    <3>3. call[d].at # "none" => call[d].v \in Vcls
      BY Zenon DEF IInv, TimerInv, Calls
    <3>4. call[d].t # None => call[d].t # t /\ call[d].t \in Timers
      <4>1. call[d].t # None => <<call[d].v, call[d].i>> # <<None, 0>>
        <5>1. call[d].t # None => call[d].v \in Vcls
          BY Zenon, <3>2, <3>3
        <5>2. QED
          BY <5>1, Distinct
      <4>2. QED
        BY ZenonT(40), <1>3, <3>1, <3>2, <4>1 DEF CallTypes
    <3>5. QED
      BY ZenonT(40), <1>6, <3>1, <3>2, <3>4
  <2>5. /\ call'[c].t # None <=> call'[c].at \in {"wait", "publish"}
        /\ call'[c].t # None => home'[call'[c].t] = <<call'[c].v, call'[c].i>>
    BY Zenon, <1>5, <1>6, Distinct
  <2>6. \A d \in Callers :
           /\ call'[d].t # None <=> call'[d].at \in {"wait", "publish"}
           /\ call'[d].t # None => home'[call'[d].t] = <<call'[d].v, call'[d].i>>
    BY Zenon, <2>4, <2>5
  <2>7. freed' = freed /\ joined' = joined /\ tick_timers' = tick_timers
    BY Zenon, <1>0
  <2>8. QED
    BY ZenonT(40), <2>1, <2>2, <2>3, <2>6, <2>7 DEF Homes
<1>10. Found'
  <2> SUFFICES ASSUME NEW d \in Callers, call'[d].at # "none", <<call'[d].v, call'[d].i>> \notin raced
               PROVE  /\ call'[d].at = "join" => Slot(d)' # None
                      /\ call'[d].at = "wait" => Slot(d)' = call'[d].t
                      /\ call'[d].at \in {"free", "clear"} => Slot(d)' # None /\ Slot(d)' \in joined
                      /\ call'[d].at \in {"create", "publish"} => Slot(d)' = None
                      /\ call'[d].at = "publish" => call'[d].t \notin joined \cup freed
    BY Zenon, <1>0 DEF Found
  <2>1. Slot(d)' = Slot(d)
    BY Zenon, <1>0, <1>4, <1>5 DEF Slot
  <2>2. CASE d = c
    BY ZenonT(40), <1>0, <1>3, <1>5, <2>1, <2>2 DEF IInv, TimerInv, Found
  <2>3. CASE d # c
    <3>1. call'[d] = call[d]
      BY Zenon, <1>4, <2>3
    <3>2. QED
      BY Zenon, <2>1, <3>1 DEF IInv, TimerInv, Found
  <2>4. QED
    BY Zenon, <2>2, <2>3
<1>11. Kept'
  <2>1. \A d \in Callers : call[d].at \in {"free", "clear"} => call'[d].at = call[d].at
    BY Zenon, <1>0, <1>4
  <2>2. QED
    BY <1>0, <1>7, <2>1 DEF IInv, TimerInv, Kept
<1>12. Ended'
  <2>1. freed \cup joined \subseteq Timers
    BY Zenon DEF IInv, TimerInv, TimerTypes
  <2>2. QED
    BY ZenonT(40), <1>0, <1>3, <1>6, <2>1 DEF IInv, TimerInv, Ended
<1>13. Reached'
  <2> SUFFICES ASSUME NEW x \in Timers, Lives(x)', home'[x] \notin raced
               PROVE  \/ tick_timers[home'[x][1]][home'[x][2]] = x
                      \/ \E d \in Callers : call'[d].at = "publish" /\ call'[d].t = x
    BY ZenonT(60), <1>0 DEF Reached
  <2>1. CASE x = t
    BY ZenonT(40), <1>5, <2>1
  <2>2. CASE x # t
    <3>1. Lives(x) /\ home'[x] = home[x]
      BY Zenon, <1>6, <2>2 DEF Lives
    <3>2. \A d \in Callers : call[d].at = "publish" => call'[d] = call[d]
      BY Zenon, <1>0, <1>4
    <3>3. QED
      BY <3>1, <3>2 DEF IInv, TimerInv, Reached
  <2>3. QED
    BY Zenon, <2>1, <2>2
<1>14. Emptied'
  BY ZenonT(40), <1>0, <1>1, <1>7, Distinct DEF IInv, TimerInv, Emptied, Passed, Torn
<1>15. QED
  BY ZenonT(40), <1>1, <1>7, <1>8, <1>9, <1>10, <1>11, <1>12, <1>13, <1>14 DEF IInv, TimerInv

\* A caller that is to set a timer uses an engine that nobody destroys.
LEMMA Setting ==
  ASSUME IInv, NEW c \in Callers, call[c].at # "none", call[c].on,
         <<call[c].v, call[c].i>> \notin raced
  PROVE  vcl[call[c].v] # "gone" /\ ~ Torn(call[c].v)
<1>1. CASE c = Cli
  <2>1. cli.at = "warm" /\ cli.v = call[c].v
    BY Zenon, <1>1 DEF IInv, TimerInv, Calls
  <2>2. QED
    BY Zenon, <2>1 DEF IInv, VclInv, Events, Loading, Torn, Tearing
<1>2. CASE c \in Workers
  <2>1. req[c] = call[c].v /\ call[c].v \in Vcls
    BY Zenon, <1>2 DEF IInv, TimerInv, Calls
  <2>2. QED
    BY ZenonT(40), <1>2, <2>1, Distinct DEF IInv, VclInv, Requests
<1>3. CASE c \in Timers
  BY ZenonT(40), <1>3 DEF IInv, TimerInv, Calls
<1>4. QED
  BY Zenon, <1>1, <1>2, <1>3 DEF Callers

LEMMA PublishTimerInv == ASSUME IInv, NEW c \in Callers, PublishTimer(c) PROVE IInv'
<1> DEFINE v == call[c].v
           i == call[c].i
           t == call[c].t
<1>0. /\ call[c].at = "publish"
      /\ tick_timers' = [tick_timers EXCEPT ![v][i] = t]
      /\ call' = [call EXCEPT ![c] = NoCall]
      /\ UNCHANGED <<running, home, thread, freed, joined, sets, raced, fault>>
  BY Zenon DEF PublishTimer
<1>1. VclInv' /\ cli' = cli /\ req' = req /\ vcl' = vcl
  BY Zenon, CallVars DEF PublishTimer
<1>2. /\ v \in Vcls /\ i \in Index /\ call[c] \in CallTypes /\ call[c].on
      /\ At(c, v, i)
  BY Zenon, <1>0, InCall DEF IInv, TimerInv, Calls, At
<1>3. t \in Timers /\ home[t] = <<v, i>>
  BY Zenon, <1>0, <1>2 DEF IInv, TimerInv, Homes, CallTypes
<1>4. /\ tick_timers' \in [Vcls -> [Index -> Timers \cup {None}]]
      /\ tick_timers'[v][i] = t
      /\ \A u \in Vcls, j \in Index : u # v \/ j # i => tick_timers'[u][j] = tick_timers[u][j]
  <2>1. tick_timers \in [Vcls -> [Index -> Timers \cup {None}]]
    BY Zenon DEF IInv, TimerInv, TimerTypes
  <2> HIDE DEF v, i, t
  <2>2. QED
    BY Zenon, <1>0, <1>2, <1>3, <2>1
<1>5. /\ call' \in [Callers -> CallTypes] /\ \A d \in Callers \ {c} : call'[d] = call[d]
      /\ call'[c].at = "none" /\ call'[c].t = None
  <2>1. NoCall \in CallTypes /\ NoCall.at = "none" /\ NoCall.t = None
    BY Zenon, NoCallType
  <2>2. call \in [Callers -> CallTypes]
    BY Zenon DEF IInv, TimerInv, TimerTypes
  <2>3. QED
    BY Zenon, <1>0, <2>1, <2>2
<1>6. /\ Alone' /\ Calls'
      /\ \A d \in Callers, u \in Vcls, j \in Index :
           /\ At(d, u, j)' => At(d, u, j)
           /\ At(d, u, j) /\ d # c => At(d, u, j)'
  BY ZenonT(40), <1>0, <1>1, <1>5, CallRules
<1>7. TimerTypes' /\ NoFault' /\ Ended'
  BY ZenonT(40), <1>0, <1>4, <1>5 DEF IInv, TimerInv, TimerTypes, NoFault, Ended
<1>8. Homes'
  <2>1. \A d \in Callers \ {c} :
           /\ call'[d].t # None <=> call'[d].at \in {"wait", "publish"}
           /\ call'[d].t # None => home[call'[d].t] = <<call'[d].v, call'[d].i>>
    <3>1. \A d \in Callers \ {c} : call'[d] = call[d]
      BY Zenon, <1>5
    <3>2. QED
      BY Zenon, <3>1 DEF IInv, TimerInv, Homes
  <2>2. \A d \in Callers :
           /\ call'[d].t # None <=> call'[d].at \in {"wait", "publish"}
           /\ call'[d].t # None => home[call'[d].t] = <<call'[d].v, call'[d].i>>
    BY Zenon, <1>5, <2>1
  <2>3. ASSUME NEW u \in Vcls, NEW j \in Index, tick_timers'[u][j] # None
        PROVE  home[tick_timers'[u][j]] = <<u, j>>
    <3>1. CASE u = v /\ j = i
      BY ZenonT(40), <1>3, <1>4, <3>1
    <3>2. CASE u # v \/ j # i
      <4>1. tick_timers'[u][j] = tick_timers[u][j]
        BY Zenon, <1>4, <3>2
      <4>2. QED
        BY ZenonT(40), <2>3, <4>1 DEF IInv, TimerInv, Homes
    <3>3. QED
      BY Zenon, <3>1, <3>2
  <2>4. QED
    BY ZenonT(40), <1>0, <2>2, <2>3 DEF IInv, TimerInv, Homes
<1>9. Found'
  <2> SUFFICES ASSUME NEW d \in Callers, call'[d].at # "none", <<call'[d].v, call'[d].i>> \notin raced
               PROVE  /\ call'[d].at = "join" => Slot(d)' # None
                      /\ call'[d].at = "wait" => Slot(d)' = call'[d].t
                      /\ call'[d].at \in {"free", "clear"} => Slot(d)' # None /\ Slot(d)' \in joined
                      /\ call'[d].at \in {"create", "publish"} => Slot(d)' = None
                      /\ call'[d].at = "publish" => call'[d].t \notin joined \cup freed
    BY Zenon, <1>0 DEF Found
  <2>1. d # c /\ call'[d] = call[d]
    BY Zenon, <1>5
  <2>2. call[d].v \in Vcls /\ call[d].i \in Index
    BY Zenon, <2>1, InCall
  <2>3. call[d].v # v \/ call[d].i # i
    BY ZenonT(40), <1>2, <2>1, <2>2 DEF IInv, TimerInv, Alone, At
  <2>4. Slot(d)' = Slot(d)
    BY <1>4, <2>1, <2>2, <2>3 DEF Slot
  <2>5. QED
    BY ZenonT(40), <2>1, <2>4 DEF IInv, TimerInv, Found
<1>10. Kept'
  <2> SUFFICES ASSUME NEW u \in Vcls, NEW j \in Index, <<u, j>> \notin raced, tick_timers'[u][j] # None
               PROVE  /\ tick_timers'[u][j] \in joined =>
                           \E d \in Callers : At(d, u, j)' /\ call'[d].at \in {"free", "clear"}
                      /\ tick_timers'[u][j] \in freed =>
                           \E d \in Callers : At(d, u, j)' /\ call'[d].at = "clear"
    BY <1>0 DEF Kept
  <2>1. CASE u = v /\ j = i
    <3>1. t \notin joined \cup freed
      BY ZenonT(40), <1>0, <2>1 DEF IInv, TimerInv, Found
    <3>2. QED
      BY Zenon, <1>4, <2>1, <3>1
  <2>2. CASE u # v \/ j # i
    <3>1. tick_timers'[u][j] = tick_timers[u][j]
      BY Zenon, <1>4, <2>2
    <3>2. \A d \in Callers : At(d, u, j) => d # c
      BY Zenon, <2>2 DEF At
    <3>3. \A d \in Callers : At(d, u, j) => At(d, u, j)' /\ call'[d].at = call[d].at
      BY Zenon, <1>5, <1>6, <3>2
    <3>4. QED
      BY <3>1, <3>3 DEF IInv, TimerInv, Kept
  <2>3. QED
    BY ZenonT(40), <2>1, <2>2
<1>11. Reached'
  <2> SUFFICES ASSUME NEW x \in Timers, Lives(x), home[x] \notin raced
               PROVE  \/ tick_timers'[home[x][1]][home[x][2]] = x
                      \/ \E d \in Callers : call'[d].at = "publish" /\ call'[d].t = x
    BY Zenon, <1>0 DEF Reached, Lives
  <2>1. CASE tick_timers[home[x][1]][home[x][2]] = x
    <3>1. home[x] \in Vcls \X Index
      BY DEF IInv, TimerInv, TimerTypes, Homes, Lives
    <3>2. home[x] # <<v, i>>
      <4>1. ASSUME home[x] = <<v, i>> PROVE FALSE
        <5>1. Slot(c) = x
          BY <2>1, <4>1 DEF Slot
        <5>2. Slot(c) = None
          BY ZenonT(40), <1>0, <4>1 DEF IInv, TimerInv, Found
        <5>3. QED
          BY ZenonT(40), <5>1, <5>2, Distinct
      <4>2. QED
        BY Zenon, <4>1
    <3>3. tick_timers'[home[x][1]][home[x][2]] = tick_timers[home[x][1]][home[x][2]]
      BY <1>4, <3>1, <3>2
    <3>4. QED
      BY ZenonT(40), <2>1, <3>3
  <2>2. CASE \E d \in Callers : call[d].at = "publish" /\ call[d].t = x
    <3>1. PICK d \in Callers : call[d].at = "publish" /\ call[d].t = x
      BY ZenonT(40), <2>2
    <3>2. CASE d = c
      <4>1. x = t
        BY Zenon, <3>1, <3>2
      <4>2. QED
        <5>1. home[x] = <<v, i>> /\ tick_timers'[v][i] = x
          BY Zenon, <1>3, <1>4, <4>1
        <5>2. QED
          BY <5>1
    <3>3. CASE d # c
      BY ZenonT(40), <1>5, <3>1, <3>3
    <3>4. QED
      BY Zenon, <3>2, <3>3
  <2>3. QED
    BY Zenon, <2>1, <2>2 DEF IInv, TimerInv, Reached
<1>12. Emptied'
  <2> SUFFICES ASSUME NEW u \in Vcls, NEW j \in Index, <<u, j>> \notin raced, Passed(u, j)'
               PROVE  tick_timers'[u][j] = None
    BY Zenon, <1>0 DEF Emptied
  <2>1. u # v \/ j # i
    <3>1. ASSUME u = v, j = i PROVE FALSE
      <4>1. vcl[u] # "gone" /\ ~ Torn(u)
        BY ZenonT(40), <1>0, <1>2, <3>1, Setting
      <4>2. QED
        BY Zenon, <1>1, <4>1 DEF Passed, Torn
    <3>2. QED
      BY Zenon, <3>1
  <2>2. tick_timers'[u][j] = tick_timers[u][j]
    BY Zenon, <1>4, <2>1
  <2>3. At(Cli, u, j) => At(Cli, u, j)'
    <3>1. At(Cli, u, j) => Cli # c
      BY Zenon, <2>1 DEF At
    <3>2. QED
      BY Zenon, <1>6, <3>1, Distinct
  <2>4. QED
    BY ZenonT(40), <1>1, <2>2, <2>3 DEF IInv, TimerInv, Emptied, Passed, Torn
<1>13. QED
  BY <1>1, <1>6, <1>7, <1>8, <1>9, <1>10, <1>11, <1>12 DEF IInv, TimerInv

\* A call of vwasm_engine_set_tick_period or a round of engine_destroy begins: c is
\* about to stop the timer of the i-th module of v.
Begins(c, v, i) ==
  /\ call[c].at = "none"
  /\ UNCHANGED <<req, vcl, tick_timers, running, home, thread, freed, joined>>
  /\ call' \in [Callers -> CallTypes]
  /\ \A d \in Callers \ {c} : call'[d] = call[d]
  /\ call'[c].at = "stop" /\ call'[c].v = v /\ call'[c].i = i /\ call'[c].t = None
  /\ raced \subseteq raced' /\ raced' \subseteq Vcls \X Index
  /\ \A d \in Callers \ {c} : At(d, v, i) => <<v, i>> \in raced'
  /\ c # Cli => cli' = cli
  /\ c \in Workers => req[c] = v
  /\ c = Cli => /\ cli'.v = v
                /\ \/ cli'.at = "warm" /\ i = cli'.i
                   \/ cli'.at = "timers" /\ i = cli'.i - 1 /\ ~ call'[c].on
  /\ c \in Timers => home[c] = <<v, i>> /\ <<v, i>> \in raced' /\ thread[c] = "guest"
  /\ \A u \in Vcls, j \in Index : Passed(u, j)' => Passed(u, j)
  /\ sets' \in 0 .. MaxSets /\ fault' \in BOOLEAN /\ (raced' = {} => ~ fault')

LEMMA CallBegins ==
  ASSUME IInv, VclInv', NEW c \in Callers, NEW v \in Vcls, NEW i \in Index, Begins(c, v, i)
  PROVE  IInv'
<1>0. /\ UNCHANGED <<req, vcl, tick_timers, running, home, thread, freed, joined>>
      /\ call[c].at = "none"
      /\ \A d \in Callers \ {c} : call'[d] = call[d]
      /\ call'[c].at = "stop" /\ call'[c].v = v /\ call'[c].i = i /\ call'[c].t = None
      /\ raced \subseteq raced'
  BY Zenon DEF Begins
<1>1. \A d \in Callers, u \in Vcls, j \in Index :
         /\ At(d, u, j) => d # c /\ At(d, u, j)' /\ call'[d] = call[d]
         /\ At(d, u, j)' => At(d, u, j) \/ (d = c /\ u = v /\ j = i)
  BY ZenonT(40), <1>0 DEF At
<1>2. TimerTypes' /\ NoFault'
  <2>1. /\ call' \in [Callers -> CallTypes] /\ raced' \subseteq Vcls \X Index
        /\ sets' \in 0 .. MaxSets /\ fault' \in BOOLEAN /\ (raced' = {} => ~ fault')
    BY Zenon DEF Begins
  <2>2. QED
    BY Zenon, <1>0, <2>1 DEF IInv, TimerInv, TimerTypes, NoFault
<1>3. Alone'
  <2> SUFFICES ASSUME NEW d \in Callers, NEW e \in Callers, NEW u \in Vcls, NEW j \in Index,
                      d # e, At(d, u, j)', At(e, u, j)'
               PROVE  <<u, j>> \in raced'
    BY Zenon DEF Alone
  <2>0. \A x \in Callers \ {c} : At(x, v, i) => <<v, i>> \in raced'
    BY Zenon DEF Begins
  <2>1. CASE At(d, u, j) /\ At(e, u, j)
    BY Zenon, <1>0, <2>1 DEF IInv, TimerInv, Alone
  <2>2. CASE ~ At(d, u, j)
    <3>1. d = c /\ u = v /\ j = i
      BY Zenon, <1>1, <2>2
    <3>2. QED
      BY Zenon, <1>1, <2>0, <3>1
  <2>3. CASE ~ At(e, u, j)
    <3>1. e = c /\ u = v /\ j = i
      BY Zenon, <1>1, <2>3
    <3>2. QED
      BY Zenon, <1>1, <2>0, <3>1
  <2>4. QED
    BY Zenon, <2>1, <2>2, <2>3
<1>4. Calls'
  <2> SUFFICES ASSUME NEW d \in Callers, call'[d].at # "none"
               PROVE  /\ call'[d].v \in Vcls /\ call'[d].i \in Index
                      /\ d \in Workers => req[d] = call'[d].v
                      /\ d = Cli => /\ cli'.v = call'[d].v
                                    /\ \/ cli'.at = "warm" /\ call'[d].i = cli'.i
                                       \/ cli'.at = "timers" /\ call'[d].i = cli'.i - 1 /\ ~ call'[d].on
                      /\ d \in Timers => /\ home[d] = <<call'[d].v, call'[d].i>> /\ home[d] \in raced'
                                         /\ thread[d] = "guest"
                      /\ call'[d].at \in {"create", "publish"} => call'[d].on
    BY ZenonT(40), <1>0 DEF Calls
  <2>1. CASE d = c
    BY Zenon, <2>1 DEF Begins
  <2>2. CASE d # c
    <3>1. call'[d] = call[d] /\ (d = Cli => cli' = cli)
      BY Zenon, <2>2 DEF Begins
    <3>2. \A t \in Timers : home[t] \in raced => home[t] \in raced'
      BY Zenon, <1>0
    <3>3. QED
      BY ZenonT(40), <3>1, <3>2 DEF IInv, TimerInv, Calls
  <2>3. QED
    BY Zenon, <2>1, <2>2
<1>5. Homes'
  <2>1. ASSUME NEW d \in Callers
        PROVE  /\ call'[d].t # None <=> call'[d].at \in {"wait", "publish"}
               /\ call'[d].t # None => home[call'[d].t] = <<call'[d].v, call'[d].i>>
    <3>1. CASE d = c
      BY Zenon, <1>0, <3>1
    <3>2. CASE d # c
      <4>1. call'[d] = call[d]
        BY Zenon, <1>0, <3>2
      <4>2. QED
        BY Zenon, <4>1 DEF IInv, TimerInv, Homes
    <3>3. QED
      BY Zenon, <3>1, <3>2
  <2>2. QED
    BY ZenonT(40), <1>0, <2>1 DEF IInv, TimerInv, Homes
<1>6. Found'
  <2> SUFFICES ASSUME NEW d \in Callers, call'[d].at # "none", <<call'[d].v, call'[d].i>> \notin raced'
               PROVE  /\ call'[d].at = "join" => Slot(d)' # None
                      /\ call'[d].at = "wait" => Slot(d)' = call'[d].t
                      /\ call'[d].at \in {"free", "clear"} => Slot(d)' # None /\ Slot(d)' \in joined
                      /\ call'[d].at \in {"create", "publish"} => Slot(d)' = None
                      /\ call'[d].at = "publish" => call'[d].t \notin joined \cup freed
    BY Zenon, <1>0 DEF Found
  <2>1. CASE d = c
    BY Zenon, <1>0, <2>1
  <2>2. CASE d # c
    <3>1. call'[d] = call[d] /\ Slot(d)' = Slot(d)
      BY Zenon, <1>0, <2>2 DEF Slot
    <3>2. <<call[d].v, call[d].i>> \notin raced
      BY Zenon, <1>0, <3>1
    <3>3. QED
      BY ZenonT(40), <3>1, <3>2 DEF IInv, TimerInv, Found
  <2>3. QED
    BY Zenon, <2>1, <2>2
<1>7. Kept'
  <2> SUFFICES ASSUME NEW u \in Vcls, NEW j \in Index, <<u, j>> \notin raced', tick_timers[u][j] # None
               PROVE  /\ tick_timers[u][j] \in joined =>
                           \E d \in Callers : At(d, u, j)' /\ call'[d].at \in {"free", "clear"}
                      /\ tick_timers[u][j] \in freed =>
                           \E d \in Callers : At(d, u, j)' /\ call'[d].at = "clear"
    BY Zenon, <1>0 DEF Kept
  <2>1. <<u, j>> \notin raced
    BY Zenon, <1>0
  <2>2. ASSUME tick_timers[u][j] \in joined
        PROVE  \E d \in Callers : At(d, u, j)' /\ call'[d].at \in {"free", "clear"}
    <3>1. PICK d \in Callers : At(d, u, j) /\ call[d].at \in {"free", "clear"}
      BY ZenonT(40), <2>2, <2>1 DEF IInv, TimerInv, Kept
    <3>2. QED
      BY Zenon, <3>1, <1>1
  <2>3. ASSUME tick_timers[u][j] \in freed
        PROVE  \E d \in Callers : At(d, u, j)' /\ call'[d].at = "clear"
    <3>1. PICK d \in Callers : At(d, u, j) /\ call[d].at = "clear"
      BY ZenonT(40), <2>3, <2>1 DEF IInv, TimerInv, Kept
    <3>2. QED
      BY Zenon, <3>1, <1>1
  <2>4. QED
    BY Zenon, <2>2, <2>3
<1>8. Ended'
  BY Zenon, <1>0 DEF IInv, TimerInv, Ended
<1>9. Reached'
  <2> SUFFICES ASSUME NEW t \in Timers, Lives(t), home[t] \notin raced
               PROVE  \/ tick_timers[home[t][1]][home[t][2]] = t
                      \/ \E d \in Callers : call'[d].at = "publish" /\ call'[d].t = t
    BY Zenon, <1>0 DEF Reached, Lives
  <2>1. \A d \in Callers : call[d].at = "publish" => call'[d] = call[d]
    BY Zenon, <1>0
  <2>2. QED
    BY Zenon, <2>1 DEF IInv, TimerInv, Reached
<1>10. Emptied'
  <2>1. \A u \in Vcls, j \in Index : Passed(u, j)' => Passed(u, j)
    BY Zenon DEF Begins
  <2>2. QED
    BY Zenon, <1>0, <2>1 DEF IInv, TimerInv, Emptied
<1>11. QED
  BY ZenonT(40), <1>2, <1>3, <1>4, <1>5, <1>6, <1>7, <1>8, <1>9, <1>10 DEF IInv, TimerInv

LEMMA SetTickPeriodInv ==
  ASSUME IInv, NEW c \in Callers, NEW v \in Vcls, NEW i \in Index, NEW on \in BOOLEAN,
         SetTickPeriod(c, v, i, on)
  PROVE  IInv'
<1> DEFINE new == [at |-> "stop", v |-> v, i |-> i, on |-> on, t |-> None]
<1>0. /\ sets < MaxSets /\ sets' = sets + 1
      /\ InGuest(c, v, i) /\ call[c].at = "none"
      /\ fault' = (fault \/ engine[v] = "deleted")
      /\ raced' = IF Overlaps(c, v, i) THEN raced \cup {<<v, i>>} ELSE raced
      /\ call' = [call EXCEPT ![c] = new]
      /\ UNCHANGED <<tick_timers, running, home, thread, freed, joined>>
  BY Zenon DEF SetTickPeriod, InGuest
<1>1. VclInv' /\ cli' = cli /\ req' = req /\ vcl' = vcl
  BY Zenon, CallVars DEF SetTickPeriod
<1>2. /\ new \in CallTypes /\ new.at = "stop" /\ new.v = v /\ new.i = i /\ new.t = None
      /\ call \in [Callers -> CallTypes]
  <2>1. i \in 0 .. MaxModules
    BY EngineAssumption DEF Index
  <2>2. call \in [Callers -> CallTypes]
    BY Zenon DEF IInv, TimerInv, TimerTypes
  <2>3. QED
    BY Zenon, <2>1, <2>2 DEF CallTypes, CallPoints
<1> HIDE DEF new
<1>3. /\ call' \in [Callers -> CallTypes] /\ call'[c] = new
      /\ \A d \in Callers \ {c} : call'[d] = call[d]
  BY Zenon, <1>0, <1>2
<1>4. /\ raced \subseteq raced' /\ raced' \subseteq Vcls \X Index
      /\ \A d \in Callers \ {c} : At(d, v, i) => <<v, i>> \in raced'
      /\ c \in Timers => <<v, i>> \in raced'
  <2>1. raced \subseteq Vcls \X Index /\ <<v, i>> \in Vcls \X Index
    BY Zenon DEF IInv, TimerInv, TimerTypes
  <2>2. /\ \A d \in Callers \ {c} : At(d, v, i) => Overlaps(c, v, i)
        /\ c \in Timers => Overlaps(c, v, i)
    BY Zenon DEF Overlaps, At
  <2>3. raced' = raced \/ raced' = raced \cup {<<v, i>>}
    BY Zenon, <1>0
  <2>4. Overlaps(c, v, i) => <<v, i>> \in raced'
    BY ZenonT(40), <1>0
  <2>5. QED
    BY Zenon, <2>1, <2>2, <2>3, <2>4
<1>5. sets' \in 0 .. MaxSets
  <2>1. sets \in 0 .. MaxSets /\ sets < MaxSets /\ sets' = sets + 1
    BY Zenon, <1>0 DEF IInv, TimerInv, TimerTypes
  <2>2. QED
    BY <2>1, Distinct
<1>6. fault' \in BOOLEAN /\ (raced' = {} => ~ fault')
  <2>1. ASSUME raced' = {} PROVE ~ fault'
    <3>1. ~ fault
      BY Zenon, <1>4, <2>1 DEF IInv, TimerInv, NoFault
    <3>2. c \notin Timers
      BY Zenon, <1>4, <2>1
    <3>3. engine[v] # "deleted"
      <4>1. CASE c = Cli
        BY ZenonT(40), <1>0, <4>1, Distinct DEF InGuest, IInv, VclInv, Events
      <4>2. CASE c \in Workers
        <5>1. vcl[v] = "ready"
          BY ZenonT(40), <1>0, <4>2, Distinct DEF InGuest, IInv, VclInv, Requests
        <5>2. QED
          BY Zenon, <5>1 DEF IInv, VclInv, Engines
      <4>3. QED
        BY ZenonT(40), <3>2, <4>1, <4>2 DEF Callers
    <3>4. QED
      BY Zenon, <1>0, <3>1, <3>3
  <2>2. fault' \in BOOLEAN
    BY Zenon, <1>0 DEF IInv, TimerInv, TimerTypes
  <2>3. QED
    BY Zenon, <2>1, <2>2
<1>7. ASSUME NEW u \in Vcls, NEW j \in Index, Passed(u, j)' PROVE Passed(u, j)
  <2>1. At(Cli, u, j) => At(Cli, u, j)'
    BY Zenon, <1>0, <1>3, Distinct DEF At
  <2>2. QED
    BY Zenon, <1>1, <1>7, <2>1 DEF Passed, Torn
<1>8. /\ c \in Workers => req[c] = v
      /\ c = Cli => cli.v = v /\ cli.at = "warm" /\ i = cli.i
      /\ c \in Timers => home[c] = <<v, i>> /\ thread[c] = "guest"
  BY Zenon, <1>0, Distinct, EngineAssumption DEF InGuest
<1>9. call'[c].at = "stop" /\ call'[c].v = v /\ call'[c].i = i /\ call'[c].t = None
  BY Zenon, <1>2, <1>3
<1>10. Begins(c, v, i)
  BY ZenonT(40), <1>0, <1>1, <1>3, <1>4, <1>5, <1>6, <1>7, <1>8, <1>9, Distinct DEF Begins
<1>11. QED
  BY ZenonT(40), <1>1, <1>10, CallBegins

LEMMA DestroyTimerInv == ASSUME IInv, DestroyTimer PROVE IInv'
<1> DEFINE v == cli.v
           i == cli.i
           new == [at |-> "stop", v |-> v, i |-> i, on |-> FALSE, t |-> None]
<1>0. /\ cli.at = "timers" /\ call[Cli].at = "none" /\ i <= MaxModules
      /\ call' = [call EXCEPT ![Cli] = new]
      /\ cli' = [cli EXCEPT !.i = i + 1]
      /\ UNCHANGED <<vclVars, registry, engineVars, epochVars, tick_timers, running, home,
                     thread, freed, joined, sets, raced, fault>>
  BY Zenon DEF DestroyTimer, Destroying
<1>1. /\ v \in Vcls /\ i \in Index /\ i + 1 \in 1 .. MaxModules + 1
      /\ cli \in [at : CliPoints, v : Vcls \cup {None}, i : 0 .. MaxModules + 1]
      /\ ~ \E w \in Workers : req[w] = v
  <2>1. v \in Vcls /\ cli.i \in 1 .. MaxModules + 1
    BY Zenon, <1>0 DEF IInv, VclInv, Events, Tearing
  <2>2. ~ \E w \in Workers : req[w] = v
    BY ZenonT(40), <1>0, <2>1, Distinct DEF IInv, VclInv, Requests, Torn, Tearing
  <2>3. QED
    BY <1>0, <2>1, <2>2, CliType, EngineAssumption DEF Index
<1>2. /\ cli'.at = "timers" /\ cli'.v = v /\ cli'.i = i + 1
      /\ cli' \in [at : CliPoints, v : Vcls \cup {None}, i : 0 .. MaxModules + 1]
  BY <1>0, <1>1, EngineAssumption
<1>3. VclInv'
  <2> USE DEF vclVars, engineVars, poolVars, epochVars
  <2>1. VclTypes'
    BY ZenonT(40), <1>0, <1>2 DEF IInv, VclInv, VclTypes
  <2>2. Events'
    BY ZenonT(40), <1>0, <1>1, <1>2 DEF IInv, VclInv, Events, Loading, Tearing
  <2>3. Engines' /\ EpochEnds'
    BY ZenonT(40), <1>0, <1>2 DEF IInv, VclInv, Engines, EpochEnds
  <2>4. Requests'
    BY ZenonT(40), <1>0, <1>2 DEF IInv, VclInv, Requests, Torn
  <2>5. Pools'
    BY <1>0, <1>2 DEF IInv, VclInv, Pools, Owned
  <2>6. QED
    BY ZenonT(40), <2>1, <2>2, <2>3, <2>4, <2>5 DEF VclInv
<1>4. /\ new \in CallTypes /\ new.at = "stop" /\ new.v = v /\ new.i = i /\ new.t = None
      /\ ~ new.on
      /\ call \in [Callers -> CallTypes]
  <2>1. i \in 0 .. MaxModules
    BY <1>1, EngineAssumption DEF Index
  <2>2. call \in [Callers -> CallTypes]
    BY Zenon DEF IInv, TimerInv, TimerTypes
  <2> HIDE DEF v, i
  <2>3. QED
    BY ZenonT(40), <1>1, <2>1, <2>2 DEF CallTypes, CallPoints
<1> HIDE DEF new
<1>5. /\ call' \in [Callers -> CallTypes] /\ call'[Cli] = new
      /\ \A d \in Callers \ {Cli} : call'[d] = call[d]
  BY ZenonT(40), <1>0, <1>4, Distinct
<1>6. ASSUME NEW d \in Callers \ {Cli}, At(d, v, i) PROVE <<v, i>> \in raced
  <2>1. d \notin Workers
    BY <1>1, <1>6 DEF At, IInv, TimerInv, Calls
  <2>2. d \in Timers
    BY Zenon, <2>1 DEF Callers
  <2>3. QED
    BY ZenonT(40), <1>6, <2>2 DEF At, IInv, TimerInv, Calls
<1>7. ASSUME NEW u \in Vcls, NEW j \in Index, Passed(u, j)' PROVE Passed(u, j)
  <2>1. ~ At(Cli, u, j)
    BY ZenonT(40), <1>0 DEF At
  <2>2. ASSUME u = v, j < i + 1, ~ At(Cli, u, j)' PROVE j < i
    <3>1. j # i
      BY ZenonT(40), <1>4, <1>5, <2>2 DEF At
    <3>2. QED
      BY <1>1, <2>2, <3>1, EngineAssumption DEF Index
  <2>3. vcl' = vcl
    BY Zenon, <1>0 DEF vclVars
  <2>4. QED
    BY ZenonT(40), <1>0, <1>2, <1>7, <2>1, <2>2, <2>3 DEF Passed, Torn
<1>8. /\ sets' \in 0 .. MaxSets /\ fault' \in BOOLEAN /\ (raced' = {} => ~ fault')
      /\ raced' = raced /\ raced \subseteq Vcls \X Index
      /\ req' = req /\ vcl' = vcl
  BY ZenonT(40), <1>0 DEF IInv, TimerInv, TimerTypes, NoFault, vclVars
<1>9. i = cli'.i - 1
  BY <1>1, <1>2, EngineAssumption DEF Index
<1>10. /\ UNCHANGED <<tick_timers, running, home, thread, freed, joined>>
       /\ call'[Cli].at = "stop" /\ call'[Cli].v = v /\ call'[Cli].i = i /\ call'[Cli].t = None
       /\ ~ call'[Cli].on
  BY Zenon, <1>0, <1>4, <1>5
<1>11. Begins(Cli, v, i)
  BY ZenonT(40), <1>0, <1>2, <1>5, <1>6, <1>7, <1>8, <1>9, <1>10, Distinct DEF Begins
<1>12. QED
  BY ZenonT(40), <1>1, <1>3, <1>11, CallBegins, Distinct

-----------------------------------------------------------------------------
LEMMA InitialInv == ASSUME Init PROVE IInv
<1> USE DEF Init
<1>1. VclTypes
  BY EngineAssumption, Distinct DEF VclTypes, VclStates, CliPoints, EpochPoints, Idle, Objects
<1>2. Events /\ Engines /\ Requests /\ EpochEnds
  BY Zenon, Distinct DEF Events, Engines, Requests, EpochEnds, Loading, Tearing, Idle, None
<1>3. Pools
  BY Zenon DEF Pools, Idle
<1>4. NoCall \in CallTypes /\ NoCall.at = "none" /\ NoCall.t = None
  BY Zenon, NoCallType
<1>5. TimerTypes
  <2>1. call \in [Callers -> CallTypes]
    BY ZenonT(40), <1>4
  <2>2. tick_timers \in [Vcls -> [Index -> Timers \cup {None}]]
    OBVIOUS
  <2>3. home \in [Timers -> (Vcls \X Index) \cup {<<None, 0>>}] /\ thread \in [Timers -> TimerPoints]
    BY ZenonT(40) DEF TimerPoints
  <2>4. sets \in 0 .. MaxSets
    BY EngineAssumption
  <2>5. QED
    BY ZenonT(40), <2>1, <2>2, <2>3, <2>4 DEF TimerTypes
<1>6. Homes
  BY Zenon, <1>4 DEF Homes
<1>7. Calls /\ Alone /\ Found
  BY Zenon, <1>4 DEF Calls, Alone, Found, At
<1>8. Kept /\ Ended /\ Reached /\ NoFault
  BY Zenon DEF Kept, Ended, Reached, Lives, NoFault
<1>9. Emptied
  BY Zenon DEF Emptied
<1>10. QED
  BY ZenonT(60), <1>1, <1>2, <1>3, <1>5, <1>6, <1>7, <1>8, <1>9 DEF IInv, VclInv, TimerInv

LEMMA StutterInv == ASSUME IInv, UNCHANGED vars PROVE IInv'
<1>1. /\ UNCHANGED <<vclVars, registry, cli, engineVars, epochVars>>
      /\ UNCHANGED timerVars
  BY Zenon DEF vars
<1>2. VclInv'
  BY Zenon, <1>1, TimerStepKeeps
<1>3. UNCHANGED <<cli, req, vcl>>
  BY Zenon, <1>1 DEF vclVars
<1>4. \A u \in Vcls, i \in Index : Passed(u, i)' => Passed(u, i)
  BY ZenonT(40), <1>1, <1>3 DEF Passed, Torn, At, timerVars
<1>5. QED
  BY ZenonT(40), <1>1, <1>2, <1>3, <1>4, VclStep

LEMMA CallStepInv == ASSUME IInv, NEW c \in Callers, CallStep(c) PROVE IInv'
BY StopTimerInv, JoinTimerInv, JoinReturnsInv, FreeTimerInv, ClearTimerInv,
   CreateTimerInv, CreateTimerFailsInv, PublishTimerInv DEF CallStep

LEMMA DestroyStepInv == ASSUME IInv, DestroyStep PROVE IInv'
BY ZenonT(40), DestroyTimerInv, TimersDestroyedInv, DestroyPoolsInv, EndEpochInv, DeleteEngineInv
   DEF DestroyStep

LEMMA NextInv == ASSUME IInv, [Next]_vars PROVE IInv'
<1>1. CASE \E v \in Vcls : EngineNew(v) \/ Use(v) \/ Discard(v) \/ EpochStep(v)
  BY ZenonT(40), <1>1, EngineNewInv, UseInv, DiscardedInv, EpochTestInv, EpochIncrementInv DEF EpochStep
<1>2. CASE UseOther \/ LoadStep \/ InitStep \/ DestroyStep
  BY ZenonT(40), <1>2, UseInv, LoadInv, InitInv, DestroyStepInv
<1>3. CASE \E w \in Workers : Request(w) \/ RequestEnds(w)
  BY Zenon, <1>3, RequestInv
<1>4. CASE \E c \in Callers : CallStep(c)
  BY Zenon, <1>4, CallStepInv
<1>5. CASE \E c \in Callers, v \in Vcls, i \in Index, on \in BOOLEAN : SetTickPeriod(c, v, i, on)
  BY Zenon, <1>5, SetTickPeriodInv
<1>6. CASE \E t \in Timers : TimerStep(t)
  BY Zenon, <1>6, TimerStepInv
<1>7. CASE UNCHANGED vars
  BY Zenon, <1>7, StutterInv
<1>8. QED
  BY ZenonT(40), <1>1, <1>2, <1>3, <1>4, <1>5, <1>6, <1>7 DEF Next

LEMMA Invariance == Spec => []IInv
BY InitialInv, NextInv, PTL DEF Spec

\* What the threads' `trap' may be, which nothing above depends on.
TrapTypes == trap \in [Timers -> {"NULL", "stray"}] /\ misfreed \subseteq Timers

\* Only the creation of a timer and its thread's own steps touch it.
LEMMA TrapInv == ASSUME TrapTypes, [Next]_vars PROVE TrapTypes'
<1>1. ASSUME UNCHANGED trapVars PROVE TrapTypes'
  BY Zenon, <1>1 DEF TrapTypes, trapVars
<1>2. ASSUME NEW t \in Timers, NEW x \in {"NULL", "stray"},
             trap' = trap \/ trap' = [trap EXCEPT ![t] = x],
             misfreed' = misfreed \/ misfreed' = misfreed \cup {t}
      PROVE  TrapTypes'
  <2>1. trap' \in [Timers -> {"NULL", "stray"}]
    BY <1>2 DEF TrapTypes
  <2>2. misfreed' \subseteq Timers
    BY Zenon, <1>2 DEF TrapTypes
  <2>3. QED
    BY Zenon, <2>1, <2>2 DEF TrapTypes
<1>3. CASE UNCHANGED timerVars
  BY Zenon, <1>1, <1>3 DEF timerVars
<1>4. ASSUME NEW c \in Callers, CallStep(c) PROVE TrapTypes'
  <2>1. ASSUME NEW t \in Timers, CreateTimer(c, t) PROVE TrapTypes'
    BY Zenon, <1>2, <2>1 DEF CreateTimer
  <2>2. CASE \/ StopTimer(c) \/ JoinTimer(c) \/ JoinReturns(c) \/ FreeTimer(c) \/ ClearTimer(c)
             \/ CreateTimerFails(c) \/ PublishTimer(c)
    <3>1. UNCHANGED trapVars
      BY Zenon, <2>2 DEF StopTimer, JoinTimer, JoinReturns, FreeTimer, ClearTimer,
                         CreateTimerFails, PublishTimer
    <3>2. QED
      BY Zenon, <1>1, <3>1
  <2>3. QED
    BY Zenon, <1>4, <2>1, <2>2 DEF CallStep
<1>5. ASSUME NEW t \in Timers, TimerStep(t) PROVE TrapTypes'
  <2>1. CASE TestRunning(t) \/ TickSpins(t)
    BY Zenon, <1>1, <2>1 DEF TestRunning, TickSpins
  <2>2. CASE TickBegins(t)
    <3>1. UNCHANGED trap /\ (misfreed' = misfreed \/ misfreed' = misfreed \cup {t})
      BY Zenon, <2>2 DEF TickBegins, Misfreed
    <3>2. QED
      BY Zenon, <1>2, <3>1
  <2>3. CASE TickFails(t)
    <3>1. /\ trap' = trap \/ trap' = [trap EXCEPT ![t] = "stray"]
          /\ misfreed' = misfreed \/ misfreed' = misfreed \cup {t}
      BY Zenon, <2>3 DEF TickFails, Misfreed, trapVars
    <3>2. QED
      BY Zenon, <1>2, <3>1
  <2>4. CASE TickEnds(t)
    <3>1. /\ UNCHANGED misfreed
          /\ trap' = trap \/ \E x \in {"NULL", "stray"} : trap' = [trap EXCEPT ![t] = x]
      BY Zenon, <2>4 DEF TickEnds
    <3>2. QED
      BY Zenon, <1>2, <3>1
  <2>5. QED
    BY Zenon, <1>5, <2>1, <2>2, <2>3, <2>4 DEF TimerStep
<1>6. CASE (\E v \in Vcls : EngineNew(v) \/ Use(v) \/ Discard(v) \/ EpochTest(v)) \/ UseOther \/ LoadStep
           \/ \E w \in Workers : Request(w) \/ RequestEnds(w)
  <2>1. UNCHANGED timerVars
    BY Zenon, <1>6 DEF EngineNew, Use, Discard, EpochTest, UseOther, LoadStep, Link, AddFilter,
                       AddFilterFails, Request, RequestEnds
  <2>2. QED
    BY Zenon, <1>3, <2>1
<1>7. CASE InitStep
  <2>1. UNCHANGED timerVars
    BY Zenon, <1>7 DEF InitStep, InitFails, LoadModule, WarmUp, WarmUpFails, WarmUpReactor,
                       PoolNew, PoolNewFails, HttpPoolNew, HttpPoolNewFails, InitDone
  <2>2. QED
    BY Zenon, <1>3, <2>1
<1>8. CASE DestroyStep \/ \E v \in Vcls : EpochIncrement(v)
  <2>1. UNCHANGED trapVars
    BY Zenon, <1>8 DEF DestroyStep, DestroyTimer, TimersDestroyed, DestroyPools, StopEpoch,
                       JoinEpoch, DeleteEngine, EpochIncrement, timerVars
  <2>2. QED
    BY Zenon, <1>1, <2>1
<1>9. ASSUME NEW c \in Callers, NEW v \in Vcls, NEW i \in Index, NEW on \in BOOLEAN,
             SetTickPeriod(c, v, i, on)
      PROVE  TrapTypes'
  BY Zenon, <1>1, <1>9 DEF SetTickPeriod
<1>10. CASE UNCHANGED vars
  BY Zenon, <1>3, <1>10 DEF vars
<1>11. QED
  BY ZenonT(40), <1>4, <1>5, <1>6, <1>7, <1>8, <1>9, <1>10 DEF Next, EpochStep

\* Every variable keeps its type, and a VCL's table of modules its limit.
THEOREM TypeCorrect == Spec => []TypeOK
<1>1. IInv /\ TrapTypes => TypeOK
  BY Zenon DEF IInv, VclInv, TimerInv, VclTypes, TimerTypes, CallTypes, TrapTypes, TypeOK
<1>2. Init => TrapTypes
  BY Zenon DEF Init, TrapTypes
<1>3. Spec => []TrapTypes
  BY <1>2, TrapInv, PTL DEF Spec
<1>4. QED
  BY <1>1, <1>3, Invariance, PTL

\* vwasm_engine_destroy deletes an engine after its epoch thread has ended and
\* after every tick timer that was not raced has.
THEOREM EngineOutlivesThreads == Spec => []ThreadsEndFirst
BY Invariance, ThreadsEnd, PTL

\* Of a VCL that is gone, and of a load that failed at any step, nothing is left:
\* no registry entry, no filter, no pool, snapshot or HTTP pool.
THEOREM NothingLeftBehind == Spec => []NothingLeft
<1>1. IInv => NothingLeft
  BY Zenon DEF IInv, VclInv, Engines, Pools, NothingLeft
<1>2. QED
  BY <1>1, Invariance, PTL

\* As long as no timer was set by two threads at once, nor by its own, and no thread
\* has deleted a trap that is none, stopping a timer reaches nothing undefined, a
\* structure is freed after its thread ended, and a module has one timer thread.
THEOREM OneTimerPerModule == Spec => []OneTimer
<1>1. ASSUME IInv, raced = {} PROVE OneTimer
  <2>1. ~ fault
    BY Zenon, <1>1 DEF IInv, TimerInv, NoFault
  <2>2. \A t \in Timers : Lives(t) => t \notin freed
    BY Zenon, <1>1 DEF IInv, TimerInv, Ended, Lives
  <2>3. ASSUME NEW t \in Timers, NEW u \in Timers, Lives(t), Lives(u), home[t] = home[u]
        PROVE  t = u
    <3> DEFINE v == home[t][1]
               i == home[t][2]
    <3>0. v \in Vcls /\ i \in Index /\ home[t] = <<v, i>> /\ <<v, i>> \notin raced
      BY <1>1, <2>3 DEF IInv, TimerInv, TimerTypes, Homes, Lives
    <3>1. ASSUME NEW x \in Timers, Lives(x), home[x] = <<v, i>>
          PROVE  \/ tick_timers[v][i] = x
                 \/ \E d \in Callers : /\ At(d, v, i) /\ call[d].at = "publish" /\ call[d].t = x
                                       /\ tick_timers[v][i] = None
      <4>1. CASE tick_timers[home[x][1]][home[x][2]] = x
        BY <3>1, <4>1
      <4>2. CASE \E d \in Callers : call[d].at = "publish" /\ call[d].t = x
        <5>1. PICK d \in Callers : call[d].at = "publish" /\ call[d].t = x
          BY Zenon, <4>2
        <5>2. <<call[d].v, call[d].i>> = <<v, i>>
          BY ZenonT(40), <1>1, <3>1, <5>1, Distinct DEF IInv, TimerInv, Homes
        <5>3. At(d, v, i) /\ Slot(d) = tick_timers[v][i]
          BY ZenonT(40), <5>1, <5>2 DEF At, Slot
        <5>4. Slot(d) = None
          BY ZenonT(40), <1>1, <5>1 DEF IInv, TimerInv, Found
        <5>5. QED
          BY Zenon, <5>1, <5>3, <5>4
      <4>3. QED
        BY ZenonT(40), <1>1, <3>1, <4>1, <4>2 DEF IInv, TimerInv, Reached
    <3> HIDE DEF v, i
    <3>2. home[u] = <<v, i>>
      BY Zenon, <2>3, <3>0
    <3>3. CASE tick_timers[v][i] # None
      BY ZenonT(40), <2>3, <3>0, <3>1, <3>2, <3>3
    <3>4. CASE tick_timers[v][i] = None
      <4>1. PICK d \in Callers : At(d, v, i) /\ call[d].t = t
        BY ZenonT(40), <2>3, <3>0, <3>1, <3>4, Distinct
      <4>2. PICK e \in Callers : At(e, v, i) /\ call[e].t = u
        BY ZenonT(40), <2>3, <3>1, <3>2, <3>4, Distinct
      <4>3. d = e
        BY ZenonT(40), <1>1, <3>0, <4>1, <4>2 DEF IInv, TimerInv, Alone
      <4>4. QED
        BY Zenon, <4>1, <4>2, <4>3
    <3>5. QED
      BY ZenonT(40), <3>3, <3>4
  <2>4. QED
    BY ZenonT(40), <2>1, <2>2, <2>3 DEF OneTimer
<1>2. IInv => OneTimer
  BY Zenon, <1>1 DEF OneTimer
<1>3. QED
  BY <1>2, Invariance, PTL
=====
