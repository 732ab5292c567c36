---------------------------- MODULE EngineLifecycle ----------------------------
(***************************************************************************)
(* The engine that each loaded VCL owns, from VCL_EVENT_LOAD through       *)
(* vcl_init to VCL_EVENT_DISCARD, and the threads that share it: Varnish's *)
(* CLI thread, which runs the events and vcl_init, the workers that serve  *)
(* requests, the engine's epoch thread, and one tick timer thread for each *)
(* module that asked for one.  vwasm_engine_set_tick_period takes no lock  *)
(* and may run in a worker, in the CLI thread (the warm-up of a store pool *)
(* runs guest code) and in a timer's own thread, so each of its accesses   *)
(* to tick_timers[idx] is a step of its own.                               *)
(*                                                                         *)
(* A timer structure and its thread have one name; it is not used again    *)
(* after free.  Reading a freed structure gives any value; a double free,  *)
(* a null pointer or a join of a joined thread sets `fault', after which   *)
(* nothing is claimed.  A timer's thread may also delete a trap that is    *)
(* none, which sets `misfreed'; the thread goes on, if it survives that.   *)
(* pthread_join of the own thread, or of a thread that another one is      *)
(* joining, returns an error (EDEADLK, EINVAL) that the code does not look *)
(* at.                                                                     *)
(***************************************************************************)
EXTENDS Integers, Sequences, FiniteSets

CONSTANTS
  Vcls,          \* VCLs
  Modules,       \* names of Wasm modules
  Ticking,       \* the modules that export proxy_on_tick
  Reactors,      \* the modules that export _initialize
  Workers,       \* worker threads
  Timers,        \* tick timers that may be created
  MaxModules,    \* MAX_MODULES
  MaxPools,      \* calls of set_store_pool_size in a vcl_init
  MaxSets        \* calls of proxy_set_tick_period_milliseconds

Cli == "cli"
None == "none"

ASSUME EngineAssumption ==
  /\ Ticking \subseteq Modules /\ Reactors \subseteq Modules
  /\ MaxModules \in Nat \ {0} /\ MaxPools \in Nat /\ MaxSets \in Nat
  /\ {Cli, None} \cap (Vcls \cup Workers \cup Timers) = {}
  /\ Workers \cap Timers = {}

Callers == {Cli} \cup Workers \cup Timers
Index == 1 .. MaxModules
Objects == ({"snapshot", "pool"} \X Index \X (1 .. MaxPools)) \cup {<<"http", 0, 0>>}

VARIABLES
  (* Varnish *)
  active,      \* the VCL that new requests use, or None
  vcl,         \* [Vcls -> VclStates]
  filters,     \* VCLs for which the wasm_body filter is registered
  req,         \* [Workers -> Vcls \cup {None}], the VCL of a worker's request
  (* the VMOD *)
  registry,    \* vwasm_vcls: the VCLs that have an entry
  cli,         \* [at, v, i]: where the CLI thread is, the VCL, an index
  engine,      \* [Vcls -> {None, "live", "deleted"}]
  modules,     \* [Vcls -> Seq(Modules)]
  remade,      \* history: VCLs that called init_pool twice for a module
  made,        \* [Vcls -> [Index -> 0 .. MaxPools]], calls of init_pool
  warm_instances, \* [Vcls -> [Index -> Nat]], the snapshot: 0 none, n the n-th
  pools,       \* [Vcls -> [Index -> Nat]], pools[idx]: 0 is NULL, n the n-th
  objects,     \* [Vcls -> SUBSET Objects], what is allocated
  http_pool,   \* [Vcls -> BOOLEAN], http_pool # NULL
  (* threads *)
  epoch_running, \* [Vcls -> BOOLEAN]
  epoch,       \* [Vcls -> thread states], the epoch thread
  tick_timers, \* [Vcls -> [Index -> Timers \cup {None}]]
  running,     \* [Timers -> BOOLEAN], tt->running
  home,        \* [Timers -> <<VCL, index>>], tt->engine and tt->module_idx
  thread,      \* [Timers -> thread states]
  freed,       \* timers whose structure was freed
  joined,      \* timers whose thread was joined
  call,        \* [Callers -> a call that stops or sets a timer]
  sets,        \* calls of set_tick_period made so far
  raced,       \* history: <<VCL, index>> set by two callers at once or by itself
  trap,        \* [Timers -> {"NULL", "stray"}], the thread's variable between ticks
  misfreed,    \* history: timers whose thread has deleted a trap that is none
  fault        \* history: undefined behaviour was reached

vclVars == <<active, vcl, filters, req>>
poolVars == <<remade, made, warm_instances, pools, objects, http_pool>>
engineVars == <<engine, modules, poolVars>>
epochVars == <<epoch_running, epoch>>
trapVars == <<trap, misfreed>>
timerVars ==
  <<tick_timers, running, home, thread, freed, joined, call, sets, raced, fault, trapVars>>
vars == <<vclVars, registry, cli, engineVars, epochVars, timerVars>>

(***************************************************************************)
(* The CLI thread: "idle"; in vcl.load: "link", "filter", "init" (in       *)
(* vcl_init), "warm" (in the warm-up of a pool); in engine_destroy:        *)
(* "timers", "pools", "epoch", "join", "delete".                           *)
(***************************************************************************)
CliPoints == {"idle", "link", "filter", "init", "warm",
              "timers", "pools", "epoch", "join", "delete"}
VclStates == {"new", "loading", "ready", "gone"}
EpochPoints == {None, "sleep", "increment", "done"}
TimerPoints == {None, "sleep", "fire", "guest", "spin", "trapped", "done"}
CallPoints == {"none", "stop", "join", "wait", "free", "clear", "create", "publish"}

NoCall == [at |-> "none", v |-> None, i |-> 0, on |-> FALSE, t |-> None]
Idle == [at |-> "idle", v |-> None, i |-> 0]

Init ==
  /\ active = None
  /\ vcl = [v \in Vcls |-> "new"]
  /\ filters = {} /\ registry = {}
  /\ req = [w \in Workers |-> None]
  /\ cli = Idle
  /\ engine = [v \in Vcls |-> None]
  /\ modules = [v \in Vcls |-> <<>>]
  /\ made = [v \in Vcls |-> [i \in Index |-> 0]]
  /\ warm_instances = made /\ pools = made
  /\ remade = {}
  /\ objects = [v \in Vcls |-> {}]
  /\ http_pool = [v \in Vcls |-> FALSE]
  /\ epoch_running = [v \in Vcls |-> FALSE]
  /\ epoch = [v \in Vcls |-> None]
  /\ tick_timers = [v \in Vcls |-> [i \in Index |-> None]]
  /\ running = [t \in Timers |-> FALSE]
  /\ home = [t \in Timers |-> <<None, 0>>]
  /\ thread = [t \in Timers |-> None]
  /\ freed = {} /\ joined = {}
  /\ call = [c \in Callers |-> NoCall]
  /\ sets = 0 /\ raced = {} /\ fault = FALSE
  /\ trap = [t \in Timers |-> "NULL"] /\ misfreed = {}

-----------------------------------------------------------------------------
(* An operator named Faulty... is a mutated form of the definition after it. *)

(* VCL_EVENT_LOAD *)

Goto(at) == cli' = [cli EXCEPT !.at = at]
\* engine_destroy of the engine of the CLI thread's VCL begins.
BeginDestroy(v) == cli' = [at |-> "timers", v |-> v, i |-> 1]

\* vwasm_engine_new succeeds, and the epoch thread runs from here on; if it
\* fails nothing is left behind.
EngineNew(v) ==
  /\ cli.at = "idle" /\ vcl[v] = "new"
  /\ vcl' = [vcl EXCEPT ![v] = "loading"]
  /\ engine' = [engine EXCEPT ![v] = "live"]
  /\ epoch_running' = [epoch_running EXCEPT ![v] = TRUE]
  /\ epoch' = [epoch EXCEPT ![v] = "sleep"]
  /\ cli' = [at |-> "link", v |-> v, i |-> 0]
  /\ UNCHANGED <<active, filters, req, registry, modules, poolVars, timerVars>>

\* The VCL is entered in the registry, unless it is there already.
Link ==
  /\ cli.at = "link"
  /\ IF cli.v \in registry
     THEN /\ BeginDestroy(cli.v) /\ UNCHANGED registry
     ELSE /\ registry' = registry \cup {cli.v} /\ Goto("filter")
  /\ UNCHANGED <<vclVars, engineVars, epochVars, timerVars>>

AddFilter ==
  /\ cli.at = "filter"
  /\ filters' = filters \cup {cli.v}
  /\ Goto("init")
  /\ UNCHANGED <<active, vcl, req, registry, engineVars, epochVars, timerVars>>

AddFilterFails ==
  /\ cli.at = "filter"
  /\ registry' = registry \ {cli.v}
  /\ BeginDestroy(cli.v)
  /\ UNCHANGED <<vclVars, engineVars, epochVars, timerVars>>

-----------------------------------------------------------------------------
(* VCL_EVENT_DISCARD, which Varnish also sends when vcl_init has failed *)

DiscardEvent(v) ==
  /\ filters' = filters \ {v}
  /\ registry' = registry \ {v}
  /\ BeginDestroy(v)

(* vcl_init: load, set_store_pool_size, set_http_pool_size *)

InInit == cli.at = "init"

\* VRT_fail: of a load (no such file, not a module, an unknown import, out of
\* memory, and CanLoad) or of a pool that could not be created.
InitFails ==
  /\ InInit
  /\ DiscardEvent(cli.v)
  /\ UNCHANGED <<active, vcl, req, engineVars, epochVars, timerVars>>

HasModule(v, m) == \E i \in 1 .. Len(modules[v]) : modules[v][i] = m

\* What vwasm_engine_load_module asks for, beside a file that compiles.
CanLoad(v, m) == ~ HasModule(v, m) /\ Len(modules[v]) < MaxModules

LoadModule(m) ==
  /\ InInit
  /\ CanLoad(cli.v, m)
  /\ modules' = [modules EXCEPT ![cli.v] = Append(@, m)]
  /\ UNCHANGED <<vclVars, registry, cli, engine, poolVars, epochVars, timerVars>>

\* init_pool of the i-th module: the warm-up runs guest code in this thread.
\* The record of an earlier warm-up is cleared.
WarmUp(i) ==
  /\ InInit
  /\ i \in 1 .. Len(modules[cli.v])
  /\ made[cli.v][i] < MaxPools
  /\ made' = [made EXCEPT ![cli.v][i] = @ + 1]
  /\ remade' = IF made[cli.v][i] = 0 THEN remade ELSE remade \cup {cli.v}
  /\ warm_instances' = [warm_instances EXCEPT ![cli.v][i] = 0]
  /\ cli' = [cli EXCEPT !.at = "warm", !.i = i]
  /\ UNCHANGED <<vclVars, registry, engine, modules, pools, objects, http_pool,
                 epochVars, timerVars>>

WarmedUp == cli.at = "warm" /\ call[Cli].at = "none"

\* A trap, or no memory: no snapshot, and vcl_init fails.
WarmUpFails ==
  /\ WarmedUp
  /\ DiscardEvent(cli.v)
  /\ UNCHANGED <<active, vcl, req, engineVars, epochVars, timerVars>>

\* The snapshot of a module with _initialize is dropped: it stays on the cold path.
WarmUpReactor ==
  /\ WarmedUp
  /\ modules[cli.v][cli.i] \in Reactors
  /\ Goto("init")
  /\ UNCHANGED <<vclVars, registry, engineVars, epochVars, timerVars>>

\* The snapshot is kept and a pool is made of it; pools[idx] is overwritten.
PoolNew ==
  LET v == cli.v  i == cli.i  n == made[v][i] IN
  /\ WarmedUp
  /\ modules[v][i] \notin Reactors
  /\ warm_instances' = [warm_instances EXCEPT ![v][i] = n]
  /\ pools' = [pools EXCEPT ![v][i] = n]
  /\ objects' = [objects EXCEPT ![v] = @ \cup {<<"snapshot", i, n>>, <<"pool", i, n>>}]
  /\ Goto("init")
  /\ UNCHANGED <<vclVars, registry, engine, modules, remade, made, http_pool, epochVars, timerVars>>

\* The snapshot is dropped, pools[idx] is NULL, and vcl_init fails.
PoolNewFails ==
  /\ WarmedUp
  /\ modules[cli.v][cli.i] \notin Reactors
  /\ pools' = [pools EXCEPT ![cli.v][cli.i] = 0]
  /\ DiscardEvent(cli.v)
  /\ UNCHANGED <<active, vcl, req, engine, modules, remade, made, warm_instances, objects,
                 http_pool, epochVars, timerVars>>

\* init_http_pool: the pool that is there is destroyed first.
HttpPoolNew ==
  /\ InInit
  /\ http_pool' = [http_pool EXCEPT ![cli.v] = TRUE]
  /\ objects' = [objects EXCEPT ![cli.v] = @ \cup {<<"http", 0, 0>>}]
  /\ UNCHANGED <<vclVars, registry, cli, engine, modules, remade, made, warm_instances, pools,
                 epochVars, timerVars>>

HttpPoolNewFails ==
  /\ InInit
  /\ http_pool' = [http_pool EXCEPT ![cli.v] = FALSE]
  /\ objects' = [objects EXCEPT ![cli.v] = @ \ {<<"http", 0, 0>>}]
  /\ DiscardEvent(cli.v)
  /\ UNCHANGED <<active, vcl, req, engine, modules, remade, made, warm_instances, pools,
                 epochVars, timerVars>>

InitDone ==
  /\ InInit
  /\ vcl' = [vcl EXCEPT ![cli.v] = "ready"]
  /\ cli' = Idle
  /\ UNCHANGED <<active, filters, req, registry, engineVars, epochVars, timerVars>>

-----------------------------------------------------------------------------
(* Varnish: vcl.use, requests, vcl.discard *)

Use(v) ==
  /\ cli.at = "idle" /\ vcl[v] = "ready" /\ active # v
  /\ active' = v
  /\ UNCHANGED <<vcl, filters, req, registry, cli, engineVars, epochVars, timerVars>>

\* vcl.use of a VCL without this VMOD.
UseOther ==
  /\ cli.at = "idle" /\ active # None
  /\ active' = None
  /\ UNCHANGED <<vcl, filters, req, registry, cli, engineVars, epochVars, timerVars>>

\* A request of the active VCL calls a module; get_engine finds its engine.
Request(w) ==
  /\ req[w] = None /\ active # None
  /\ active \in registry
  /\ req' = [req EXCEPT ![w] = active]
  /\ UNCHANGED <<active, vcl, filters, registry, cli, engineVars, epochVars, timerVars>>

RequestEnds(w) ==
  /\ req[w] # None /\ call[w].at = "none"
  /\ req' = [req EXCEPT ![w] = None]
  /\ UNCHANGED <<active, vcl, filters, registry, cli, engineVars, epochVars, timerVars>>

\* Varnish waits until no request uses the VCL before it sends the event.
Discard(v) ==
  /\ cli.at = "idle" /\ vcl[v] = "ready" /\ active # v
  /\ \A w \in Workers : req[w] # v
  /\ DiscardEvent(v)
  /\ UNCHANGED <<active, vcl, req, engineVars, epochVars, timerVars>>

-----------------------------------------------------------------------------
(* The steps of stopping a timer, for set_tick_period and engine_destroy *)

Slot(c) == tick_timers[call[c].v][call[c].i]
CallGoto(c, at) == call' = [call EXCEPT ![c].at = at]
Fault == fault' = TRUE

\* set_tick_period returns if the period is 0; engine_destroy is done with
\* this timer.
AfterStop(c) ==
  call' = [call EXCEPT ![c] = IF @.on THEN [@ EXCEPT !.at = "create"] ELSE NoCall]

\* if (tick_timers[idx] != NULL) tick_timers[idx]->running = 0
StopTimer(c) ==
  /\ call[c].at = "stop"
  /\ IF Slot(c) = None
     THEN /\ AfterStop(c) /\ UNCHANGED <<running, fault>>
     ELSE IF Slot(c) \in freed
          THEN /\ Fault /\ UNCHANGED <<running, call>>
          ELSE /\ running' = [running EXCEPT ![Slot(c)] = FALSE]
               /\ CallGoto(c, "join") /\ UNCHANGED fault
  /\ UNCHANGED <<vclVars, registry, cli, engineVars, epochVars, tick_timers, home,
                 thread, freed, joined, sets, raced, trapVars>>

Refused(c) == Slot(c) = c \/ \E d \in Callers : call[d].at = "wait" /\ call[d].t = Slot(c)

\* The join is left out.
FaultyJoinTimer(c) ==
  /\ call[c].at = "join"
  /\ CallGoto(c, "free")
  /\ UNCHANGED <<vclVars, registry, cli, engineVars, epochVars, tick_timers, running,
                 home, thread, freed, joined, sets, raced, fault, trapVars>>

\* pthread_join(tick_timers[idx]->thread)
JoinTimer(c) ==
  /\ call[c].at = "join"
  /\ IF Slot(c) = None \/ Slot(c) \in freed \cup joined
     THEN /\ Fault /\ UNCHANGED call
     ELSE /\ call' = [call EXCEPT ![c].at = IF Refused(c) THEN "free" ELSE "wait",
                                  ![c].t = IF Refused(c) THEN None ELSE Slot(c)]
          /\ UNCHANGED fault
  /\ UNCHANGED <<vclVars, registry, cli, engineVars, epochVars, tick_timers, running,
                 home, thread, freed, joined, sets, raced, trapVars>>

JoinReturns(c) ==
  /\ call[c].at = "wait"
  /\ thread[call[c].t] = "done"
  /\ joined' = joined \cup {call[c].t}
  /\ call' = [call EXCEPT ![c].at = "free", ![c].t = None]
  /\ UNCHANGED <<vclVars, registry, cli, engineVars, epochVars, tick_timers, running,
                 home, thread, freed, sets, raced, fault, trapVars>>

\* free(tick_timers[idx])
FreeTimer(c) ==
  /\ call[c].at = "free"
  /\ IF Slot(c) \in freed
     THEN /\ Fault /\ UNCHANGED <<freed, call>>
     ELSE /\ freed' = freed \cup ({Slot(c)} \ {None})
          /\ CallGoto(c, "clear") /\ UNCHANGED fault
  /\ UNCHANGED <<vclVars, registry, cli, engineVars, epochVars, tick_timers, running,
                 home, thread, joined, sets, raced, trapVars>>

\* tick_timers[idx] = NULL
ClearTimer(c) ==
  /\ call[c].at = "clear"
  /\ tick_timers' = [tick_timers EXCEPT ![call[c].v][call[c].i] = None]
  /\ AfterStop(c)
  /\ UNCHANGED <<vclVars, registry, cli, engineVars, epochVars, running, home, thread,
                 freed, joined, sets, raced, fault, trapVars>>

-----------------------------------------------------------------------------
(* proxy_set_tick_period_milliseconds, called by guest code *)

\* Guest code of the i-th module of v runs in thread c.
InGuest(c, v, i) ==
  /\ i \in 1 .. Len(modules[v])
  /\ call[c].at = "none"
  /\ \/ c \in Workers /\ req[c] = v
     \/ c = Cli /\ cli.at = "warm" /\ cli.v = v /\ cli.i = i
     \/ c \in Timers /\ thread[c] = "guest" /\ home[c] = <<v, i>>

Overlaps(c, v, i) ==
  \/ c \in Timers
  \/ \E d \in Callers \ {c} : call[d].at # "none" /\ call[d].v = v /\ call[d].i = i

\* The period is 0 iff ~ on.  The module is looked up in the engine.
SetTickPeriod(c, v, i, on) ==
  /\ sets < MaxSets
  /\ InGuest(c, v, i)
  /\ sets' = sets + 1
  /\ fault' = (fault \/ engine[v] = "deleted")
  /\ raced' = IF Overlaps(c, v, i) THEN raced \cup {<<v, i>>} ELSE raced
  /\ call' = [call EXCEPT ![c] = [at |-> "stop", v |-> v, i |-> i, on |-> on, t |-> None]]
  /\ UNCHANGED <<vclVars, registry, cli, engineVars, epochVars, tick_timers, running,
                 home, thread, freed, joined, trapVars>>

\* The next timer that was not used.
Fresh == LET unused == {t \in Timers : thread[t] = None} IN
         IF unused = {} THEN {} ELSE {CHOOSE t \in unused : TRUE}

\* calloc and pthread_create.  The thread's variable `trap' is not initialised.
CreateTimer(c, t) ==
  /\ call[c].at = "create"
  /\ t \in Fresh
  /\ thread' = [thread EXCEPT ![t] = "sleep"]
  /\ running' = [running EXCEPT ![t] = TRUE]
  /\ home' = [home EXCEPT ![t] = <<call[c].v, call[c].i>>]
  /\ \E x \in {"NULL", "stray"} : trap' = [trap EXCEPT ![t] = x]
  /\ call' = [call EXCEPT ![c].at = "publish", ![c].t = t]
  /\ UNCHANGED <<vclVars, registry, cli, engineVars, epochVars, tick_timers, freed,
                 joined, sets, raced, fault, misfreed>>

CreateTimerFails(c) ==
  /\ call[c].at = "create"
  /\ call' = [call EXCEPT ![c] = NoCall]
  /\ UNCHANGED <<vclVars, registry, cli, engineVars, epochVars, tick_timers, running,
                 home, thread, freed, joined, sets, raced, fault, trapVars>>

\* tick_timers[idx] = tt
PublishTimer(c) ==
  /\ call[c].at = "publish"
  /\ tick_timers' = [tick_timers EXCEPT ![call[c].v][call[c].i] = call[c].t]
  /\ call' = [call EXCEPT ![c] = NoCall]
  /\ UNCHANGED <<vclVars, registry, cli, engineVars, epochVars, running, home, thread,
                 freed, joined, sets, raced, fault, trapVars>>

-----------------------------------------------------------------------------
(* tick_timer_thread *)

TimerGoto(t, at) == thread' = [thread EXCEPT ![t] = at]
unchangedByTimer == <<vclVars, registry, cli, engineVars, epochVars, tick_timers, home,
                      freed, joined, call, sets, raced>>

\* The flag is tested before and after the sleep, with no effect in between:
\* one test stands for both.

\* What a test of tt->running may see.
Running(t) == IF t \in freed THEN BOOLEAN ELSE {running[t]}

TestRunning(t) ==
  /\ thread[t] = "sleep"
  /\ \E r \in Running(t) : TimerGoto(t, IF r THEN "fire" ELSE "done")
  /\ UNCHANGED <<unchangedByTimer, running, fault, trapVars>>

\* if (error != NULL || trap != NULL) after instantiating: Wasmtime writes `trap'
\* only when there is one, so a pointer left from before is taken for a trap and
\* deleted.
Misfreed(t) == misfreed' = IF trap[t] = "stray" THEN misfreed \cup {t} ELSE misfreed

\* A store is created and the module instantiated, in an engine that must exist.
TickBegins(t) ==
  /\ thread[t] = "fire"
  /\ IF engine[home[t][1]] = "deleted"
     THEN /\ Fault /\ UNCHANGED <<thread, misfreed>>
     ELSE /\ TimerGoto(t, IF trap[t] = "stray" THEN "sleep" ELSE "guest")
          /\ Misfreed(t) /\ UNCHANGED fault
  /\ UNCHANGED <<unchangedByTimer, running, trap>>

\* The store could not be created, or instantiating ends with an error, or with a
\* trap, to which `trap' points after it is deleted.
TickFails(t) ==
  /\ thread[t] = "fire"
  /\ TimerGoto(t, "sleep")
  /\ \/ UNCHANGED trapVars
     \/ Misfreed(t) /\ UNCHANGED trap
     \/ trap' = [trap EXCEPT ![t] = "stray"] /\ UNCHANGED misfreed
  /\ UNCHANGED <<unchangedByTimer, running, fault>>

InTick(t) == thread[t] \in {"guest", "trapped"} /\ call[t].at = "none"

\* Guest code does not return; only the epoch deadline ends it.
TickSpins(t) ==
  /\ InTick(t) /\ thread[t] = "guest"
  /\ TimerGoto(t, "spin")
  /\ UNCHANGED <<unchangedByTimer, running, fault, trapVars>>

ModuleOf(t) == modules[home[t][1]][home[t][2]]

\* The callbacks have returned or trapped.  The trap of proxy_on_tick is deleted and
\* `trap' still points to it; past the deadline there always is one.  If there is no
\* proxy_on_tick the thread clears its own flag and ends.
TickEnds(t) ==
  /\ InTick(t)
  /\ IF ModuleOf(t) \in Ticking
     THEN /\ TimerGoto(t, "sleep") /\ UNCHANGED <<running, fault>>
          /\ \E x \in {"stray"} \cup (IF thread[t] = "guest" THEN {"NULL"} ELSE {}) :
               trap' = [trap EXCEPT ![t] = x]
     ELSE /\ TimerGoto(t, "done")
          /\ running' = [running EXCEPT ![t] = FALSE]
          /\ fault' = (fault \/ t \in freed)
          /\ UNCHANGED trap
  /\ UNCHANGED <<unchangedByTimer, misfreed>>

-----------------------------------------------------------------------------
(* epoch_timer_thread *)

EpochTest(v) ==
  /\ epoch[v] = "sleep"
  /\ epoch' = [epoch EXCEPT ![v] = IF epoch_running[v] THEN "increment" ELSE "done"]
  /\ UNCHANGED <<vclVars, registry, cli, engineVars, epoch_running, timerVars>>

\* Guest code that spins is past its deadline (one increment stands for the
\* deadline's number of them).
EpochIncrement(v) ==
  /\ epoch[v] = "increment"
  /\ epoch' = [epoch EXCEPT ![v] = "sleep"]
  /\ thread' = [t \in Timers |-> IF thread[t] = "spin" /\ home[t][1] = v
                                 THEN "trapped" ELSE thread[t]]
  /\ UNCHANGED <<vclVars, registry, cli, engineVars, epoch_running, tick_timers, running,
                 home, freed, joined, call, sets, raced, fault, trapVars>>

-----------------------------------------------------------------------------
(* vwasm_engine_destroy *)

Destroying(at) == cli.at = at /\ call[Cli].at = "none"

\* The epoch thread is stopped before the timers.
FaultyDestroyTimer ==
  /\ Destroying("timers") /\ cli.i <= MaxModules
  /\ call' = [call EXCEPT ![Cli] =
                [at |-> "stop", v |-> cli.v, i |-> cli.i, on |-> FALSE, t |-> None]]
  /\ cli' = [cli EXCEPT !.i = @ + 1]
  /\ epoch_running' = [epoch_running EXCEPT ![cli.v] = FALSE]
  /\ UNCHANGED <<vclVars, registry, engineVars, epoch, tick_timers, running, home,
                 thread, freed, joined, sets, raced, fault, trapVars>>

\* The loop over tick_timers.
DestroyTimer ==
  /\ Destroying("timers") /\ cli.i <= MaxModules
  /\ call' = [call EXCEPT ![Cli] =
                [at |-> "stop", v |-> cli.v, i |-> cli.i, on |-> FALSE, t |-> None]]
  /\ cli' = [cli EXCEPT !.i = @ + 1]
  /\ UNCHANGED <<vclVars, registry, engineVars, epochVars, tick_timers, running, home,
                 thread, freed, joined, sets, raced, fault, trapVars>>

TimersDestroyed ==
  /\ Destroying("timers") /\ cli.i > MaxModules
  /\ Goto("pools")
  /\ UNCHANGED <<vclVars, registry, engineVars, epochVars, timerVars>>

\* The HTTP pool is left out.
FaultyOwned(v) ==
  {<<"pool", i, pools[v][i]>> : i \in Index}
    \cup {<<"snapshot", i, warm_instances[v][i]>> : i \in Index}

\* What the engine points at.
Owned(v) ==
  {<<"pool", i, pools[v][i]>> : i \in Index}
    \cup {<<"snapshot", i, warm_instances[v][i]>> : i \in Index}
    \cup (IF http_pool[v] THEN {<<"http", 0, 0>>} ELSE {})

\* vwasm_engine_destroy_pools and vwasm_http_pool_destroy
DestroyPools ==
  /\ cli.at = "pools"
  /\ objects' = [objects EXCEPT ![cli.v] = @ \ Owned(cli.v)]
  /\ pools' = [pools EXCEPT ![cli.v] = [i \in Index |-> 0]]
  /\ warm_instances' = [warm_instances EXCEPT ![cli.v] = [i \in Index |-> 0]]
  /\ http_pool' = [http_pool EXCEPT ![cli.v] = FALSE]
  /\ Goto("epoch")
  /\ UNCHANGED <<vclVars, registry, engine, modules, remade, made, epochVars, timerVars>>

StopEpoch ==
  /\ cli.at = "epoch"
  /\ epoch_running' = [epoch_running EXCEPT ![cli.v] = FALSE]
  /\ Goto("join")
  /\ UNCHANGED <<vclVars, registry, engineVars, epoch, timerVars>>

\* The thread is not joined.
FaultyJoinEpoch ==
  /\ cli.at = "join"
  /\ Goto("delete")
  /\ UNCHANGED <<vclVars, registry, engineVars, epochVars, timerVars>>

JoinEpoch ==
  /\ cli.at = "join"
  /\ epoch[cli.v] = "done"
  /\ Goto("delete")
  /\ UNCHANGED <<vclVars, registry, engineVars, epochVars, timerVars>>

\* Modules, linker, engine and the structure itself are freed.
DeleteEngine ==
  /\ cli.at = "delete"
  /\ engine' = [engine EXCEPT ![cli.v] = "deleted"]
  /\ vcl' = [vcl EXCEPT ![cli.v] = "gone"]
  /\ made' = [made EXCEPT ![cli.v] = [i \in Index |-> 0]]
  /\ cli' = Idle
  /\ UNCHANGED <<active, filters, req, registry, modules, warm_instances, pools,
                 objects, http_pool, remade, epochVars, timerVars>>

-----------------------------------------------------------------------------
DestroyStep ==
  \/ DestroyTimer \/ TimersDestroyed \/ DestroyPools
  \/ StopEpoch \/ JoinEpoch \/ DeleteEngine
InitStep ==
  \/ InitFails \/ \E m \in Modules : LoadModule(m)
  \/ \E i \in Index : WarmUp(i)
  \/ WarmUpFails \/ WarmUpReactor \/ PoolNew \/ PoolNewFails
  \/ HttpPoolNew \/ HttpPoolNewFails \/ InitDone
LoadStep ==
  Link \/ AddFilter \/ AddFilterFails
CallStep(c) ==
  \/ StopTimer(c) \/ JoinTimer(c) \/ JoinReturns(c) \/ FreeTimer(c) \/ ClearTimer(c)
  \/ \E t \in Timers : CreateTimer(c, t)
  \/ CreateTimerFails(c) \/ PublishTimer(c)
TimerStep(t) == TestRunning(t) \/ TickBegins(t) \/ TickFails(t) \/ TickSpins(t) \/ TickEnds(t)
EpochStep(v) == EpochTest(v) \/ EpochIncrement(v)

Next ==
  \/ \E v \in Vcls : EngineNew(v) \/ Use(v) \/ Discard(v) \/ EpochStep(v)
  \/ UseOther \/ LoadStep \/ InitStep \/ DestroyStep
  \/ \E w \in Workers : Request(w) \/ RequestEnds(w)
  \/ \E c \in Callers : CallStep(c)
  \/ \E c \in Callers, v \in Vcls, i \in Index, on \in BOOLEAN :
       SetTickPeriod(c, v, i, on)
  \/ \E t \in Timers : TimerStep(t)

Spec == Init /\ [][Next]_vars

(***************************************************************************)
(* The threads are scheduled; vcl_init, which is a list of calls, comes to *)
(* its end.  Nobody is obliged to load, use or discard a VCL, to send a    *)
(* request or to set a timer.                                              *)
(***************************************************************************)
CliProgress ==
  \/ LoadStep \/ DestroyStep \/ CallStep(Cli) \/ InitDone
  \/ WarmUpFails \/ WarmUpReactor \/ PoolNew \/ PoolNewFails

Fairness ==
  /\ WF_vars(CliProgress)
  /\ \A w \in Workers : WF_vars(CallStep(w))
  /\ \A t \in Timers : WF_vars(TimerStep(t) \/ CallStep(t))
  /\ \A v \in Vcls : WF_vars(EpochStep(v))

FairSpec == Spec /\ Fairness

-----------------------------------------------------------------------------
(* Properties.  ThreadsEndFirst speaks of the modules whose timer was never *)
(* set by two threads at once nor by its own thread, OneTimer and JoinsEnd  *)
(* of behaviours in which no module's was.                                  *)

\* Every variable keeps its type, and the module table its limit.
TypeOK ==
  /\ active \in Vcls \cup {None}
  /\ vcl \in [Vcls -> VclStates]
  /\ filters \subseteq Vcls /\ registry \subseteq Vcls
  /\ req \in [Workers -> Vcls \cup {None}]
  /\ cli \in [at : CliPoints, v : Vcls \cup {None}, i : 0 .. MaxModules + 1]
  /\ engine \in [Vcls -> {None, "live", "deleted"}]
  /\ modules \in [Vcls -> Seq(Modules)]
  /\ \A v \in Vcls : Len(modules[v]) <= MaxModules
  /\ remade \subseteq Vcls
  /\ made \in [Vcls -> [Index -> 0 .. MaxPools]]
  /\ warm_instances \in [Vcls -> [Index -> 0 .. MaxPools]]
  /\ pools \in [Vcls -> [Index -> 0 .. MaxPools]]
  /\ objects \in [Vcls -> SUBSET Objects]
  /\ http_pool \in [Vcls -> BOOLEAN] /\ epoch_running \in [Vcls -> BOOLEAN]
  /\ epoch \in [Vcls -> EpochPoints]
  /\ tick_timers \in [Vcls -> [Index -> Timers \cup {None}]]
  /\ running \in [Timers -> BOOLEAN]
  /\ home \in [Timers -> (Vcls \X Index) \cup {<<None, 0>>}]
  /\ thread \in [Timers -> TimerPoints]
  /\ freed \subseteq Timers /\ joined \subseteq Timers
  /\ call \in [Callers -> [at : CallPoints, v : Vcls \cup {None}, i : 0 .. MaxModules,
                           on : BOOLEAN, t : Timers \cup {None}]]
  /\ sets \in 0 .. MaxSets /\ raced \subseteq Vcls \X Index /\ fault \in BOOLEAN
  /\ trap \in [Timers -> {"NULL", "stray"}] /\ misfreed \subseteq Timers

Lives(t) == thread[t] \notin {None, "done"}

\* An engine is deleted after the threads that use it have ended: the epoch
\* thread and the tick timers (engine_destroy joins them first).
ThreadsEndFirst ==
  \A v \in Vcls : engine[v] = "deleted" =>
    /\ epoch[v] = "done"
    /\ \A t \in Timers : home[t][1] = v /\ home[t] \notin raced => ~ Lives(t)

\* When an engine is gone nothing is left of its VCL, failed loads included: no
\* entry in the registry, no filter, and no pool, snapshot or HTTP pool, unless
\* the pool size of a module was set twice (the second pool overwrites the first).
NothingLeft ==
  \A v \in Vcls : engine[v] = "deleted" =>
    /\ v \notin registry \cup filters
    /\ v \notin remade => objects[v] = {}

\* A module has one timer thread at a time, its structure is freed after the
\* thread has ended, and no step of stopping a timer is undefined, as long as no
\* timer was set by two threads at once or by its own thread, and no thread has
\* deleted a trap that is none.
OneTimer ==
  raced = {} /\ misfreed = {} =>
    /\ ~ fault
    /\ \A t \in Timers : Lives(t) => t \notin freed
    /\ \A t, u \in Timers : Lives(t) /\ Lives(u) /\ home[t] = home[u] => t = u

\* Neither an event of the CLI thread nor a request that sets a tick period waits
\* for ever for a timer to end, even if a tick's guest code does not return (the
\* epoch thread, which ends it, is stopped last), unless a timer was set by two
\* threads at once or by its own.
JoinsEnd ==
  /\ cli.at # "idle" ~> cli.at = "idle" \/ raced # {}
  /\ \A w \in Workers : call[w].at # "none" ~> call[w].at = "none" \/ raced # {}

=============================================================================
