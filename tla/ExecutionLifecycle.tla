-------------------------- MODULE ExecutionLifecycle --------------------------
(***************************************************************************)
(* Who owns a store: the executions that Varnish tasks (client requests,   *)
(* each in its own worker thread) start through proxy_wasm_execute, the    *)
(* store each gets from the pool or creates, the hand-over of a response   *)
(* execution to a PRIV_TASK structure and from there to the wasm_body      *)
(* delivery processor, and the four places that give the store back:       *)
(* the cleanup label, the failure path of the hand-over, vdp_wasm_fini and *)
(* vdp_wasm_task_fini.  The pool is the atomic one of SlotPool, except     *)
(* that release, as in the code, clears the flag of whatever slot it is    *)
(* given.                                                                  *)
(***************************************************************************)
EXTENDS Integers, FiniteSets

CONSTANTS
  Tasks,              \* Varnish tasks
  Slots,              \* the pool's slots
  MaxCalls,           \* calls the VCL makes in a task, over chains and restarts
  MaxFilters          \* times resp.filters names wasm_body

ASSUME LifecycleAssumption ==
  /\ MaxCalls \in Nat /\ MaxFilters \in Nat
  /\ {"none", "cold"} \cap Slots = {}

Execs == Tasks \X (1 .. MaxCalls)

VARIABLES
  in_use,    \* [Slots -> {0, 1}]
  pc,        \* [Tasks -> Points]
  n,         \* [Tasks -> 0 .. MaxCalls], calls made; the last is current
  resp,      \* [Tasks -> BOOLEAN], the last call was one of the response phase
  ret,       \* [Tasks -> {-1, 0}], ret at the cleanup label
  store,     \* [Execs -> Slots \cup {"none", "cold"}], store of an execution
  disposed,  \* [Execs -> Nat], times it was released or deleted
  task,      \* [Tasks -> 0 .. MaxCalls], execution in PRIV_TASK, 0: none
  live,      \* [Tasks -> BOOLEAN], task->store # NULL
  vdp,       \* [Tasks -> Nat], wasm_body filters pushed and not finished
  deferred,  \* history: executions that were handed over to a task
  bodyRan,   \* history: executions whose body callback ran
  failed,    \* history: executions for which VRT_priv_task failed
  doubled,   \* history: executions whose task went to two processors
  total, ok, error  \* calls_total, calls_ok, calls_error

statVars == <<total, ok, error>>
historyVars == <<deferred, bodyRan, failed, doubled>>
vars == <<in_use, pc, n, resp, ret, store, disposed, task, live, vdp,
          historyVars, statVars>>

(***************************************************************************)
(* "vcl": the task is in VCL code, between calls; "run": guest code of the *)
(* current execution runs, up to the end of its header function and the    *)
(* inline callbacks; "cleanup": at the cleanup label; "deliver": the       *)
(* response is being sent; "end": the task is over.                        *)
(***************************************************************************)
Points == {"vcl", "run", "cleanup", "deliver", "end"}

Current(r) == <<r, n[r]>>
Deferred(r) == <<r, task[r]>>

Init ==
  /\ in_use = [s \in Slots |-> 0]
  /\ pc = [r \in Tasks |-> "vcl"]
  /\ n = [r \in Tasks |-> 0]
  /\ resp = [r \in Tasks |-> FALSE]
  /\ ret = [r \in Tasks |-> 0]
  /\ store = [e \in Execs |-> "none"]
  /\ disposed = [e \in Execs |-> 0]
  /\ task = [r \in Tasks |-> 0]
  /\ live = [r \in Tasks |-> FALSE]
  /\ vdp = [r \in Tasks |-> 0]
  /\ deferred = {} /\ bodyRan = {} /\ failed = {} /\ doubled = {}
  /\ total = 0 /\ ok = 0 /\ error = 0

-----------------------------------------------------------------------------
(* An operator named Faulty... is a mutated form of the definition after it. *)

\* vwasm_store_pool_release, or wasmtime_store_delete for a cold store
Dispose(e) ==
  /\ disposed' = [disposed EXCEPT ![e] = @ + 1]
  /\ in_use' = IF store[e] \in Slots
               THEN [in_use EXCEPT ![store[e]] = 0] ELSE in_use

\* The VCL calls a module; vcl_deliver can restart, so a request call may
\* follow a response call.
CallAllowed(r) == pc[r] = "vcl" /\ n[r] < MaxCalls

CountCall(r, phase) ==
  /\ n' = [n EXCEPT ![r] = @ + 1]
  /\ resp' = [resp EXCEPT ![r] = (phase = "response")]

\* The module is not loaded, or wasmtime_store_new failed: nothing is counted.
CallRefused(r, phase) ==
  /\ CallAllowed(r)
  /\ CountCall(r, phase)
  /\ UNCHANGED <<in_use, pc, ret, store, disposed, task, live, vdp,
                 historyVars, statVars>>

\* The flag is not looked at.
FaultyCallWithSlot(r, phase, s) ==
  /\ CallAllowed(r)
  /\ in_use' = [in_use EXCEPT ![s] = 1]
  /\ CountCall(r, phase)
  /\ store' = [store EXCEPT ![<<r, n[r] + 1>>] = s]
  /\ pc' = [pc EXCEPT ![r] = "run"]
  /\ UNCHANGED <<ret, disposed, task, live, vdp, historyVars, statVars>>

\* A store is acquired from the pool.  The pool may return NULL at any time.
CallWithSlot(r, phase, s) ==
  /\ CallAllowed(r)
  /\ in_use[s] = 0
  /\ in_use' = [in_use EXCEPT ![s] = 1]
  /\ CountCall(r, phase)
  /\ store' = [store EXCEPT ![<<r, n[r] + 1>>] = s]
  /\ pc' = [pc EXCEPT ![r] = "run"]
  /\ UNCHANGED <<ret, disposed, task, live, vdp, historyVars, statVars>>

\* A fresh store is created.
CallCold(r, phase) ==
  /\ CallAllowed(r)
  /\ CountCall(r, phase)
  /\ store' = [store EXCEPT ![<<r, n[r] + 1>>] = "cold"]
  /\ pc' = [pc EXCEPT ![r] = "run"]
  /\ UNCHANGED <<in_use, ret, disposed, task, live, vdp, historyVars, statVars>>

-----------------------------------------------------------------------------
\* Instantiation or the header function failed, or memory for the task did.
CallFails(r) ==
  /\ pc[r] = "run"
  /\ ret' = [ret EXCEPT ![r] = -1]
  /\ pc' = [pc EXCEPT ![r] = "cleanup"]
  /\ UNCHANGED <<in_use, n, resp, store, disposed, task, live, vdp,
                 historyVars, statVars>>

\* Local response, PAUSE, or all callbacks ran inline.
CallCompletes(r) ==
  /\ pc[r] = "run"
  /\ ret' = [ret EXCEPT ![r] = 0]
  /\ pc' = [pc EXCEPT ![r] = "cleanup"]
  /\ UNCHANGED <<in_use, n, resp, store, disposed, task, live, vdp,
                 historyVars, statVars>>

\* The hand-over goes on to the cleanup label.
FaultyCallDefers(r) ==
  /\ pc[r] = "run"
  /\ resp[r]
  /\ task' = [task EXCEPT ![r] = n[r]]
  /\ live' = [live EXCEPT ![r] = TRUE]
  /\ deferred' = deferred \cup {Current(r)}
  /\ total' = total + 1
  /\ pc' = [pc EXCEPT ![r] = "cleanup"]
  /\ UNCHANGED <<in_use, n, resp, ret, store, disposed, vdp, bodyRan, failed, doubled,
                 ok, error>>

\* The call is not counted at the hand-over.
FaultyCallDefersUncounted(r) ==
  /\ pc[r] = "run"
  /\ resp[r]
  /\ task' = [task EXCEPT ![r] = n[r]]
  /\ live' = [live EXCEPT ![r] = TRUE]
  /\ deferred' = deferred \cup {Current(r)}
  /\ pc' = [pc EXCEPT ![r] = "vcl"]
  /\ UNCHANGED <<in_use, n, resp, ret, store, disposed, vdp, bodyRan, failed, doubled,
                 statVars>>

\* The execution moves to a new task structure, which replaces the pointer
\* that PRIV_TASK held; its store stays acquired.
CallDefers(r) ==
  /\ pc[r] = "run"
  /\ resp[r]
  /\ task' = [task EXCEPT ![r] = n[r]]
  /\ live' = [live EXCEPT ![r] = TRUE]
  /\ deferred' = deferred \cup {Current(r)}
  /\ total' = total + 1
  /\ pc' = [pc EXCEPT ![r] = "vcl"]
  /\ UNCHANGED <<in_use, n, resp, ret, store, disposed, vdp, bodyRan, failed, doubled,
                 ok, error>>

\* VRT_priv_task returned NULL, as it does when the task's workspace is used up:
\* the store is given back here, and the code then goes to the cleanup label
\* with `pooled' and `store' still set.
DeferFails(r) ==
  /\ pc[r] = "run"
  /\ resp[r]
  /\ failed' = failed \cup {Current(r)}
  /\ Dispose(Current(r))
  /\ ret' = [ret EXCEPT ![r] = -1]
  /\ pc' = [pc EXCEPT ![r] = "cleanup"]
  /\ UNCHANGED <<n, resp, store, task, live, vdp, deferred, bodyRan, doubled, statVars>>

\* The cleanup label: statistics, then the store is given back.
Cleanup(r) ==
  /\ pc[r] = "cleanup"
  /\ total' = total + 1
  /\ IF ret[r] >= 0 THEN ok' = ok + 1 /\ UNCHANGED error
                    ELSE error' = error + 1 /\ UNCHANGED ok
  /\ Dispose(Current(r))
  /\ pc' = [pc EXCEPT ![r] = "vcl"]
  /\ UNCHANGED <<n, resp, ret, store, task, live, vdp, historyVars>>

-----------------------------------------------------------------------------
\* The response is delivered: vdp_wasm_init pushes a filter for every wasm_body
\* in resp.filters, each with the same task, if PRIV_TASK has one.
Deliver(r) ==
  /\ pc[r] = "vcl"
  /\ \E f \in 0 .. MaxFilters :
       /\ vdp' = [vdp EXCEPT ![r] = IF task[r] = 0 THEN 0 ELSE f]
       /\ doubled' = IF task[r] # 0 /\ f > 1 THEN doubled \cup {Deferred(r)} ELSE doubled
  /\ pc' = [pc EXCEPT ![r] = "deliver"]
  /\ UNCHANGED <<in_use, n, resp, ret, store, disposed, task, live,
                 deferred, bodyRan, failed, statVars>>

\* vdp_wasm_bytes: the body callback runs in the task's store.
BodyBytes(r) ==
  /\ pc[r] = "deliver"
  /\ vdp[r] > 0
  /\ bodyRan' = bodyRan \cup {Deferred(r)}
  /\ UNCHANGED <<in_use, pc, n, resp, ret, store, disposed, task, live, vdp,
                 deferred, failed, doubled, statVars>>

\* vdp_wasm_fini: log, done and delete, the success is counted and the store
\* given back; task->store becomes NULL.
VdpFini(r) ==
  /\ pc[r] = "deliver"
  /\ vdp[r] > 0
  /\ ok' = ok + 1
  /\ Dispose(Deferred(r))
  /\ live' = [live EXCEPT ![r] = FALSE]
  /\ vdp' = [vdp EXCEPT ![r] = @ - 1]
  /\ UNCHANGED <<pc, n, resp, ret, store, task, historyVars, total, error>>

\* task->store is not looked at.
FaultyTaskFini(r) ==
  /\ pc[r] = "deliver"
  /\ vdp[r] = 0
  /\ IF task[r] # 0 THEN Dispose(Deferred(r)) ELSE UNCHANGED <<in_use, disposed>>
  /\ pc' = [pc EXCEPT ![r] = "end"]
  /\ UNCHANGED <<n, resp, ret, store, task, live, vdp, historyVars, statVars>>

\* vdp_wasm_task_fini at the end of the task: a store that no VDP gave back.
TaskFini(r) ==
  /\ pc[r] = "deliver"
  /\ vdp[r] = 0
  /\ IF task[r] # 0 /\ live[r] THEN Dispose(Deferred(r))
                               ELSE UNCHANGED <<in_use, disposed>>
  /\ pc' = [pc EXCEPT ![r] = "end"]
  /\ UNCHANGED <<n, resp, ret, store, task, live, vdp, historyVars, statVars>>

-----------------------------------------------------------------------------
TaskStep(r) ==
  \/ \E phase \in {"request", "response"} :
       \/ CallRefused(r, phase)
       \/ CallCold(r, phase)
       \/ \E s \in Slots : CallWithSlot(r, phase, s)
  \/ CallFails(r) \/ CallCompletes(r) \/ CallDefers(r) \/ DeferFails(r)
  \/ Cleanup(r)
  \/ Deliver(r) \/ BodyBytes(r) \/ VdpFini(r) \/ TaskFini(r)

Next == \E r \in Tasks : TaskStep(r)

Spec == Init /\ [][Next]_vars

-----------------------------------------------------------------------------
(* Properties *)

\* Every variable keeps its type.
TypeOK ==
  /\ in_use \in [Slots -> {0, 1}]
  /\ pc \in [Tasks -> Points]
  /\ n \in [Tasks -> 0 .. MaxCalls]
  /\ resp \in [Tasks -> BOOLEAN]
  /\ ret \in [Tasks -> {-1, 0}]
  /\ store \in [Execs -> Slots \cup {"none", "cold"}]
  /\ disposed \in [Execs -> Nat]
  /\ task \in [Tasks -> 0 .. MaxCalls]
  /\ live \in [Tasks -> BOOLEAN]
  /\ vdp \in [Tasks -> 0 .. MaxFilters]
  /\ bodyRan \subseteq deferred /\ doubled \subseteq deferred
  /\ deferred \subseteq Execs /\ failed \subseteq Execs
  /\ total \in Nat /\ ok \in Nat /\ error \in Nat

Owns(e) == store[e] # "none" /\ disposed[e] = 0

\* A later response call of the same task took the place of e in PRIV_TASK.
Replaced(e) == e \in deferred /\ task[e[1]] # e[2]

\* Executions whose store is given back once too often: the hand-over failed, or
\* resp.filters names wasm_body twice and both processors finish the one task.
Twice == failed \cup doubled

\* Unless there is such an execution, two executions never have the same pooled
\* store, from the acquire through the hand-over to the delivery processor to
\* the release.
NoSharedStore ==
  Twice = {} =>
    \A e, f \in Execs :
      e # f /\ Owns(e) /\ Owns(f) /\ store[e] \in Slots => store[e] # store[f]

\* No other store is released or deleted twice by the four places that do so;
\* and when the task is over every store it took has been given back, but for
\* those of executions that were replaced in PRIV_TASK.
DisposedOnce ==
  \A e \in Execs :
    /\ e \notin Twice => disposed[e] <= 1
    /\ pc[e[1]] = "end" /\ store[e] # "none" /\ ~Replaced(e) => disposed[e] > 0

\* Guest code, also that of the body callback long after the VCL call returned,
\* runs only in a store its execution still owns, and the body callback is that
\* of the last execution handed over.
RunsInOwnStore ==
  /\ \A r \in Tasks :
       /\ pc[r] = "run" => Owns(Current(r))
       /\ pc[r] = "deliver" /\ vdp[r] > 0 => Owns(Deferred(r)) \/ Deferred(r) \in doubled
  /\ bodyRan \subseteq {Deferred(r) : r \in Tasks}

\* calls_total exceeds calls_ok + calls_error by the executions that were handed
\* over and were replaced, or whose delivery processor has not finished or
\* never ran; two processors of one task count one call twice.
StatsConsistent ==
  doubled = {} =>
    total = ok + error + Cardinality({e \in deferred : Replaced(e) \/ live[e[1]]})

=============================================================================
