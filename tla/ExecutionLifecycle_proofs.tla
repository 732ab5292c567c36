---------------------- MODULE ExecutionLifecycle_proofs ----------------------
(***************************************************************************)
(* Who owns a store, proved for any number of tasks, slots, calls and      *)
(* filters.                                                                *)
(***************************************************************************)
EXTENDS ExecutionLifecycle, FiniteSetTheorems, TLAPS

\* Executions that have not started have nothing.
Later ==
  \A e \in Execs : e[2] > n[e[1]] =>
    store[e] = "none" /\ disposed[e] = 0 /\ e \notin deferred /\ e \notin failed

\* A current execution has a store it has not given back, unless the hand-over
\* just failed.
Running ==
  \A r \in Tasks : pc[r] \in {"run", "cleanup"} =>
    /\ n[r] > 0
    /\ store[Current(r)] # "none"
    /\ Current(r) \notin deferred
    /\ Current(r) \in failed => pc[r] = "cleanup"
    /\ Current(r) \notin failed => disposed[Current(r)] = 0
    /\ Current(r) \in failed => disposed[Current(r)] > 0

\* An execution that is over and was not handed over gave back what it had.
Settled ==
  \A e \in Execs :
    (e[2] < n[e[1]] \/ pc[e[1]] \notin {"run", "cleanup"}) /\ e \notin deferred =>
      store[e] = "none" \/ disposed[e] > 0

\* What was handed over has a store, and the task has one of them.
Handed ==
  /\ \A e \in deferred : e \notin failed /\ store[e] # "none" /\ task[e[1]] # 0
  /\ \A r \in Tasks : task[r] # 0 => Deferred(r) \in deferred

\* task->store says whether the task's store has been given back.
StoreField ==
  \A r \in Tasks : task[r] # 0 =>
    /\ pc[r] \in {"vcl", "run", "cleanup"} => live[r]
    /\ live[r] /\ pc[r] # "end" => disposed[Deferred(r)] = 0
    /\ ~live[r] \/ pc[r] = "end" => disposed[Deferred(r)] > 0

\* Delivery processors share the task only if there are two.
Processors ==
  \A r \in Tasks :
    /\ vdp[r] > 0 => pc[r] = "deliver" /\ task[r] # 0
    /\ vdp[r] > 0 => live[r] \/ Deferred(r) \in doubled
    /\ vdp[r] > 1 => Deferred(r) \in doubled

\* Bodies are those of the task's execution.
Bodies == \A e \in bodyRan : pc[e[1]] \in {"deliver", "end"} /\ task[e[1]] = e[2]

\* Only executions in Twice give a store back twice.
Once == \A e \in Execs : e \notin Twice => disposed[e] <= 1

\* The slot of an execution that owns it is marked.
Flags ==
  Twice = {} =>
    \A e \in Execs : Owns(e) /\ store[e] \in Slots => in_use[store[e]] = 1

IInv ==
  /\ TypeOK /\ Later /\ Running /\ Settled /\ Handed /\ StoreField
  /\ Processors /\ Bodies /\ Once /\ Flags /\ NoSharedStore

-----------------------------------------------------------------------------
\* An execution is a pair of a task and a call number.
LEMMA Pairs ==
  /\ \A e \in Execs : e[1] \in Tasks /\ e[2] \in 1 .. MaxCalls /\ e = <<e[1], e[2]>>
  /\ \A r \in Tasks, i \in 1 .. MaxCalls : <<r, i>> \in Execs
  /\ \A r, i : <<r, i>>[1] = r /\ <<r, i>>[2] = i
BY DEF Execs

\* The initial states satisfy the invariant.
LEMMA InitInv == Init => IInv
<1> SUFFICES ASSUME Init PROVE IInv
  OBVIOUS
<1> USE LifecycleAssumption, Pairs
<1>1. TypeOK
  BY DEF Init, TypeOK, Points
<1>2. Later /\ Running /\ Settled /\ Handed
  BY Zenon DEF Init, Later, Running, Settled, Handed
<1>3. StoreField /\ Processors /\ Bodies /\ Once
  BY DEF Init, StoreField, Processors, Bodies, Once
<1>4. Flags /\ NoSharedStore
  BY Zenon DEF Init, Flags, NoSharedStore, Owns
<1> QED
  BY Zenon, <1>1, <1>2, <1>3, <1>4 DEF IInv

\* Starting a call, with a slot whose flag is clear, with a fresh store, or not.
LEMMA CallInv ==
  ASSUME IInv, NEW r \in Tasks, NEW phase \in {"request", "response"},
         CallRefused(r, phase) \/ CallCold(r, phase)
           \/ \E s \in Slots : CallWithSlot(r, phase, s)
  PROVE  IInv'
<1> USE LifecycleAssumption, Pairs
<1> DEFINE e0 == <<r, n[r] + 1>>
<1>1. /\ pc[r] = "vcl" /\ n[r] < MaxCalls
      /\ n' = [n EXCEPT ![r] = @ + 1]
      /\ resp' = [resp EXCEPT ![r] = (phase = "response")]
      /\ UNCHANGED <<ret, disposed, task, live, vdp, historyVars, statVars>>
  BY Zenon DEF CallRefused, CallCold, CallWithSlot, CallAllowed, CountCall
<1>2. \/ UNCHANGED <<in_use, pc, store>>
      \/ /\ pc' = [pc EXCEPT ![r] = "run"]
         /\ \/ store' = [store EXCEPT ![e0] = "cold"] /\ UNCHANGED in_use
            \/ \E s \in Slots : /\ in_use[s] = 0
                                /\ in_use' = [in_use EXCEPT ![s] = 1]
                                /\ store' = [store EXCEPT ![e0] = s]
  BY Zenon DEF CallRefused, CallCold, CallWithSlot
<1>3. /\ n[r] \in 0 .. MaxCalls /\ e0 \in Execs /\ e0[1] = r /\ e0[2] = n[r] + 1
      /\ store[e0] = "none" /\ disposed[e0] = 0 /\ e0 \notin deferred /\ e0 \notin failed
  BY SMTT(30), <1>1 DEF IInv, TypeOK, Later
<1>4. TypeOK'
  <2>1. /\ in_use \in [Slots -> {0, 1}] /\ pc \in [Tasks -> Points]
        /\ store \in [Execs -> Slots \cup {"none", "cold"}]
        /\ n \in [Tasks -> 0 .. MaxCalls] /\ resp \in [Tasks -> BOOLEAN]
    BY Zenon DEF IInv, TypeOK
  <2>2. pc' \in [Tasks -> Points]
    <3>1. "run" \in Points
      BY Zenon DEF Points
    <3>2. pc' = pc \/ pc' = [pc EXCEPT ![r] = "run"]
      BY Zenon, <1>2
    <3> QED
      BY SMTT(30), <2>1, <3>1, <3>2
  <2>3. in_use' \in [Slots -> {0, 1}]
    <3>1. in_use' = in_use \/ \E s \in Slots : in_use' = [in_use EXCEPT ![s] = 1]
      BY Zenon, <1>2
    <3> QED
      BY Zenon, <2>1, <3>1
  <2>4. store' \in [Execs -> Slots \cup {"none", "cold"}]
    <3>1. store' = store \/ \E x \in Slots \cup {"none", "cold"} : store' = [store EXCEPT ![e0] = x]
      BY Zenon, <1>2
    <3> QED
      BY Zenon, <2>1, <3>1
  <2>5. n' \in [Tasks -> 0 .. MaxCalls]
    BY <2>1, <1>1, <1>3
  <2>6. resp' \in [Tasks -> BOOLEAN]
    BY Zenon, <2>1, <1>1
  <2> QED
    BY Zenon, <2>2, <2>3, <2>4, <2>5, <2>6, <1>1 DEF IInv, TypeOK, historyVars, statVars
<1>5. /\ n'[r] = n[r] + 1 /\ Current(r)' = e0
      /\ \A q \in Tasks : q # r => n'[q] = n[q] /\ Current(q)' = Current(q)
  BY ZenonT(40), <1>1, <1>3 DEF IInv, TypeOK, Current
<1>6. \A e \in Execs : e # e0 => store'[e] = store[e]
  BY <1>2, <1>3 DEF IInv, TypeOK
<1>7. /\ \A q \in Tasks : q # r => pc'[q] = pc[q]
      /\ pc'[r] \in {"vcl", "run"}
      /\ pc'[r] = "run" => store'[e0] # "none"
      /\ pc'[r] = "vcl" => store'[e0] = "none"
  <2>1. pc \in [Tasks -> Points] /\ store \in [Execs -> Slots \cup {"none", "cold"}]
    BY Zenon DEF IInv, TypeOK
  <2> QED
    BY ZenonT(60), <2>1, <1>1, <1>2, <1>3
<1>8. Later'
  BY <1>1, <1>3, <1>5, <1>6 DEF IInv, Later, TypeOK, historyVars
<1>9. Running'
  <2> SUFFICES ASSUME NEW q \in Tasks, pc'[q] \in {"run", "cleanup"}
               PROVE  /\ n'[q] > 0
                      /\ store'[Current(q)'] # "none"
                      /\ Current(q)' \notin deferred
                      /\ Current(q)' \in failed => pc'[q] = "cleanup"
                      /\ Current(q)' \notin failed => disposed[Current(q)'] = 0
                      /\ Current(q)' \in failed => disposed[Current(q)'] > 0
    BY Zenon, <1>1 DEF Running, historyVars
  <2>1. CASE q = r
    BY <2>1, <1>1, <1>3, <1>5, <1>7 DEF IInv, TypeOK
  <2>2. CASE q # r
    <3>1. pc[q] \in {"run", "cleanup"} /\ n'[q] = n[q] /\ Current(q)' = Current(q) /\ n[q] > 0
      BY Zenon, <2>2, <1>5, <1>7 DEF IInv, Running
    <3>2. Current(q) \in Execs /\ Current(q) # e0
      BY <3>1, <2>2, <1>3 DEF IInv, TypeOK, Current
    <3> QED
      BY <3>1, <3>2, <2>2, <1>6, <1>7 DEF IInv, Running
  <2> QED
    BY Zenon, <2>1, <2>2
<1>10. Settled'
  <2> SUFFICES ASSUME NEW e \in Execs, e[2] < n'[e[1]] \/ pc'[e[1]] \notin {"run", "cleanup"},
                      e \notin deferred
               PROVE  store'[e] = "none" \/ disposed[e] > 0
    BY Zenon, <1>1 DEF Settled, historyVars
  <2>1. CASE e = e0
    BY <2>1, <1>3, <1>5, <1>7 DEF IInv, TypeOK
  <2>2. CASE e # e0 /\ e[1] = r
    BY Zenon, <2>2, <1>1, <1>6 DEF IInv, Settled
  <2>3. CASE e[1] # r
    BY Zenon, <2>3, <1>3, <1>5, <1>6, <1>7 DEF IInv, Settled
  <2> QED
    BY Zenon, <2>1, <2>2, <2>3
<1>11. Handed' /\ StoreField' /\ Processors' /\ Bodies' /\ Once'
  <2>1. Handed'
    BY Zenon, <1>1, <1>3, <1>6 DEF IInv, Handed, historyVars, Deferred, TypeOK
  <2>2. StoreField'
    BY <1>1, <1>7 DEF IInv, StoreField, historyVars, Deferred, TypeOK
  <2>3. Processors'
    BY ZenonT(60), <1>1, <1>7 DEF IInv, Processors, historyVars, Deferred, TypeOK
  <2>4. Bodies'
    BY Zenon, <1>1, <1>7 DEF IInv, Bodies, historyVars, TypeOK
  <2>5. Once'
    BY Zenon, <1>1 DEF IInv, Once, historyVars, Twice
  <2> QED
    BY Zenon, <2>1, <2>2, <2>3, <2>4, <2>5
<1>12. Flags' /\ NoSharedStore'
  <2>1. CASE Twice # {}
    BY Zenon, <2>1, <1>1 DEF Flags, NoSharedStore, Twice, historyVars
  <2>2. CASE Twice = {} /\ UNCHANGED <<in_use, store>>
    BY ZenonT(40), <2>2, <1>1 DEF IInv, Flags, NoSharedStore, Twice, Owns, historyVars
  <2>3. CASE Twice = {} /\ store' = [store EXCEPT ![e0] = "cold"] /\ UNCHANGED in_use
    BY SMTT(30), <2>3, <1>1, <1>3 DEF IInv, TypeOK, Flags, NoSharedStore, Twice, Owns, historyVars
  <2>4. ASSUME Twice = {}, NEW s \in Slots, in_use[s] = 0,
               in_use' = [in_use EXCEPT ![s] = 1], store' = [store EXCEPT ![e0] = s]
        PROVE  Flags' /\ NoSharedStore'
    BY SMTT(30), <2>4, <1>1, <1>3 DEF IInv, TypeOK, Flags, NoSharedStore, Twice, Owns, historyVars
  <2> QED
    BY Zenon, <2>1, <2>2, <2>3, <2>4, <1>2
<1> QED
  BY Zenon, <1>4, <1>8, <1>9, <1>10, <1>11, <1>12 DEF IInv

\* An execution that gives back a store it owns leaves the flags of others alone.
LEMMA DisposeFlags ==
  ASSUME IInv, NEW e \in Execs, Dispose(e), UNCHANGED store, Twice \subseteq Twice',
         Twice' = {} => Owns(e)
  PROVE  Flags' /\ NoSharedStore'
<1>1. CASE Twice' # {}
  BY Zenon, <1>1 DEF Flags, NoSharedStore
<1>2. CASE Twice' = {}
  <2>1. Twice = {} /\ Owns(e)
    BY Zenon, <1>2
  <2>2. ~Owns(e)' /\ \A f \in Execs : Owns(f)' => Owns(f) /\ f # e
    BY <2>1 DEF IInv, TypeOK, Dispose, Owns
  <2>3. \A f \in Execs : Owns(f)' /\ store[f] \in Slots => in_use'[store[f]] = 1
    BY Zenon, <2>1, <2>2 DEF IInv, TypeOK, Dispose, Flags, NoSharedStore
  <2>4. Flags'
    BY Zenon, <2>3 DEF Flags
  <2>5. NoSharedStore'
    BY Zenon, <2>1, <2>2 DEF IInv, NoSharedStore
  <2> QED
    BY Zenon, <2>4, <2>5
<1> QED
  BY Zenon, <1>1, <1>2

\* The types of what Dispose assigns.
LEMMA DisposeType ==
  ASSUME IInv, NEW e \in Execs, Dispose(e)
  PROVE  /\ in_use' \in [Slots -> {0, 1}]
         /\ disposed' \in [Execs -> Nat]
         /\ disposed'[e] = disposed[e] + 1
         /\ \A f \in Execs : f # e => disposed'[f] = disposed[f]
         /\ \A f \in Execs : disposed'[f] >= disposed[f]
         /\ \A f \in Execs : disposed[f] \in Nat
BY DEF IInv, TypeOK, Dispose

\* The header function and the callbacks end, well or not.
LEMMA EndInv ==
  ASSUME IInv, NEW r \in Tasks, CallFails(r) \/ CallCompletes(r)
  PROVE  IInv'
<1> USE LifecycleAssumption, Pairs
<1>1. /\ pc[r] = "run" /\ pc' = [pc EXCEPT ![r] = "cleanup"]
      /\ ret' \in [Tasks -> {-1, 0}]
      /\ UNCHANGED <<in_use, n, resp, store, disposed, task, live, vdp,
                     historyVars, statVars>>
  BY Zenon DEF CallFails, CallCompletes, IInv, TypeOK
<1>2. pc'[r] = "cleanup" /\ \A q \in Tasks : q # r => pc'[q] = pc[q]
  BY Zenon, <1>1 DEF IInv, TypeOK
<1>3. TypeOK'
  BY Zenon, <1>1 DEF IInv, TypeOK, Points, historyVars, statVars
<1>4. Later' /\ Handed' /\ Once' /\ Flags' /\ NoSharedStore'
  BY Zenon, <1>1 DEF IInv, Later, Handed, Once, Flags, NoSharedStore, historyVars, Twice, Owns, Deferred
<1>5. Running'
  BY ZenonT(40), <1>1, <1>2 DEF IInv, Running, Current, historyVars
<1>6. Settled'
  BY Zenon, <1>1, <1>2 DEF IInv, Settled, historyVars
<1>7. StoreField' /\ Processors' /\ Bodies'
  BY <1>1, <1>2 DEF IInv, TypeOK, StoreField, Processors, Bodies, Deferred, historyVars
<1> QED
  BY Zenon, <1>3, <1>4, <1>5, <1>6, <1>7 DEF IInv

\* The execution is handed over to the task.
LEMMA DeferInv ==
  ASSUME IInv, NEW r \in Tasks, CallDefers(r)
  PROVE  IInv'
<1> USE LifecycleAssumption, Pairs
<1> DEFINE e0 == Current(r)
<1>1. /\ pc[r] = "run" /\ pc' = [pc EXCEPT ![r] = "vcl"]
      /\ task' = [task EXCEPT ![r] = n[r]]
      /\ live' = [live EXCEPT ![r] = TRUE]
      /\ deferred' = deferred \cup {e0}
      /\ total' = total + 1
      /\ UNCHANGED <<in_use, n, resp, ret, store, disposed, vdp, bodyRan, failed, doubled,
                     ok, error>>
  BY Zenon DEF CallDefers
<1>2. /\ n[r] \in 1 .. MaxCalls /\ e0 \in Execs /\ e0[1] = r /\ e0[2] = n[r]
      /\ store[e0] # "none" /\ e0 \notin failed /\ disposed[e0] = 0
  BY <1>1 DEF IInv, TypeOK, Running, Current
<1>3. /\ pc'[r] = "vcl" /\ task'[r] = n[r] /\ live'[r] /\ Deferred(r)' = e0
      /\ \A q \in Tasks : q # r => /\ pc'[q] = pc[q] /\ task'[q] = task[q]
                                   /\ live'[q] = live[q] /\ Deferred(q)' = Deferred(q)
  BY <1>1 DEF IInv, TypeOK, Deferred, Current
<1>4. TypeOK'
  <2>1. task' \in [Tasks -> 0 .. MaxCalls] /\ live' \in [Tasks -> BOOLEAN]
    BY Zenon, <1>1, <1>2 DEF IInv, TypeOK
  <2>2. pc' \in [Tasks -> Points]
    BY Zenon, <1>1 DEF IInv, TypeOK, Points
  <2>3. deferred' \subseteq Execs /\ bodyRan' \subseteq deferred' /\ doubled' \subseteq deferred'
    BY Zenon, <1>1, <1>2 DEF IInv, TypeOK
  <2> QED
    BY <2>1, <2>2, <2>3, <1>1 DEF IInv, TypeOK
<1>5. Later' /\ Once' /\ Flags' /\ NoSharedStore'
  BY <1>1, <1>2 DEF IInv, TypeOK, Later, Once, Flags, NoSharedStore, Twice, Owns
<1>6. Running'
  <2> SUFFICES ASSUME NEW q \in Tasks, pc'[q] \in {"run", "cleanup"}
               PROVE  q # r /\ Current(q) \in Execs /\ Current(q) # e0 /\ pc'[q] = pc[q]
    BY Zenon, <1>1 DEF IInv, Running, Current
  <2>1. q # r /\ pc'[q] = pc[q]
    BY Zenon, <1>3
  <2> QED
    BY <2>1, <1>2 DEF IInv, Running, TypeOK, Current
<1>7. Settled'
  <2> SUFFICES ASSUME NEW e \in Execs, e \notin deferred'
               PROVE  \/ e[2] >= n[e[1]] /\ pc'[e[1]] \in {"run", "cleanup"}
                      \/ store[e] = "none" \/ disposed'[e] > 0
    BY Zenon, <1>1 DEF IInv, TypeOK, Settled, historyVars
  <2>1. CASE e = e0
    BY Zenon, <2>1, <1>1, <1>2 DEF IInv, TypeOK
  <2>2. CASE e[1] = r /\ e[2] > n[r]
    BY Zenon, <2>2, <1>1 DEF IInv, Later
  <2>3. CASE e[1] = r /\ e[2] < n[r]
    BY ZenonT(40), <2>3, <1>1, <1>2 DEF IInv, TypeOK, Settled, historyVars
  <2>4. CASE e[1] # r
    BY <2>4, <1>1, <1>2, <1>3 DEF IInv, TypeOK, Settled, historyVars
  <2>5. e = e0 \/ e[1] # r \/ e[2] # n[r]
    BY <1>2
  <2>6. e[2] \in Int /\ n[r] \in Int
    BY <1>2
  <2>7. e = e0 \/ e[1] # r \/ e[2] > n[r] \/ e[2] < n[r]
    BY SMTT(30), <2>5, <2>6
  <2> QED
    BY Zenon, <2>1, <2>2, <2>3, <2>4, <2>7
<1>8. Handed'
  BY <1>1, <1>2, <1>3 DEF IInv, TypeOK, Handed
<1>9. StoreField'
  BY SMTT(30), <1>1, <1>2, <1>3 DEF IInv, TypeOK, StoreField
<1>10. Processors' /\ Bodies'
  BY <1>1, <1>2, <1>3 DEF IInv, TypeOK, Processors, Bodies
<1> QED
  BY Zenon, <1>4, <1>5, <1>6, <1>7, <1>8, <1>9, <1>10 DEF IInv

\* The hand-over fails and the store is given back.
LEMMA DeferFailsInv ==
  ASSUME IInv, NEW r \in Tasks, DeferFails(r)
  PROVE  IInv'
<1> USE LifecycleAssumption, Pairs
<1> DEFINE e0 == Current(r)
<1>1. /\ pc[r] = "run" /\ pc' = [pc EXCEPT ![r] = "cleanup"]
      /\ failed' = failed \cup {e0} /\ Dispose(e0)
      /\ ret' \in [Tasks -> {-1, 0}]
      /\ UNCHANGED <<n, resp, store, task, live, vdp, deferred, bodyRan, doubled, statVars>>
  BY Zenon DEF DeferFails, IInv, TypeOK
<1>2. /\ n[r] \in 1 .. MaxCalls /\ e0 \in Execs /\ e0[1] = r /\ e0[2] = n[r]
      /\ store[e0] # "none" /\ e0 \notin deferred
  BY <1>1 DEF IInv, TypeOK, Running, Current
<1>3. pc'[r] = "cleanup" /\ \A q \in Tasks : q # r => pc'[q] = pc[q]
  BY Zenon, <1>1 DEF IInv, TypeOK
<1>4. /\ in_use' \in [Slots -> {0, 1}]
      /\ disposed' \in [Execs -> Nat]
      /\ disposed'[e0] = disposed[e0] + 1
      /\ \A f \in Execs : f # e0 => disposed'[f] = disposed[f]
      /\ \A f \in Execs : disposed'[f] >= disposed[f]
      /\ \A f \in Execs : disposed[f] \in Nat
  BY Zenon, <1>1, <1>2, DisposeType
<1>5. TypeOK'
  <2>1. pc' \in [Tasks -> Points] /\ failed' \subseteq Execs
    BY ZenonT(60), <1>1, <1>2 DEF IInv, TypeOK, Points
  <2> QED
    BY Zenon, <2>1, <1>1, <1>4 DEF IInv, TypeOK, statVars
<1>6. Later' /\ Handed' /\ Once'
  BY <1>1, <1>2, <1>4 DEF IInv, TypeOK, Later, Handed, Once, Twice, Deferred
<1>7. Running'
  <2> SUFFICES ASSUME NEW q \in Tasks, pc'[q] \in {"run", "cleanup"}
               PROVE  /\ n[q] > 0
                      /\ store[Current(q)] # "none"
                      /\ Current(q) \notin deferred
                      /\ Current(q) \in failed' => pc'[q] = "cleanup"
                      /\ Current(q) \notin failed' => disposed'[Current(q)] = 0
                      /\ Current(q) \in failed' => disposed'[Current(q)] > 0
    BY Zenon, <1>1 DEF Running, Current
  <2>1. CASE q = r
    BY <2>1, <1>1, <1>2, <1>3, <1>4
  <2>2. CASE q # r
    <3>1. pc[q] \in {"run", "cleanup"} /\ pc'[q] = pc[q] /\ n[q] > 0
      BY Zenon, <2>2, <1>3 DEF IInv, Running
    <3>2. Current(q) \in Execs /\ Current(q) # e0
      BY <3>1, <2>2, <1>2 DEF IInv, TypeOK, Current
    <3> QED
      BY Zenon, <3>1, <3>2, <1>1, <1>4 DEF IInv, Running
  <2> QED
    BY Zenon, <2>1, <2>2
<1>8. Settled'
  BY SMTT(30), <1>1, <1>2, <1>3, <1>4 DEF IInv, Settled
<1>9. StoreField'
  BY SMTT(30), <1>1, <1>2, <1>3, <1>4 DEF IInv, TypeOK, StoreField, Deferred, Handed
<1>10. Processors' /\ Bodies'
  BY <1>1, <1>3 DEF IInv, TypeOK, Processors, Bodies, Deferred
<1>11. Flags' /\ NoSharedStore'
  BY Zenon, <1>1, <1>2, DisposeFlags DEF Twice
<1> QED
  BY Zenon, <1>5, <1>6, <1>7, <1>8, <1>9, <1>10, <1>11 DEF IInv

\* The cleanup label gives the store back.
LEMMA CleanupInv ==
  ASSUME IInv, NEW r \in Tasks, Cleanup(r)
  PROVE  IInv'
<1> USE LifecycleAssumption, Pairs
<1> DEFINE e0 == Current(r)
<1>1. /\ pc[r] = "cleanup" /\ pc' = [pc EXCEPT ![r] = "vcl"]
      /\ Dispose(e0)
      /\ UNCHANGED <<n, resp, ret, store, task, live, vdp, historyVars>>
  BY Zenon DEF Cleanup
<1>2. /\ n[r] \in 1 .. MaxCalls /\ e0 \in Execs /\ e0[1] = r /\ e0[2] = n[r]
      /\ store[e0] # "none" /\ e0 \notin deferred
      /\ e0 \notin failed => disposed[e0] = 0
  BY <1>1 DEF IInv, TypeOK, Running, Current
<1>3. pc'[r] = "vcl" /\ \A q \in Tasks : q # r => pc'[q] = pc[q]
  BY Zenon, <1>1 DEF IInv, TypeOK
<1>4. /\ in_use' \in [Slots -> {0, 1}]
      /\ disposed' \in [Execs -> Nat]
      /\ disposed'[e0] = disposed[e0] + 1
      /\ \A f \in Execs : f # e0 => disposed'[f] = disposed[f]
      /\ \A f \in Execs : disposed'[f] >= disposed[f]
      /\ \A f \in Execs : disposed[f] \in Nat
  BY Zenon, <1>1, <1>2, DisposeType
<1>5. TypeOK'
  <2>1. total' \in Nat /\ ok' \in Nat /\ error' \in Nat
    BY DEF IInv, TypeOK, Cleanup
  <2>2. pc' \in [Tasks -> Points]
    BY Zenon, <1>1 DEF IInv, TypeOK, Points
  <2> QED
    BY Zenon, <2>1, <2>2, <1>1, <1>4 DEF IInv, TypeOK, historyVars
<1>6. Later' /\ Handed' /\ Once'
  <2>1. Later'
    BY SMTT(30), <1>1, <1>2, <1>4 DEF IInv, Later, historyVars
  <2>2. Handed'
    BY SMTT(30), <1>1, <1>2, <1>4 DEF IInv, Handed, Deferred, historyVars
  <2>3. Once'
    BY SMTT(30), <1>1, <1>2, <1>4 DEF IInv, Once, Twice, historyVars
  <2>4. QED
    BY Zenon, <2>1, <2>2, <2>3
<1>7. Running'
  BY <1>1, <1>2, <1>3, <1>4 DEF IInv, TypeOK, Running, Current, historyVars
<1>8. Settled'
  <2> SUFFICES ASSUME NEW e \in Execs, e \notin deferred'
               PROVE  \/ e[2] >= n[e[1]] /\ pc'[e[1]] \in {"run", "cleanup"}
                      \/ store[e] = "none" \/ disposed'[e] > 0
    BY <1>1 DEF IInv, TypeOK, Settled, historyVars
  <2>1. CASE e = e0
    BY <2>1, <1>1, <1>2, <1>4 DEF IInv, TypeOK
  <2>2. CASE e[1] = r /\ e[2] > n[r]
    BY Zenon, <2>2, <1>1 DEF IInv, Later
  <2>3. CASE e[1] = r /\ e[2] < n[r]
    BY SMTT(30), <2>3, <1>1, <1>2, <1>4 DEF IInv, TypeOK, Settled, historyVars
  <2>4. CASE e[1] # r
    BY SMTT(30), <2>4, <1>1, <1>2, <1>3, <1>4 DEF IInv, TypeOK, Settled, historyVars
  <2>5. e = e0 \/ e[1] # r \/ e[2] # n[r]
    BY <1>2
  <2>6. e[2] \in Int /\ n[r] \in Int
    BY <1>2
  <2>7. e = e0 \/ e[1] # r \/ e[2] > n[r] \/ e[2] < n[r]
    BY SMTT(30), <2>5, <2>6
  <2> QED
    BY Zenon, <2>1, <2>2, <2>3, <2>4, <2>7
<1>9. StoreField'
  BY SMTT(30), <1>1, <1>2, <1>3, <1>4 DEF IInv, TypeOK, StoreField, Deferred, Handed, historyVars
<1>10. Processors' /\ Bodies'
  BY <1>1, <1>3 DEF IInv, TypeOK, Processors, Bodies, Deferred, historyVars
<1>11. Flags' /\ NoSharedStore'
  BY Zenon, <1>1, <1>2, DisposeFlags DEF Twice, historyVars, Owns
<1> QED
  BY Zenon, <1>5, <1>6, <1>7, <1>8, <1>9, <1>10, <1>11 DEF IInv

\* Delivery begins, with the processors that resp.filters names.
LEMMA DeliverInv ==
  ASSUME IInv, NEW r \in Tasks, Deliver(r)
  PROVE  IInv'
<1> USE LifecycleAssumption, Pairs
<1>1. PICK f \in 0 .. MaxFilters :
        /\ vdp' = [vdp EXCEPT ![r] = IF task[r] = 0 THEN 0 ELSE f]
        /\ doubled' = IF task[r] # 0 /\ f > 1 THEN doubled \cup {Deferred(r)} ELSE doubled
  BY Zenon DEF Deliver
<1>2. /\ pc[r] = "vcl" /\ pc' = [pc EXCEPT ![r] = "deliver"]
      /\ UNCHANGED <<in_use, n, resp, ret, store, disposed, task, live,
                     deferred, bodyRan, failed, statVars>>
  BY Zenon DEF Deliver
<1>3. pc'[r] = "deliver" /\ \A q \in Tasks : q # r => pc'[q] = pc[q]
  BY Zenon, <1>2 DEF IInv, TypeOK
<1>4. doubled \subseteq doubled' /\ doubled' \subseteq deferred
  BY <1>1 DEF IInv, TypeOK, Handed
<1>5. TypeOK'
  <2>1. vdp' \in [Tasks -> 0 .. MaxFilters] /\ pc' \in [Tasks -> Points]
    BY <1>1, <1>2 DEF IInv, TypeOK, Points
  <2> QED
    BY Zenon, <2>1, <1>2, <1>4 DEF IInv, TypeOK, statVars
<1>6. Later' /\ Handed' /\ Once'
  BY Zenon, <1>2, <1>4 DEF IInv, Later, Handed, Once, Twice, Deferred
<1>7. Running' /\ Settled'
  BY SMTT(30), <1>2, <1>3 DEF IInv, Running, Settled, Current
<1>8. StoreField' /\ Bodies'
  BY <1>2, <1>3 DEF IInv, TypeOK, StoreField, Bodies, Deferred
<1>9. Processors'
  <2> SUFFICES ASSUME NEW q \in Tasks
               PROVE  /\ vdp'[q] > 0 => pc'[q] = "deliver" /\ task[q] # 0
                      /\ vdp'[q] > 0 => live[q] \/ Deferred(q) \in doubled'
                      /\ vdp'[q] > 1 => Deferred(q) \in doubled'
    BY ZenonT(60), <1>2 DEF Processors, Deferred
  <2>1. CASE q = r
    BY <2>1, <1>1, <1>2, <1>3 DEF IInv, TypeOK, StoreField
  <2>2. CASE q # r
    BY Zenon, <2>2, <1>1, <1>3, <1>4 DEF IInv, TypeOK, Processors
  <2> QED
    BY Zenon, <2>1, <2>2
<1>10. Flags' /\ NoSharedStore'
  BY Zenon, <1>2, <1>4 DEF IInv, Flags, NoSharedStore, Twice, Owns
<1> QED
  BY Zenon, <1>5, <1>6, <1>7, <1>8, <1>9, <1>10 DEF IInv

\* The body callback of the task's execution.
LEMMA BodyInv ==
  ASSUME IInv, NEW r \in Tasks, BodyBytes(r)
  PROVE  IInv'
<1> USE LifecycleAssumption, Pairs
<1>1. /\ pc[r] = "deliver" /\ vdp[r] > 0
      /\ bodyRan' = bodyRan \cup {Deferred(r)}
      /\ UNCHANGED <<in_use, pc, n, resp, ret, store, disposed, task, live, vdp,
                     deferred, failed, doubled, statVars>>
  BY Zenon DEF BodyBytes
<1>2. Deferred(r) \in deferred /\ Deferred(r)[1] = r /\ Deferred(r)[2] = task[r]
  BY Zenon, <1>1 DEF IInv, Processors, Handed, Deferred
<1>3. TypeOK' /\ Bodies'
  BY <1>1, <1>2 DEF IInv, TypeOK, Bodies, statVars
<1>4. Later' /\ Running' /\ Settled' /\ Handed' /\ StoreField'
  BY ZenonT(60), <1>1 DEF IInv, Later, Running, Settled, Handed, StoreField, Current, Deferred
<1>5. Processors' /\ Once' /\ Flags' /\ NoSharedStore'
  BY Zenon, <1>1 DEF IInv, Processors, Once, Flags, NoSharedStore, Deferred, Twice, Owns
<1> QED
  BY Zenon, <1>3, <1>4, <1>5 DEF IInv

\* A delivery processor finishes, or the task ends.
LEMMA FiniInv ==
  ASSUME IInv, NEW r \in Tasks,
         VdpFini(r) \/ (TaskFini(r) /\ task[r] # 0 /\ live[r])
  PROVE  IInv'
<1> USE LifecycleAssumption, Pairs
<1> DEFINE e0 == Deferred(r)
<1>1. /\ pc[r] = "deliver" /\ Dispose(e0)
      /\ UNCHANGED <<n, resp, ret, store, task, historyVars, total, error>>
      /\ \/ /\ vdp[r] > 0 /\ vdp' = [vdp EXCEPT ![r] = @ - 1]
            /\ live' = [live EXCEPT ![r] = FALSE] /\ UNCHANGED pc /\ ok' = ok + 1
         \/ /\ vdp[r] = 0 /\ live[r] /\ task[r] # 0 /\ pc' = [pc EXCEPT ![r] = "end"]
            /\ UNCHANGED <<vdp, live, ok>>
  BY ZenonT(40) DEF VdpFini, TaskFini, statVars
<1>2. /\ task[r] \in 1 .. MaxCalls /\ e0 \in Execs /\ e0[1] = r /\ e0[2] = task[r]
      /\ e0 \in deferred /\ store[e0] # "none"
      /\ e0 \notin doubled => live[r] /\ disposed[e0] = 0
  BY <1>1 DEF IInv, TypeOK, Processors, Handed, StoreField, Deferred
<1>3. /\ \A q \in Tasks : q # r => pc'[q] = pc[q] /\ live'[q] = live[q] /\ vdp'[q] = vdp[q]
      /\ \/ pc'[r] = "deliver" /\ ~live'[r] /\ vdp'[r] = vdp[r] - 1
         \/ pc'[r] = "end" /\ vdp'[r] = 0
  BY <1>1 DEF IInv, TypeOK
<1>4. /\ in_use' \in [Slots -> {0, 1}]
      /\ disposed' \in [Execs -> Nat]
      /\ disposed'[e0] = disposed[e0] + 1
      /\ \A f \in Execs : f # e0 => disposed'[f] = disposed[f]
      /\ \A f \in Execs : disposed'[f] >= disposed[f]
      /\ \A f \in Execs : disposed[f] \in Nat
  BY Zenon, <1>1, <1>2, DisposeType
<1>5. TypeOK'
  <2>1. vdp' \in [Tasks -> 0 .. MaxFilters]
    <3>1. vdp \in [Tasks -> 0 .. MaxFilters] /\ vdp[r] \in 0 .. MaxFilters
      BY Zenon DEF IInv, TypeOK
    <3>2. vdp[r] > 0 => vdp[r] - 1 \in 0 .. MaxFilters
      BY <3>1
    <3> QED
      BY Zenon, <3>1, <3>2, <1>1
  <2>2. pc' \in [Tasks -> Points] /\ ok' \in Nat
    BY <1>1 DEF IInv, TypeOK, Points
  <2>3. live' \in [Tasks -> BOOLEAN]
    BY ZenonT(40), <1>1 DEF IInv, TypeOK
  <2> QED
    BY Zenon, <2>1, <2>2, <2>3, <1>1, <1>4 DEF IInv, TypeOK, historyVars
<1>6. Later' /\ Handed' /\ Once'
  BY <1>1, <1>2, <1>4 DEF IInv, Later, Handed, Once, Twice, Deferred, historyVars
<1>7. Running'
  <2> SUFFICES ASSUME NEW q \in Tasks, pc'[q] \in {"run", "cleanup"}
               PROVE  /\ pc[q] = pc'[q]
                      /\ disposed'[Current(q)] = disposed[Current(q)]
    BY <1>1 DEF IInv, Running, Current, historyVars
  <2>1. q # r /\ pc[q] = pc'[q] /\ n[q] > 0
    BY ZenonT(40), <1>3 DEF IInv, Running
  <2>2. Current(q) \in Execs /\ Current(q) # e0
    BY SMTT(30), <2>1, <1>2 DEF IInv, TypeOK, Current
  <2> QED
    BY ZenonT(40), <2>1, <2>2, <1>4
<1>8. Settled'
  BY <1>1, <1>2, <1>3, <1>4 DEF IInv, Settled, historyVars
<1>9. StoreField'
  <2> SUFFICES ASSUME NEW q \in Tasks, task[q] # 0
               PROVE  /\ pc'[q] \in {"vcl", "run", "cleanup"} => live'[q]
                      /\ live'[q] /\ pc'[q] # "end" => disposed'[Deferred(q)] = 0
                      /\ ~live'[q] \/ pc'[q] = "end" => disposed'[Deferred(q)] > 0
    BY Zenon, <1>1 DEF StoreField, Deferred
  <2>1. CASE q = r
    BY SMTT(30), <2>1, <1>2, <1>3, <1>4
  <2>2. CASE q # r
    <3>1. Deferred(q) \in Execs /\ Deferred(q) # e0
      BY SMTT(30), <2>2, <1>2 DEF IInv, TypeOK, Deferred
    <3> QED
      BY <3>1, <2>2, <1>3, <1>4 DEF IInv, StoreField
  <2> QED
    BY Zenon, <2>1, <2>2
<1>10. Processors'
  BY <1>1, <1>2, <1>3 DEF IInv, TypeOK, Processors, Deferred, historyVars
<1>11. Bodies'
  BY Zenon, <1>1, <1>3 DEF IInv, TypeOK, Bodies, historyVars
<1>12. Flags' /\ NoSharedStore'
  BY Zenon, <1>1, <1>2, DisposeFlags DEF Twice, historyVars, Owns
<1> QED
  BY ZenonT(40), <1>5, <1>6, <1>7, <1>8, <1>9, <1>10, <1>11, <1>12 DEF IInv

\* The task ends with nothing to give back.
LEMMA EmptyFiniInv ==
  ASSUME IInv, NEW r \in Tasks, TaskFini(r), ~(task[r] # 0 /\ live[r])
  PROVE  IInv'
<1> USE LifecycleAssumption, Pairs
<1>1. /\ pc[r] = "deliver" /\ vdp[r] = 0 /\ pc' = [pc EXCEPT ![r] = "end"]
      /\ UNCHANGED <<in_use, disposed, n, resp, ret, store, task, live, vdp,
                     historyVars, statVars>>
  BY Zenon DEF TaskFini
<1>2. pc'[r] = "end" /\ \A q \in Tasks : q # r => pc'[q] = pc[q]
  BY Zenon, <1>1 DEF IInv, TypeOK
<1>3. TypeOK'
  BY Zenon, <1>1 DEF IInv, TypeOK, Points, historyVars, statVars
<1>4. Later' /\ Handed' /\ Once' /\ Flags' /\ NoSharedStore'
  BY ZenonT(60), <1>1 DEF IInv, Later, Handed, Once, Flags, NoSharedStore, historyVars, Twice, Owns, Deferred
<1>5. Running' /\ Settled'
  BY <1>1, <1>2 DEF IInv, Running, Settled, Current, historyVars
<1>6. StoreField' /\ Processors' /\ Bodies'
  BY <1>1, <1>2 DEF IInv, TypeOK, StoreField, Processors, Bodies, Deferred, historyVars
<1> QED
  BY Zenon, <1>3, <1>4, <1>5, <1>6 DEF IInv

\* Every step preserves the invariant.
LEMMA NextInv == IInv /\ [Next]_vars => IInv'
<1> SUFFICES ASSUME IInv, [Next]_vars PROVE IInv'
  BY SMTT(30)
<1>1. CASE UNCHANGED vars
  BY <1>1 DEF IInv, vars, historyVars, statVars, TypeOK, Later, Running, Settled, Handed,
     StoreField, Processors, Bodies, Once, Flags, NoSharedStore, Twice, Owns, Current, Deferred
<1>2. CASE Next
  <2>1. PICK r \in Tasks : TaskStep(r)
    BY Zenon, <1>2 DEF Next
  <2>2. CASE \E phase \in {"request", "response"} :
               CallRefused(r, phase) \/ CallCold(r, phase)
                 \/ \E s \in Slots : CallWithSlot(r, phase, s)
    BY Zenon, <2>2, CallInv
  <2>3. CASE CallFails(r) \/ CallCompletes(r) \/ CallDefers(r) \/ DeferFails(r) \/ Cleanup(r)
    BY Zenon, <2>3, EndInv, DeferInv, DeferFailsInv, CleanupInv
  <2>4. CASE Deliver(r) \/ BodyBytes(r) \/ VdpFini(r) \/ TaskFini(r)
    BY Zenon, <2>4, DeliverInv, BodyInv, FiniInv, EmptyFiniInv
  <2> QED
    BY Zenon, <2>1, <2>2, <2>3, <2>4 DEF TaskStep
<1> QED
  BY Zenon, <1>1, <1>2

\* The invariant holds of every reachable state.
THEOREM Invariance == Spec => []IInv
BY InitInv, NextInv, PTL DEF Spec

\* Two executions never own one pooled store, unless some store was given back
\* once too often.
THEOREM Unshared == Spec => []NoSharedStore
<1>1. IInv => NoSharedStore
  BY Zenon DEF IInv
<1> QED
  BY <1>1, Invariance, PTL

\* No store is given back twice but those of executions in Twice, and a finished
\* task has given back all of its stores but those that were replaced.
THEOREM Disposal == Spec => []DisposedOnce
<1>1. IInv => DisposedOnce
  <2> SUFFICES ASSUME IInv, NEW e \in Execs, pc[e[1]] = "end", store[e] # "none", ~Replaced(e)
               PROVE  disposed[e] > 0
    BY Zenon DEF IInv, Once, DisposedOnce
  <2>1. CASE e \notin deferred
    BY Zenon, <2>1 DEF IInv, Settled
  <2>2. CASE e \in deferred
    <3>1. task[e[1]] = e[2] /\ e[1] \in Tasks /\ e[2] # 0 /\ Deferred(e[1]) = e
      BY <2>2, Pairs DEF Replaced, Deferred
    <3> QED
      BY Zenon, <3>1 DEF IInv, StoreField
  <2> QED
    BY Zenon, <2>1, <2>2
<1> QED
  BY <1>1, Invariance, PTL

\* Guest code runs only in a store its execution owns, and bodies are seen by the
\* last execution that was handed over.
THEOREM OwnStore == Spec => []RunsInOwnStore
<1>1. IInv => RunsInOwnStore
  <2> SUFFICES ASSUME IInv PROVE RunsInOwnStore
    OBVIOUS
  <2>1. \A r \in Tasks : pc[r] = "run" => Owns(Current(r))
    BY Zenon DEF IInv, Running, Owns
  <2>2. \A r \in Tasks : pc[r] = "deliver" /\ vdp[r] > 0 =>
          Owns(Deferred(r)) \/ Deferred(r) \in doubled
    BY Zenon DEF IInv, Processors, StoreField, Handed, Owns
  <2>3. \A e \in bodyRan : e[1] \in Tasks /\ Deferred(e[1]) = e
    BY Pairs DEF IInv, TypeOK, Bodies, Deferred
  <2> QED
    BY Zenon, <2>1, <2>2, <2>3 DEF RunsInOwnStore
<1> QED
  BY <1>1, Invariance, PTL

-----------------------------------------------------------------------------
\* Handed-over executions whose success has not been counted.
Pending == {e \in deferred : Replaced(e) \/ live[e[1]]}

Books == IsFiniteSet(deferred) /\ (doubled = {} => total = ok + error + Cardinality(Pending))

\* The set of pending executions is finite.
LEMMA PendingFinite ==
  ASSUME IsFiniteSet(deferred)
  PROVE  IsFiniteSet(Pending) /\ Cardinality(Pending) \in Nat
BY ZenonT(40), FS_Subset, FS_CardinalityType DEF Pending

\* A hand-over makes one more execution pending.
LEMMA DeferBooks ==
  ASSUME IInv, Books, NEW r \in Tasks, CallDefers(r)
  PROVE  Books'
<1> USE LifecycleAssumption, Pairs
<1> DEFINE e0 == Current(r)
<1>1. /\ pc[r] = "run" /\ deferred' = deferred \cup {e0}
      /\ task' = [task EXCEPT ![r] = n[r]] /\ live' = [live EXCEPT ![r] = TRUE]
      /\ total' = total + 1 /\ UNCHANGED <<doubled, ok, error>>
  BY ZenonT(40) DEF CallDefers
<1>2. /\ e0 \in Execs /\ e0[1] = r /\ e0[2] = n[r] /\ e0 \notin deferred
      /\ task'[r] = n[r] /\ live'[r]
      /\ \A q \in Tasks : q # r => task'[q] = task[q] /\ live'[q] = live[q]
      /\ \A e \in deferred : e \in Execs
  BY <1>1 DEF IInv, TypeOK, Running, Current
<1>3. \A e \in deferred : e[1] = r => e \in Pending /\ e \in Pending'
  <2> SUFFICES ASSUME NEW e \in deferred, e[1] = r
               PROVE  live[r] /\ e[2] # n[r]
    BY Zenon, <1>1, <1>2 DEF Pending, Replaced
  <2>1. live[r]
    BY Zenon, <1>1 DEF IInv, Handed, StoreField
  <2>2. e # e0 /\ e = <<e[1], e[2]>>
    BY Zenon, <1>2
  <2> QED
    BY Zenon, <2>1, <2>2 DEF Current
<1>4. \A e \in deferred : e[1] # r => (e \in Pending' <=> e \in Pending)
  BY <1>1, <1>2 DEF Pending, Replaced
<1>5. e0 \in Pending'
  BY Zenon, <1>1, <1>2 DEF Pending
<1>6. Pending' = Pending \cup {e0}
  BY Zenon, <1>1, <1>3, <1>4, <1>5 DEF Pending
<1>7. e0 \notin Pending
  BY Zenon, <1>2 DEF Pending
<1>8. IsFiniteSet(deferred') /\ IsFiniteSet(Pending) /\ Cardinality(Pending) \in Nat
  BY Zenon, <1>1, PendingFinite, FS_AddElement DEF Books
<1>9. Cardinality(Pending') = Cardinality(Pending) + 1
  BY Zenon, <1>6, <1>7, <1>8, FS_AddElement
<1> QED
  BY <1>1, <1>8, <1>9 DEF Books, IInv, TypeOK

\* A delivery processor that is the only one makes one execution less pending.
LEMMA FiniBooks ==
  ASSUME IInv, Books, NEW r \in Tasks, VdpFini(r)
  PROVE  Books'
<1> USE LifecycleAssumption, Pairs
<1> DEFINE e0 == Deferred(r)
<1>1. /\ vdp[r] > 0 /\ ok' = ok + 1 /\ live' = [live EXCEPT ![r] = FALSE]
      /\ UNCHANGED <<task, deferred, doubled, total, error>>
  BY Zenon DEF VdpFini, historyVars
<1>2. CASE doubled # {}
  BY ZenonT(40), <1>1, <1>2 DEF Books
<1>3. CASE doubled = {}
  <2>1. /\ live[r] /\ e0 \in deferred /\ e0[1] = r /\ e0[2] = task[r]
        /\ ~live'[r] /\ \A q \in Tasks : q # r => live'[q] = live[q]
        /\ \A e \in deferred : e \in Execs
    BY <1>1, <1>3 DEF IInv, TypeOK, Processors, Handed, Deferred
  <2>2. \A e \in deferred : e[1] = r => e \in Pending /\ (e \in Pending' <=> e # e0)
    <3> SUFFICES ASSUME NEW e \in deferred, e[1] = r
                 PROVE  Replaced(e) <=> e # e0
      BY Zenon, <1>1, <2>1 DEF Pending, Replaced
    <3>1. e = <<e[1], e[2]>>
      BY Zenon, <2>1
    <3> QED
      BY Zenon, <3>1, <2>1 DEF Replaced, Deferred
  <2>3. \A e \in deferred : e[1] # r => (e \in Pending' <=> e \in Pending)
    BY ZenonT(40), <1>1, <2>1 DEF Pending, Replaced
  <2>4. Pending' = Pending \ {e0} /\ e0 \in Pending
    BY ZenonT(40), <1>1, <2>1, <2>2, <2>3 DEF Pending
  <2>5. IsFiniteSet(Pending) /\ Cardinality(Pending) \in Nat
    BY Zenon, PendingFinite DEF Books
  <2>6. Cardinality(Pending') = Cardinality(Pending) - 1
    BY Zenon, <2>4, <2>5, FS_RemoveElement
  <2> QED
    BY SMTT(30), <1>1, <1>3, <2>5, <2>6 DEF Books, IInv, TypeOK
<1> QED
  BY Zenon, <1>2, <1>3

\* Every step keeps the books.
LEMMA NextBooks == IInv /\ Books /\ [Next]_vars => Books'
<1> SUFFICES ASSUME IInv, Books, [Next]_vars PROVE Books'
  OBVIOUS
<1>1. ASSUME UNCHANGED <<deferred, task, live, total, ok, error>>, doubled \subseteq doubled'
      PROVE  Books'
  BY Zenon, <1>1 DEF Books, Pending, Replaced
<1>2. CASE UNCHANGED vars
  BY Zenon, <1>1, <1>2 DEF vars, historyVars, statVars
<1>3. ASSUME NEW r \in Tasks, Cleanup(r) PROVE Books'
  <2>1. UNCHANGED <<deferred, doubled, task, live>>
    BY Zenon, <1>3 DEF Cleanup, historyVars
  <2>2. Pending' = Pending /\ Cardinality(Pending) \in Nat
    BY Zenon, <2>1, PendingFinite DEF Books, Pending, Replaced
  <2>3. total' = total + 1 /\ ok' + error' = ok + error + 1
    BY <1>3 DEF Cleanup, IInv, TypeOK
  <2>4. ok \in Nat /\ error \in Nat /\ total \in Nat /\ ok' \in Nat /\ error' \in Nat
    BY <1>3 DEF Cleanup, IInv, TypeOK
  <2>5. ASSUME doubled = {} PROVE total' = ok' + error' + Cardinality(Pending)
    <3>1. total = (ok + error) + Cardinality(Pending)
      BY Zenon, <2>5 DEF Books
    <3>2. total' = ((ok + error) + 1) + Cardinality(Pending)
      BY <3>1, <2>2, <2>3, <2>4
    <3> QED
      BY Zenon, <3>2, <2>3
  <2>6. Cardinality(Pending') = Cardinality(Pending)
    BY Zenon, <2>2
  <2> QED
    BY Zenon, <2>1, <2>5, <2>6 DEF Books
<1>4. ASSUME NEW r \in Tasks, TaskStep(r), ~Cleanup(r), ~CallDefers(r), ~VdpFini(r)
      PROVE  UNCHANGED <<deferred, task, live, total, ok, error>> /\ doubled \subseteq doubled'
  BY Zenon, <1>4 DEF TaskStep, CallRefused, CallCold, CallWithSlot, CallFails, CallCompletes,
     DeferFails, Deliver, BodyBytes, TaskFini, historyVars, statVars
<1> QED
  BY Zenon, <1>1, <1>2, <1>3, <1>4, DeferBooks, FiniBooks DEF Next

\* calls_total exceeds the calls counted as ended by the executions handed over
\* whose end was not counted, unless two processors finished one.
THEOREM Statistics == Spec => []StatsConsistent
<1>1. Init => Books
  <2> SUFFICES ASSUME Init PROVE Books
    OBVIOUS
  <2>1. Pending = {} /\ deferred = {}
    BY Zenon DEF Init, Pending
  <2> QED
    BY <2>1, FS_EmptySet DEF Init, Books
<1>2. Books => StatsConsistent
  BY Zenon DEF Books, StatsConsistent, Pending
<1> QED
  BY <1>1, <1>2, NextBooks, Invariance, PTL DEF Spec

=============================================================================
