------------------------------ MODULE StorePool ------------------------------
(***************************************************************************)
(* The lock-free pool of pre-instantiated Wasmtime stores of one module    *)
(* (src/store_pool.c), as worker threads use it: acquire scans the slots   *)
(* from a rotating hint and claims one with a compare-and-swap, restores   *)
(* its linear memory from the warm snapshot and hands it out; release      *)
(* detaches the request's context and clears the claim.  One action is one *)
(* atomic access to shared memory.                                         *)
(*                                                                         *)
(* `seq' is incremented by the code and read by nothing; it is left out.   *)
(***************************************************************************)
EXTENDS Integers, FiniteSets

CONSTANTS
  Threads,        \* Varnish worker threads that execute the module
  NoThread,       \* the NULL data pointer of a store
  Capacity,       \* pool->capacity
  Failed,         \* slots whose pool_init_slot failed (slots[i] = NULL)
  HintModulus,    \* scan_hint is a uint64_t: 2^64 in the code
  InitPages,      \* memory pages of a new instance of the module
  SnapshotPages,  \* memory pages of the warm snapshot
  MaxPages,       \* pages the memory limiter lets an instance grow to
  MaxAcquires     \* bound on the calls of acquire that are explored

Slots == 0 .. Capacity - 1
NoSlot == Capacity

Pages == 1 .. MaxPages
SnapshotRegion == 1 .. SnapshotPages

\* The clamp of vwasm_store_pool_new keeps the capacity positive, and the
\* initialisation that is snapshotted can grow memory but not shrink it.
ASSUME PoolAssumption ==
  /\ Capacity \in Nat \ {0}
  /\ HintModulus \in Nat \ {0}
  /\ Failed \subseteq Slots
  /\ NoThread \notin Threads
  /\ InitPages \in Nat \ {0}
  /\ SnapshotPages \in Nat
  /\ MaxPages \in Nat
  /\ InitPages <= SnapshotPages
  /\ SnapshotPages <= MaxPages
  /\ MaxAcquires \in Nat

VARIABLES
  scan_hint,  \* the shared rotating start of the scan
  in_use,     \* [Slots -> {0, 1}], the claim flags
  data,       \* [Slots -> Threads \cup {NoThread}], the store's data pointer
  size,       \* [Slots -> Pages], current size of the linear memory
  dirty,      \* [Slots -> SUBSET Pages], pages that differ from post-init state
  pc,         \* where each thread is
  start,      \* local `start' of each thread's acquire
  i,          \* local `i' of each thread's acquire
  ps,         \* the slot a thread has claimed
  acquires, releases, resets, fallbacks    \* statistics

poolVars == <<scan_hint, in_use, data, size, dirty>>
threadVars == <<pc, start, i, ps>>
statVars == <<acquires, releases, resets, fallbacks>>
vars == <<poolVars, threadVars, statVars>>

(***************************************************************************)
(* A thread is between these points of its code:                           *)
(*   "idle"     outside the pool                                           *)
(*   "scan"     in the loop of acquire, about to try slot ScanIndex        *)
(*   "claimed"  its compare-and-swap succeeded, the slot is not yet looked *)
(*              at                                                         *)
(*   "reset"    memory restored, statistics not yet counted                *)
(*   "held"     acquire returned the slot                                  *)
(*   "run"      the store's data pointer is its context; guest code runs   *)
(*   "cleared"  release set the data pointer to NULL                       *)
(*   "freed"    release cleared the claim flag, not yet counted            *)
(*   "cold"     acquire returned NULL; a fresh store is used               *)
(***************************************************************************)
Points == {"idle", "scan", "claimed", "reset", "held", "run", "cleared",
           "freed", "cold"}

\* The points at which a thread has the claim of slot ps.
Claiming == {"claimed", "reset", "held", "run", "cleared"}

\* The points at which the slot has been handed to the thread.
Holding == {"reset", "held", "run", "cleared"}

-----------------------------------------------------------------------------
(* An operator named Faulty... is a mutated form of the definition after it: *)
(* a plausible slip in the code, which one of the properties must notice.    *)

\* The size test of the restore is off by one.
FaultyRestored(pages, differing) ==
  IF pages <= SnapshotPages THEN differing ELSE differing \ SnapshotRegion

\* vwasm_warm_instance_restore: nothing is copied when the memory is smaller
\* than the snapshot, and nothing beyond the snapshot is touched.
Restored(pages, differing) ==
  IF pages < SnapshotPages THEN differing ELSE differing \ SnapshotRegion

\* vwasm_store_pool_new: pool_init_slot gives every slot InitPages pages that
\* hold the module's initial data, then the snapshot is restored into them.
Init ==
  /\ scan_hint = 0
  /\ in_use = [s \in Slots |-> 0]
  /\ data = [s \in Slots |-> NoThread]
  /\ size = [s \in Slots |-> InitPages]
  /\ dirty = [s \in Slots |-> Restored(InitPages, 1 .. InitPages)]
  /\ pc = [t \in Threads |-> "idle"]
  /\ start = [t \in Threads |-> 0]
  /\ i = [t \in Threads |-> 0]
  /\ ps = [t \in Threads |-> NoSlot]
  /\ acquires = 0 /\ releases = 0 /\ resets = 0 /\ fallbacks = 0

-----------------------------------------------------------------------------
(* vwasm_store_pool_acquire *)

\* start = __sync_fetch_and_add(&pi->scan_hint, 1)
FetchScanHint(t) ==
  /\ pc[t] = "idle"
  /\ acquires + fallbacks < MaxAcquires
  /\ start' = [start EXCEPT ![t] = scan_hint]
  /\ scan_hint' = (scan_hint + 1) % HintModulus
  /\ i' = [i EXCEPT ![t] = 0]
  /\ pc' = [pc EXCEPT ![t] = "scan"]
  /\ UNCHANGED <<in_use, data, size, dirty, ps, statVars>>

\* idx = (start + i) % capacity, the sum taken in uint64_t
ScanIndex(t) == ((start[t] + i[t]) % HintModulus) % Capacity

\* The flag is stored without being compared.
FaultyClaimSlot(t) ==
  /\ pc[t] = "scan"
  /\ i[t] < Capacity
  /\ in_use' = [in_use EXCEPT ![ScanIndex(t)] = 1]
  /\ ps' = [ps EXCEPT ![t] = ScanIndex(t)]
  /\ pc' = [pc EXCEPT ![t] = "claimed"]
  /\ UNCHANGED <<scan_hint, data, size, dirty, start, i, statVars>>

\* The compare-and-swap of in_use from 0 to 1 succeeds.
ClaimSlot(t) ==
  /\ pc[t] = "scan"
  /\ i[t] < Capacity
  /\ in_use[ScanIndex(t)] = 0
  /\ in_use' = [in_use EXCEPT ![ScanIndex(t)] = 1]
  /\ ps' = [ps EXCEPT ![t] = ScanIndex(t)]
  /\ pc' = [pc EXCEPT ![t] = "claimed"]
  /\ UNCHANGED <<scan_hint, data, size, dirty, start, i, statVars>>

\* The loop spins on the busy slot.
FaultySpinOnBusySlot(t) ==
  /\ pc[t] = "scan"
  /\ i[t] < Capacity
  /\ in_use[ScanIndex(t)] # 0
  /\ UNCHANGED vars

\* The compare-and-swap fails: the next slot is tried.
SkipBusySlot(t) ==
  /\ pc[t] = "scan"
  /\ i[t] < Capacity
  /\ in_use[ScanIndex(t)] # 0
  /\ i' = [i EXCEPT ![t] = @ + 1]
  /\ UNCHANGED <<poolVars, pc, start, ps, statVars>>

\* The slot was never initialised: the claim is dropped and the scan goes on.
DropFailedSlot(t) ==
  /\ pc[t] = "claimed"
  /\ ps[t] \in Failed
  /\ in_use' = [in_use EXCEPT ![ps[t]] = 0]
  /\ ps' = [ps EXCEPT ![t] = NoSlot]
  /\ i' = [i EXCEPT ![t] = @ + 1]
  /\ pc' = [pc EXCEPT ![t] = "scan"]
  /\ UNCHANGED <<scan_hint, data, size, dirty, start, statVars>>

\* The test for an uninitialised slot is missing.
FaultyResetMemory(t) ==
  /\ pc[t] = "claimed"
  /\ dirty' = [dirty EXCEPT ![ps[t]] = Restored(size[ps[t]], @)]
  /\ resets' = resets + 1
  /\ pc' = [pc EXCEPT ![t] = "reset"]
  /\ UNCHANGED <<scan_hint, in_use, data, size, start, i, ps, acquires,
                 releases, fallbacks>>

\* The warm snapshot is restored, the result of the restore is not looked at,
\* and the reset is counted.  A pool exists only for a valid warm instance,
\* whose module exports a memory, so the code's two conditions hold.
ResetMemory(t) ==
  /\ pc[t] = "claimed"
  /\ ps[t] \notin Failed
  /\ dirty' = [dirty EXCEPT ![ps[t]] = Restored(size[ps[t]], @)]
  /\ resets' = resets + 1
  /\ pc' = [pc EXCEPT ![t] = "reset"]
  /\ UNCHANGED <<scan_hint, in_use, data, size, start, i, ps, acquires,
                 releases, fallbacks>>

\* The epoch deadline is set, the acquire is counted and the slot returned.
ReturnSlot(t) ==
  /\ pc[t] = "reset"
  /\ acquires' = acquires + 1
  /\ pc' = [pc EXCEPT ![t] = "held"]
  /\ UNCHANGED <<poolVars, start, i, ps, releases, resets, fallbacks>>

\* The loop ended without a claim: NULL is returned.
FallBack(t) ==
  /\ pc[t] = "scan"
  /\ i[t] = Capacity
  /\ fallbacks' = fallbacks + 1
  /\ pc' = [pc EXCEPT ![t] = "cold"]
  /\ UNCHANGED <<poolVars, start, i, ps, acquires, releases, resets>>

-----------------------------------------------------------------------------
(* What proxy_wasm_execute does with the result *)

\* wasmtime_context_set_data(context, &proxy_ctx) on the fast path
AttachContext(t) ==
  /\ pc[t] = "held"
  /\ data' = [data EXCEPT ![ps[t]] = t]
  /\ pc' = [pc EXCEPT ![t] = "run"]
  /\ UNCHANGED <<scan_hint, in_use, size, dirty, start, i, ps, statVars>>

\* Guest code writes to a page of its memory.
GuestWrite(t) ==
  /\ pc[t] = "run"
  /\ \E p \in 1 .. size[ps[t]] : dirty' = [dirty EXCEPT ![ps[t]] = @ \cup {p}]
  /\ UNCHANGED <<scan_hint, in_use, data, size, threadVars, statVars>>

\* Guest code grows its memory by a page.
GuestGrow(t) ==
  /\ pc[t] = "run"
  /\ size[ps[t]] < MaxPages
  /\ size' = [size EXCEPT ![ps[t]] = @ + 1]
  /\ UNCHANGED <<scan_hint, in_use, data, dirty, threadVars, statVars>>

\* The slow path: a fresh store is created, used and deleted.
ColdExecute(t) ==
  /\ pc[t] = "cold"
  /\ pc' = [pc EXCEPT ![t] = "idle"]
  /\ UNCHANGED <<poolVars, start, i, ps, statVars>>

-----------------------------------------------------------------------------
(* vwasm_store_pool_release *)

\* The data pointer is left as it is.
FaultyDetachContext(t) ==
  /\ pc[t] = "run"
  /\ pc' = [pc EXCEPT ![t] = "cleared"]
  /\ UNCHANGED <<poolVars, start, i, ps, statVars>>

\* wasmtime_context_set_data(ps->context, NULL)
DetachContext(t) ==
  /\ pc[t] = "run"
  /\ data' = [data EXCEPT ![ps[t]] = NoThread]
  /\ pc' = [pc EXCEPT ![t] = "cleared"]
  /\ UNCHANGED <<scan_hint, in_use, size, dirty, start, i, ps, statVars>>

\* __sync_lock_release(&pi->slot_states[idx].in_use)
FreeSlot(t) ==
  /\ pc[t] = "cleared"
  /\ in_use' = [in_use EXCEPT ![ps[t]] = 0]
  /\ ps' = [ps EXCEPT ![t] = NoSlot]
  /\ pc' = [pc EXCEPT ![t] = "freed"]
  /\ UNCHANGED <<scan_hint, data, size, dirty, start, i, statVars>>

\* __sync_fetch_and_add(&pool->releases, 1)
CountRelease(t) ==
  /\ pc[t] = "freed"
  /\ releases' = releases + 1
  /\ pc' = [pc EXCEPT ![t] = "idle"]
  /\ UNCHANGED <<poolVars, start, i, ps, acquires, resets, fallbacks>>

-----------------------------------------------------------------------------
\* The steps of acquire and release: host code that never waits.
HostStep(t) ==
  \/ ClaimSlot(t) \/ SkipBusySlot(t) \/ DropFailedSlot(t)
  \/ ResetMemory(t) \/ ReturnSlot(t) \/ FallBack(t)
  \/ FreeSlot(t) \/ CountRelease(t)

\* The steps that begin a call or belong to the request that uses the store.
RequestStep(t) ==
  \/ FetchScanHint(t) \/ AttachContext(t) \/ GuestWrite(t) \/ GuestGrow(t)
  \/ ColdExecute(t) \/ DetachContext(t)

Next == \E t \in Threads : HostStep(t) \/ RequestStep(t)

Spec == Init /\ [][Next]_vars

\* The operating system keeps running a thread that is inside acquire or
\* release; nothing is assumed of the guest code or of the requests.
FairSpec == Spec /\ \A t \in Threads : WF_vars(HostStep(t))

-----------------------------------------------------------------------------
(* Properties *)

\* Every variable keeps its type; the indices of a scan stay in range.
TypeOK ==
  /\ scan_hint \in 0 .. HintModulus - 1
  /\ in_use \in [Slots -> {0, 1}]
  /\ data \in [Slots -> Threads \cup {NoThread}]
  /\ size \in [Slots -> InitPages .. MaxPages]
  /\ dirty \in [Slots -> SUBSET Pages]
  /\ pc \in [Threads -> Points]
  /\ start \in [Threads -> 0 .. HintModulus - 1]
  /\ i \in [Threads -> 0 .. Capacity]
  /\ ps \in [Threads -> Slots \cup {NoSlot}]
  /\ acquires \in Nat /\ releases \in Nat
  /\ resets \in Nat /\ fallbacks \in Nat

\* The compare-and-swap of acquire and the plain release of the flag never let
\* two threads have the same store at once, whatever the interleaving of their
\* scans with failed slots, restores and releases.
SlotExclusive ==
  \A t, u \in Threads :
    t # u /\ pc[t] \in Holding /\ pc[u] \in Holding => ps[t] # ps[u]

\* A flag is set exactly while some thread has the claim: no slot is lost
\* to the pool and none is free while a thread still uses it.
FlagMatchesClaim ==
  \A s \in Slots :
    in_use[s] = 1 <=> \E t \in Threads : pc[t] \in Claiming /\ ps[t] = s

\* A store points at a request's proxy_ctx, which lives on the request's stack,
\* exactly while that request runs it: release detaches before it frees, so
\* its NULL never lands on the pointer of the slot's next holder.
ContextPointer ==
  \A s \in Slots, t \in Threads :
    data[s] = t <=> pc[t] = "run" /\ ps[t] = s

\* A slot that pool_init_slot could not build is claimed only in passing.
FailedNeverHeld ==
  \A t \in Threads : pc[t] \in Holding => ps[t] \notin Failed

\* When acquire returns a store, the part of its memory that the snapshot covers
\* is the post-init snapshot again, whatever earlier holders wrote.
SnapshotRegionRestored ==
  \A t \in Threads :
    pc[t] = "held" => dirty[ps[t]] \cap SnapshotRegion = {}

\* The thread a usable slot is checked out to, from the reset that follows its
\* claim to the release of its flag.
Owner(s) ==
  IF \E t \in Threads : pc[t] \in Holding /\ ps[t] = s
  THEN CHOOSE t \in Threads : pc[t] \in Holding /\ ps[t] = s
  ELSE NoThread

Pool == INSTANCE SlotPool WITH
  Usable <- Slots \ Failed,
  owner <- [s \in Slots \ Failed |-> Owner(s)],
  image <- [s \in Slots \ Failed |->
              IF dirty[s] \cap SnapshotRegion = {} THEN "snapshot" ELSE "used"]

\* The lock-free pool implements the exclusive checkout SlotPool describes.
ImplementsSlotPool == Pool!Spec

\* Acquire never blocks: a scan ends with a store or with NULL although other
\* threads may hold their stores for ever.
AcquireTerminates ==
  \A t \in Threads : pc[t] = "scan" ~> pc[t] \in {"held", "cold"}

=============================================================================
