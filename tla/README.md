# A TLA+ model of vmod-wasm

vmod-wasm runs WebAssembly modules inside Varnish. VCL calls a module on a
request's or a response's headers; the module sees the exchange through the
proxy-wasm host functions, may make HTTP callouts, share data with other
executions, and ask to see the body. Everything runs in Varnish worker threads,
many at once, on state they share: a lock-free pool of Wasmtime stores, a pool
of upstream connections with circuit breakers and a DNS cache, a key-value
store, queues and metrics.

This directory models that shared state, the control flow around it, and the
data of a stream that guests rewrite. TLC checks the modules on small instances;
TLAPS proves every safety property the runs check, but for three of the header
maps, for every value of the constants.
Paths such as `src/http_pool.c` are relative to the repository.

## Inventory

| part | code | state | operations | module |
|---|---|---|---|---|
| store pool, warm instances | `store_pool.c` | claim flags, scan hint, store data pointers, linear memories, counters | acquire, restore, release | `StorePool`, abstract `SlotPool` |
| proxy-wasm execution | `wasm_engine.c:941-1454`, VCL entry points in `vmod_wasm.c` | action, local response, tree of callout responses, result | start, header function, callouts, callbacks, body/log/done/delete, chains | `ProxyWasmCall` |
| raw module calls | `wasm_engine.c:711-817`, `vmod_wasm.c:214-247` | none | call an exported function | `ProxyWasmCall` |
| ownership of stores over a task | `wasm_engine.c`, `vdp_wasm.c` | store of each execution, PRIV_TASK, delivery processors, call statistics | call, defer, deliver, body, the two `fini`s | `ExecutionLifecycle` |
| circuit breaker | `http_pool.c:478-621`, `proxy_wasm_http.c` | breaker table, state, failure count, time of last failure | allow, success, failure | `CircuitBreaker` |
| HTTP connection pool | `http_pool.c:627-851` | slots with descriptor, `in_use`, host, time | acquire (reuse, connect, place, evict, overflow), release | `HttpPool` |
| shared data | `proxy_wasm_shared.c:35-196` | hash chains, CAS counters | get, set | `SharedData` |
| shared queues | `proxy_wasm_shared.c:202-434` | linked lists, depth | register, resolve, enqueue, dequeue | `SharedQueue`, abstract `MessageQueue` |
| DNS cache | `http_pool.c:390-472` | entries with time | resolve | `DnsCache` |
| guest metrics | `proxy_wasm.c:74-89, 1090-1297`, `vmod_wasm.c:568-644` | metric table and its lock | create, define, increment, record, get, list | `Metrics` |
| engine, module table, VCL events | `wasm_engine.c:224-353, 609-709, 1551-1669`, `vmod_wasm.c:39-212` | registry, engine, epoch thread, modules, pools | LOAD and DISCARD events, load, the pool sizes, destroy | `EngineLifecycle` |
| tick timers | `wasm_engine.c:101-222, 1745-1792` | table of timers, one thread per module | set period, tick, stop | `EngineLifecycle` |
| header and trailer maps, request line | `proxy_wasm_headers.c`, `proxy_wasm_properties.c:169-276` | header tables, trailers, callout answer | get, add, replace, remove, pairs, size | `HeaderMap`, composed in `StreamData` |
| bodies and their delivery | `proxy_wasm.c:313-355, 505-651`, `vdp_wasm.c:113-205` | chunk, rewrite | set bytes, bytes, flush | `BodyBuffer`, composed in `StreamData` |
| reading properties, response cache, host functions of raw modules, WASI stubs | see PROJECT.json | none of their own, or no caller | | not modelled |

The parts interact as follows. A VCL call runs `proxy_wasm_execute`
(`ProxyWasmCall`), which takes a store from the pool (`StorePool`) and gives it
back or hands it to the delivery processor (`ExecutionLifecycle`). A callout
made by the guest asks the breaker (`CircuitBreaker`), takes a connection
(`HttpPool`), resolving its host if it has to connect (`DnsCache`), exchanges
one request and reports to the breaker. Guests of all executions meet in
`SharedData`, `SharedQueue` and `Metrics`; what a guest does to its own stream is
`StreamData`, which composes `HeaderMap` and `BodyBuffer` with the order of the
callbacks. `ExecutionLifecycle` uses
the atomic pool that `StorePool` is shown to implement, with the difference that
its release, like the code's, clears whatever slot it is given. All of it belongs
to the engine of a VCL, whose life and whose own threads are `EngineLifecycle`.

Hard behaviours, at the lines where they bite, are the hazards of PROJECT.json:
scans that race claims and releases, slots that failed to initialise, memory
that has grown, callbacks that add to the tree being walked, an execution with
four places that may give its store back, unlocked writes in the release of a
connection, late reports to a breaker, stamps taken before a slow answer, a lock
that is published before it is initialised, a map that is wiped before it is
refilled, one rewrite buffer for every chunk, counters that wrap, byte strings
compared as C strings, timers set without a lock, and a teardown that joins threads whose
guest code need not return.

## Modules

`MC...` modules only name the model values of an instance. Operators called
`Faulty...` are mutated forms of the definition that follows them; no
specification uses them. PROJECT.json maps each definition to its lines.

**StorePool.** One step per atomic access: fetch of the scan hint, each
compare-and-swap, the restore, each counter, the clearing of the data pointer
and of the flag. `in_use`, `data`, `size`, `dirty` are a slot's flag, the
store's context pointer, its memory size and the pages that differ from the
post-init state. Guest code is `GuestWrite` and `GuestGrow`. The hint wraps at
`HintModulus` (2^64 in the code). Creation of the pool is `Init`: slots in
`Failed` are those `pool_init_slot` could not build.

**SlotPool.** What callers rely on: a slot has one owner, is handed out with the
snapshot's image, and is used and returned by its owner.

**ProxyWasmCall.** One VCL call: an exported function (`RawCall`), a single
module or a chain, which may name no module (`EmptyChain`), in either phase and
fail mode, with some limit on callouts, chosen in `Init`. `Refused` are the early
returns of the VCL functions. `calls`, `ent`, `tent` are the tree of responses and
the two cursors of `VRBT_FOREACH_SAFE`; `begun` is the last token drawn before the
callback that runs, or ran last. The guest may make callouts and send local
responses of any status at any point of the header function and of a callback,
return any action the code tells apart, or trap. A limit of 0 is none, as in the
code (`proxy_wasm_http.c:516`); `MaxAttempts` bounds the callouts explored then.
The body, log, done and delete callbacks are `RunTail`; deferral to the delivery
processor is `DeferBody`.

**ExecutionLifecycle.** Tasks, each in its own thread, make calls and then
deliver. An execution is a pair of task and call number; `store` and `disposed`
record what it got and how often that was given back; `task`/`live` are the
PRIV_TASK structure and its `store` field. A delivery starts as many processors
as `resp.filters` names `wasm_body`. `deferred`, `bodyRan`, `failed` and
`doubled` (the task went to two processors) are history.

**CircuitBreaker.** `Admit`, `HalfOpen`, `Reject` are the outcomes of `cb_allow`;
`Succeed`, `Fail`, `ReportRejection` the reports of `proxy_http_call`, which
counts a rejected callout as a failure. `cb_lock` makes each operation one
step. `probe` and `attempted` are history. The clock it reads, and the workers
it shares with the DNS cache, are `PoolClock`.

**HttpPool.** What acquire does under `pool->lock` is one step; connecting is
outside it; each write of release, which holds no lock, is a step. A socket is
its descriptor, which the kernel reuses. `stolen` is history: a slot was placed
into while its previous release was not over. Age, served requests and liveness
of an idle connection are one nondeterministic choice.

**DnsCache.** The lookup and the store of `vwasm_http_pool_resolve` are one step
each under `dns_lock`; the clock is read before, and `getaddrinfo` answers at any
later time. An address is the host asked for, the time of the answer and the
port, which is all the properties tell apart.

**Metrics.** What happens under the read-write lock is split where the table is
read and written, so that the lock has to do its work. The getter's unlocked
check, the allocation that publishes the pointer, and the initialisation of the
lock are steps of their own. A thread that is in the lock at that moment is the
data race `raced`, after which the lock keeps nobody out. `due` is what the calls
amount to, computed on integers; `value` is what the code's arithmetic on
`uint64_t` (here modulo `2 * Half`) makes of them.

**HeaderMap.** Fields are pairs of a name and a sequence of words with known
lengths, so that sizes and limits are those of the code and no text is spelled
out. `Cut` is the cut of a line at its first colon. Of a callout's answer, a line
that ends with its colon (`Bare`) differs from one with blanks after it: the
first is too short for the search by name. Names are those of up to 126 bytes:
the code passes their length, plus one, in a `char`
(`proxy_wasm_headers.c:410`, `:553`, `:623`), and what Varnish makes of a longer
one is not modelled. The calls that return pairs,
a size and a value are operators over the state; those that write are actions,
each with the failures that leave something written: a full workspace after an
`http_Unset`, a full table, no memory for a trailer. Calls that fail before they
write change nothing and are not actions.

**BodyBuffer.** A byte knows the callback it belongs to. `SetBytes` rewrites the
body that is visible, `Chunk`, `ChunkDone` and `Flush` are `vdp_wasm_bytes`.

**StreamData.** One response: header callback, answers to callouts, chunks and
flushes, the last callbacks, cleanup. Header tables are reachable until the body
begins, since the delivery processor's context has none. Callbacks at the end of
a call without a deferred body run like the header callback and are not repeated.

**SharedData, SharedQueue, MessageQueue, CStrings.** Clients and executions are
the guests that call. Each operation is one step under its lock; a dequeue unlinks
under the lock and the message is copied and freed later. Keys and names are byte
strings kept as C strings, and looked up by the comparison of `CStrings`: one with
a NUL byte inside is never found under itself, and answers for its part before the
NUL, in front of which it may put a second entry or queue. `CString` gives that
part for every key and name. `SharedData` is one bucket of the hash table, with
the keys that fall into it.

**EngineLifecycle.** Varnish's CLI thread loads, configures, uses and discards a
VCL (`cli` is where it is in the event, in `vcl_init` or in
`vwasm_engine_destroy`), while workers, the epoch thread (`epoch`) and timer
threads (`thread`) run. `call` is a thread's progress in the lines that stop and
start a timer; `vwasm_engine_set_tick_period` takes no lock, so each of its
accesses to the table is a step. A timer's structure and thread share a name;
`freed` and `joined` say what became of them, `home` which engine and module they
serve. Reading a freed structure gives any value; a double free, a null pointer or
a second join sets `fault`. A tick whose guest code does not return (`spin`) ends
by an increment of the epoch only. `trap` is the thread's variable of that name: the
code does not initialise it, and leaves it pointing at a deleted trap after a tick
that trapped, so an instantiation that succeeds may be taken for one that
trapped; the tick is then skipped and something deleted that is no trap
(`misfreed`). `raced` is history: the modules whose timer was set by two threads at
once or by its own thread. `objects` are the
pools, snapshots and HTTP pools allocated, beside the pointers to them. What
Varnish does (`Use`, `Discard` once no request uses the VCL) is external. A LOAD
event for a VCL that is in the registry is modelled (`Link`) and never happens,
since Varnish sends one.

## Runs

Deadlock is not checked where an instance stops at one of its bounds (calls,
messages, clock) or at the end of the work, as a program without new requests
does. `SharedData`, `DnsCache` and `Metrics`, where a call is always possible,
keep the deadlock check.

| run | instance | shows |
|---|---|---|
| `StorePool` | 2 threads, 3 slots of which one failed, hint wrapping at 4, memory of 1 to 2 pages, 4 acquires | exclusion, context pointer, restored memory, `SlotPool` implemented, acquire ends |
| `StorePool_growinit` | as above, snapshot larger than a fresh memory | violation, see below |
| `ProxyWasmCall` | a function, a module or a chain of 0 to 2 modules, limit 2 or none, up to 3 callouts each, statuses -1, 0 and 403 | callbacks in order and at most once, which responses are skipped, the result VCL gets, chains stop at errors, calls with a limit return |
| `ExecutionLifecycle` | 2 tasks, 1 slot, 2 calls each, up to 2 filters | store ownership, disposal, statistics |
| `CircuitBreaker` | 2 workers, 2 upstreams for 1 breaker, threshold 2, time-out 2, counter wrapping at 4, clock to 4 | untracked upstreams served, threshold, probes, legal transitions, half-open ends |
| `HttpPool` | 2 workers, 2 upstreams, 2 slots, 3 descriptors | sockets exclusive, open, accounted for; slots not lost |
| `DnsCache` | 2 workers, 3 hosts for 2 entries, 2 ports, time to live 2, clock to 2 | fresh answers of the right host and port, one entry per host, what is evicted |
| `Metrics` | 3 threads, 3 names for 2 metrics, values of 2 bits | no update lost, ids keep their names, listings of one moment |
| `StreamData` | 2 names and a pseudo-header, tables of 4 fields, 2 trailers, 3 lines of an answer listed of 4, methods of 2 bytes, 2 chunks of up to 2 bytes, 3 host calls | calls agree, writing back is stable, others untouched, rewrites stay with their chunk |
| `SharedData` | 2 clients, 3 keys (one another's continuation after a NUL), counter wrapping at 4, 6 sets | gets see the last set, which entries hide others, no lost update before a wrap or a hidden entry |
| `SharedQueue` | 2 executions, 3 names (one another's continuation after a NUL) for 2 queues of depth 3, 4 addresses, 5 messages | FIFO within the limits, no leak, one queue per name |
| `EngineLifecycle` | 1 VCL, 1 of 2 modules (one with `proxy_on_tick` and `_initialize`, one with neither), 1 worker, 2 timers, 2 settings of a period, 2 calls of `set_store_pool_size` | threads end before the engine, nothing is left of a VCL, one timer per module, events and settings end |

The bounds make the interesting cases happen: three slots do not divide the
hint's modulus, so a scan crosses the wrap; there are fewer slots, breakers,
queues, cache entries, metrics, addresses and descriptors than users, so that
exhaustion, eviction, overflow and reuse occur; counters are long enough to
wrap, and one header value is too long to be written back. Two actors are enough
for every race between an operation and one interfering operation; `Metrics` has
a third for the race around the creation of its table. In `EngineLifecycle` the
two are a worker and a timer or the CLI thread: a second worker is too much for
the check of `JoinsEnd`, which thus is checked with one, while the safety
properties are proved for any number. More actors are covered by the proofs
elsewhere, too. Symmetry is used in `HttpPool`, `DnsCache`, `Metrics`,
`SharedData` and `SharedQueue`, whose actors, descriptors, names of metrics and
addresses are interchangeable and which check no liveness.

Two runs have a constraint. `Metrics` stops at the race, of whose aftermath
nothing is claimed. In `StreamData` the maps and the bodies share no variable, so
a stream whose guest used the maps is followed only up to its first, empty, chunk.

Some properties carry a condition that names a known weakness (`failed`,
`doubled`, `Replaced`, `stolen`, `Hiding`, `raced`, `misfreed`, `remade`, bare
lines, no limit on callouts, a wrapped counter): they say precisely up to where
the code is right. The condition is a state the run does reach.

**Fairness.** `StorePool`: the operating system runs a thread inside acquire or
release on; nothing is assumed of guests. `ProxyWasmCall`: the epoch deadline
interrupts guest code, so the host's next step comes (`Control`); that guest
code makes no further callout is not assumed, so that without a limit a call may
go on for ever, each callback with a deadline of its own (`wasm_engine.c:1210`).
`CircuitBreaker`: socket time-outs and the size limit end an exchange, so an
admitted callout reports. `EngineLifecycle`: the CLI thread, the epoch thread,
timers and workers inside the host function are scheduled, and `vcl_init` is a
finite list of calls; that a tick's guest code returns is not assumed. No strong
fairness is used.

## Disagreements between code and documentation

Checked by a violation run:

- `StorePool_growinit`: if a module's start-up grows its memory, the snapshot is
  larger than the memory of a fresh slot, `vwasm_warm_instance_restore` refuses
  (`store_pool.c:302`), and acquire ignores that, counts a reset and hands out a
  slot whose memory is not the snapshot's; `docs/PRODUCTION.md:401` promises a
  restore on every acquisition. In TLC's trace it is the first acquisition of a
  fresh slot. Once a guest has grown a slot's memory to the snapshot's size, its
  restores succeed.

Met while modelling, and visible in the modules, without a run of their own:

- Rejected callouts are reported as failures and renew the cool-down
  (`proxy_wasm_http.c:727`), so that callouts that keep coming keep a breaker
  open; `docs/ARCHITECTURE.md:164` says it short-circuits for the cool-down
  period. `LegalTransitions` says what is left: no probe comes early.
- A closing release sets `fd` and then `in_use` without the lock
  (`http_pool.c:809`) and may clear `in_use` of the slot's next user (`stolen` in
  `HttpPool`); `docs/ARCHITECTURE.md:207` speaks of internal locks.
- A limit of 0 on callouts is no limit (`proxy_wasm_http.c:516`);
  `wasm_engine.h:154`, `vmod_wasm.vcc:106` and `docs/CONFIGURATION.md:243` say that
  it disables them. `CallReturns` is stated for a limit that is set.
- A call that the VCL function refuses gives -1 in fail-open mode, too
  (`Refused`); `vmod_wasm.vcc:114` says errors give 0. A chain without a module
  is an execution that failed (`EmptyChain`).
- A timer thread tests a `trap` it has not initialised, or that points at a trap
  already deleted (`wasm_engine.c:143`; `misfreed` in `EngineLifecycle`).
- A period set in a timer's own thread (by `proxy_on_tick`, or by the start-up
  callbacks that every tick runs) makes the thread join itself, which fails
  unnoticed (`wasm_engine.c:1767`); its structure is freed and it disappears from
  the table, so that a discard deletes the engine under it (`raced` in
  `EngineLifecycle`); `docs/ARCHITECTURE.md:208` says timers are stopped first.
- `wasm_body` named twice in `resp.filters` starts two processors for one task,
  and both finish it: `vdp_wasm_fini` does not look at `task->store`
  (`doubled` in `ExecutionLifecycle`).
- The metric table is published before its lock is initialised
  (`proxy_wasm.c:80`; `raced` in `Metrics`).
- The request's and the response's body share one rewrite, and a flush passes on
  one made before the first chunk (`vdp_wasm.c:191`).
- `get_header_map_value` does not find pseudo-headers, which the pairs list;
  `docs/COMPATIBILITY.md:150` says the request maps include them. A field that a
  guest names `:path` is listed with an empty key, and dropped when the pairs are
  written back; values of 4096 bytes or more are dropped, too.
- For a callout answer with nothing to list the size is 0 and the pairs are 4
  bytes; a line that ends with its colon is listed and not found; lines beyond the 64th
  are found and not listed.
- A replace that finds the workspace full has removed the old field, and
  `set_header_map_pairs` then leaves the part that it has written
  (`proxy_wasm_headers.c:560` and `:1155`).
- A negative result of a raw function is passed to VCL as it is, which in
  fail-closed mode cannot be told from an error (`RawReturn`).
- PAUSE yields 0 and a chain goes on (`DecideToStop`, `ChainNext`);
  `vmod_wasm.vcc:154` says it short-circuits the chain, and `wasm_engine.h:93` and
  `vmod_wasm.c:375` that the call returns 1.
- A second deferral in a task overwrites the PRIV_TASK pointer and the first
  store is never given back (`Replaced` in `ExecutionLifecycle`); the comment at
  `vdp_wasm.c:48` says its fini handles all cases.
- A second `set_store_pool_size` for a module loses the first pool and snapshot
  (`remade` in `EngineLifecycle`).
- Pages a guest adds with `memory.grow` are not reset for the next holder of the
  slot (`store_pool.h:132` says the memory is restored).
- Acquire may return NULL with slots free behind its scan (`store_pool.h:134`).
- A response stored by the last callback of the walk is not delivered
  (`CHANGELOG.md:146`); `SkippedOnlyAtTheEnd` says it is the only kind skipped.
- A trap in `proxy_on_http_call_response` is ignored also in fail-closed mode
  (`wasm_engine.h:138`).
- Of a response chain only the last deferring module sees the body
  (`vmod_wasm.vcc:165`).
- When VRT_priv_task fails, the store is given back twice (`DeferFails`, then
  `Cleanup`); compare `docs/PRODUCTION.md:198`.
- A half-open breaker admits every callout (`http_pool.c:540` says one), and the
  late report of a rejected callout reopens it (`http_pool.c:612`).
- Acquire may overflow to the heap with idle connections in the pool, since it
  compares with a time taken before connecting (`http_pool.c:774`).
- The CAS counter wraps to 0, which means no condition
  (`proxy_wasm_shared.h:22`). Keys and names with a NUL inside are never found:
  every set of such a key makes an entry, every registration of such a name a
  queue, which answers for the part before the NUL (`proxy_wasm_shared.h:46` and
  `:97`).
- `docs/ARCHITECTURE.md:205` speaks of a lock per hash bucket; there is one for
  the table.

## Proofs

Each proof module EXTENDS one component, or two that share a surrounding, and
proves, for every value of the constants that satisfies the component's named
assumption, that an inductive invariant holds (`IInv`, unless another name is
given) and that the properties of the run follow. The assumptions say that sizes are natural
numbers, positive where the code's are, and that the values that stand for
nothing are not members of the sets they are added to.

**StorePool_proofs** (`TypeCorrect`, `Exclusive`, `FlagsExact`, `ContextSafe`,
`FailedSafe`, `MemoryRestored`, `Implementation`). `SlotExclusive` speaks of
threads that hold a slot, while the compare-and-swap decides at the claim, which
includes threads passing over a failed slot. `IInv` therefore has that no two
threads claim a slot, that a thread has a slot exactly while it claims, and
`FlagMatchesClaim`: a successful compare-and-swap saw flag 0, hence nobody has the
claim, and release clears the flag of its own claim only. `ScanBound` keeps the
scan's index in range. For the memory, `FreshlyRestored` extends the invariant
from `held` back to `reset`. `OwnerIs` and `OwnersKept` relate the CHOOSE in the
refinement mapping to the claims, and `StepImplements` goes through the actions.
`MemoryRestored` and `Implementation` assume further that start-up does not grow
memory (`InitPages = SnapshotPages`); `StorePool_growinit` shows that it is needed.

**ExecutionLifecycle_proofs** (`Unshared`, `Disposal`, `OwnStore`, `Statistics`;
any number of tasks, calls, slots and filters). The invariant follows an
execution through its life: one that is yet to come has nothing, one that runs
owns its store, one that was handed over owns it until a processor or the task's
end, all others are settled; the task's `store` field and the number of
processors say which. A pooled slot that is owned has its flag set, unless an
execution was given back once too often, so a new call cannot get it. For the
statistics, the set of handed-over executions that are not counted yet gains or
loses one element with each step that changes a counter.

**HttpCallout_proofs** is about the two components a callout asks before it has a
connection. For the breaker (`BelowThreshold`, `Probed`, `Untracked`,
`Transitions`) the properties need each other: an upstream without a breaker is
closed, so a half-open breaker is a tracked one and keeps its probe.
`Remembered` (a breaker's time of last failure is no earlier than the last
failed callout) gives the cool-down of `LegalTransitions`. For the DNS cache
(`DnsTypeCorrect`, `Freshness`, `Uniqueness`, `Eviction`; invariant `DnsInv`) an
entry's stamp is no later than the time of its answer, because the worker that
stores it took the stamp before it asked.

**HttpPool_proofs** (`Exclusive`, `Kept`). Until a slot is taken in the middle of
its release, a slot in use has one owner that finds its socket there, and every
open socket is in one live slot or in one worker's hand. A slot whose socket was
closed, and whose descriptor the kernel may have handed out again, is not live.

**Metrics_proofs** (`TypeCorrect`, `Updates`, `Identity`, `Snapshot`). Who is in
the lock is where the code holds it; until the race it keeps writers alone, so
the value an increment read, the place define found and the entries a listing
passed are still right. A lemma shows that the unsigned arithmetic is the sum cut
off at zero, for any width.

**SharedState_proofs**, shared data (`LastSet`, `NoneLost`; any keys, with NUL bytes
or without). The first entry of a C string holds the value set last (`Current`), and
an entry with another of its C string behind it was made by a key with a NUL
(`Added`). While a C string has one entry, what a client has seen of it is no newer
than the entry, and a counter that has not wrapped differs if the value was set
again (`Seen`, `Counted`); with a second entry the counters mean nothing to each
other, which is why `NoLostUpdate` needs `Hiding`.

**SharedState_proofs**, queues (`NameHasOneQueue`, `MessagesAccountedFor`,
`ListsAreQueues`; any number of executions, names, addresses and messages).
`NameHasOneQueue` is an action property: names are only appended, so the newest
match of a name changes only when what was appended matches it. For the rest, the
lists are pointers, and what is on one is defined by following its links from the
head. `QueueInv` says that the links followed as often as the depth says reach
allocated nodes and end at the tail (`ListsEnd`), that no node is on two lists or
twice on one (`ListsApart`), that what a dequeue has unlinked is on none and in
one hand (`HandsApart`), and that everything allocated is somewhere
(`NoneStray`). Appending writes the link of a node that is the end of one list
only, so the others are followed as before; unlinking the head shifts its list by
one. With that, `ListsAreQueues` shows that every step is one of `MessageQueue`
or none. What following the links yields is proved with least counterexamples, the
induction that the prover can do.

**ProxyWasm_proofs**, a call (`CallbacksInOrder`, `NoneSkipped`,
`ResultsAsSpecified`; chains of any length, any limit on callouts or none). The cursors
of the walk are ahead of everything delivered, and behind them nothing is left
undelivered (`Walk`, `AllPassed`): a callback may add responses only with higher
tokens, and at worst the walk has already read the end. For `ResultContract` the
invariant follows how an execution ends: `Returned` ties `ret` and
`*status_code` to the outcome recorded, `Got` the result to the last outcome.

**ProxyWasm_proofs**, bodies (`BytesOfTheChunk`; any number and length of chunks).
All bytes a stream holds are of the callback that runs or ran last, and those of
Varnish are in order (`BytesInv`). `ReplaceGood` shows that `pw_replace_bytes`
keeps that for every start and size, also beyond the end. Between two callbacks a
rewrite is held only before the first chunk, which is what a flush may pass on.

**EngineLifecycle_proofs** (`EngineOutlivesThreads`, `NothingLeftBehind`,
`OneTimerPerModule`; any number of VCLs, modules, workers and timers). One half of
the invariant is about the events: the engine's state is that of its VCL, requests
use only ready VCLs that are not torn down, and what is allocated is what the
engine points at (`Pools`). The other is about timers: two callers at one module's
timer have raced (`Alone`); where none did, a caller finds in the slot what its
point of the code expects (`Found`), a live thread is in its slot or about to be
published (`Reached`), joined threads have ended, and the slots that the teardown
has passed stay empty (`Emptied`), since neither a request nor a tick can set a
period any more. Together they give that no thread outlives its engine. What
`trap` holds matters to none of it: a tick that is skipped for it is one that did
not begin.

Only model-checked:

- all liveness (`AcquireTerminates`, `CallReturns`, `ProbeDecides`, `JoinsEnd`):
  fairness and ENABLED are outside the prover's reach;
- `CallsAgree`, `WriteBackStable` and `OthersUntouched` of the header maps. They
  compare sums, filters (`SelectSeq`) and cuts over whole sequences of fields; a
  proof is by induction over these sequences with an operator as a parameter,
  which the prover cannot instantiate.

## Not modelled

- The chain delivery processor (`vdp_wasm.c:322-524`) and the response cache
  (`http_pool.c`) have no caller.
- The host functions of raw modules (`host_functions.c`) and `proxy_get_property`
  copy request data to the guest; the WASI functions are stubs with constant
  answers. (A raw module's `set_response_header` adds to the request's table,
  `host_functions.c:311-372`, although its comment says the response's.)
- Parsing and building of HTTP messages, the address filter, the JSON formats and
  logging are data no property here tells apart.
- The setters of limits, time-outs and allowed upstreams in `vcl_init` store a
  value.
- A set or get that fails for size or memory changes nothing and is left out of
  `SharedData`.
- That `request_body` points at an array of a block that was left
  (`wasm_engine.c:1305`) is a matter of the compiler's stack layout, and that a
  connection may overflow to the heap because eviction compares with an old time
  (`http_pool.c:748`) costs a connection and breaks no property.

## Plan

A composition of `CircuitBreaker`, `DnsCache` and `HttpPool` for a whole callout,
and the parsing of callout answers against a reference definition.
