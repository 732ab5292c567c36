------------------------------- MODULE Metrics -------------------------------
(***************************************************************************)
(* The guests' metrics (src/proxy_wasm.c): one table for all modules and   *)
(* all worker threads, made by the first execution that asks for it, and   *)
(* the host calls that define, change and read its entries under a         *)
(* read-write lock.  What happens under the lock is split where it reads   *)
(* and writes the table, so that the lock has to do its work.  An          *)
(* execution makes one call; the next call is that of another execution.   *)
(*                                                                         *)
(* The table is published before its lock is initialised.  A thread that   *)
(* finds the pointer in between locks the zeroed lock, which this build    *)
(* grants; initialising it under that thread's feet is the data race       *)
(* `raced' records, after which the lock keeps nobody out.                 *)
(***************************************************************************)
EXTENDS Integers

CONSTANTS
  Threads,       \* worker threads
  Names,         \* metric names
  NoName,        \* what is no name: an unused entry
  MaxMetrics,    \* VWASM_MAX_METRICS
  Half           \* 2^63: values are below 2 * Half, offsets in -Half .. Half - 1

ASSUME MetricsAssumption ==
  /\ NoName \notin Names
  /\ MaxMetrics \in Nat \ {0}
  /\ Half \in Nat \ {0}

Ids == 1 .. MaxMetrics
Values == 0 .. 2 * Half - 1
Offsets == -Half .. Half - 1

VARIABLES
  store,      \* global_metric_store: "none", "made" (its lock not), "ready"
  mtx,        \* the threads in global_shared_mtx
  writers,    \* the threads in store->rwlock for writing
  readers,    \* the threads in store->rwlock for reading
  raced,      \* the lock was initialised while a thread was in it
  count,      \* store->count
  name,       \* [Ids -> Names and NoName], used up to count
  value,      \* [Ids -> Values]
  due,        \* [Ids -> Values], what the calls so far amount to (history)
  told,       \* the names and ids define has returned (history)
  pc,         \* [Threads -> Points]
  wname,      \* [Threads -> Names and NoName], the name to define
  wid,        \* [Threads -> 0 .. MaxMetrics + 1], the id a guest passes
  amount,     \* [Threads -> Int], the offset or value it passes
  tmp,        \* [Threads -> Nat], what was read: a value, or an index
  snap        \* [Threads -> [Ids -> Values]], what get_metrics_json wrote

getter == <<store, mtx, raced>>
lock == <<writers, readers>>
table == <<count, name, value, due, told>>
locals == <<wname, wid, amount, tmp, snap>>
vars == <<getter, lock, table, pc, locals>>

Points == {"idle", "lock", "recheck", "init", "in", "scan", "define",
           "read", "write", "record", "json"}

NoSnap == [i \in Ids |-> 0]

Init ==
  /\ store \in {"none", "ready"}    \* "ready": made at load, for a store pool
  /\ mtx = {} /\ writers = {} /\ readers = {} /\ raced = FALSE
  /\ count = 0
  /\ name = [i \in Ids |-> NoName]
  /\ value = [i \in Ids |-> 0] /\ due = value /\ told = {}
  /\ pc = [t \in Threads |-> "idle"]
  /\ wname = [t \in Threads |-> NoName]
  /\ wid = [t \in Threads |-> 0]
  /\ amount = [t \in Threads |-> 0]
  /\ tmp = [t \in Threads |-> 0]
  /\ snap = [t \in Threads |-> NoSnap]

Goto(t, l) == pc' = [pc EXCEPT ![t] = l]

\* The execution is over and its locals gone.
Leave(t) ==
  /\ Goto(t, "idle")
  /\ wname' = [wname EXCEPT ![t] = NoName]
  /\ wid' = [wid EXCEPT ![t] = 0]
  /\ amount' = [amount EXCEPT ![t] = 0]
  /\ tmp' = [tmp EXCEPT ![t] = 0]
  /\ snap' = [snap EXCEPT ![t] = NoSnap]

-----------------------------------------------------------------------------
(* vwasm_proxy_wasm_get_metric_store *)

\* The unlocked check.
Enter(t) ==
  /\ pc[t] = "idle"
  /\ Goto(t, IF store = "none" THEN "lock" ELSE "in")
  /\ UNCHANGED <<getter, lock, table, locals>>

LockGetter(t) ==
  /\ pc[t] = "lock"
  /\ mtx = {}
  /\ mtx' = {t}
  /\ Goto(t, "recheck")
  /\ UNCHANGED <<store, raced, lock, table, locals>>

\* The check under the mutex: another thread made the table, ...
Found(t) ==
  /\ pc[t] = "recheck"
  /\ store # "none"
  /\ mtx' = mtx \ {t}
  /\ Goto(t, "in")
  /\ UNCHANGED <<store, raced, lock, table, locals>>

\* ... calloc made it, and stored the pointer where others see it, ...
Make(t) ==
  /\ pc[t] = "recheck"
  /\ store = "none"
  /\ store' = "made"
  /\ Goto(t, "init")
  /\ UNCHANGED <<mtx, raced, lock, table, locals>>

\* ... or found no memory, and the execution has no metrics.
NoMemory(t) ==
  /\ pc[t] = "recheck"
  /\ store = "none"
  /\ mtx' = mtx \ {t}
  /\ Leave(t)
  /\ UNCHANGED <<store, raced, lock, table>>

InitLock(t) ==
  /\ pc[t] = "init"
  /\ raced' = (raced \/ writers # {} \/ readers # {})
  /\ store' = "ready"
  /\ mtx' = mtx \ {t}
  /\ Goto(t, "in")
  /\ UNCHANGED <<lock, table, locals>>

-----------------------------------------------------------------------------
(* pthread_rwlock_t *)

WrLock(t) ==
  /\ raced \/ (writers = {} /\ readers = {})
  /\ writers' = writers \union {t}
  /\ UNCHANGED readers

RdLock(t) ==
  /\ raced \/ writers = {}
  /\ readers' = readers \union {t}
  /\ UNCHANGED writers

Unlock(t) ==
  /\ writers' = writers \ {t}
  /\ readers' = readers \ {t}

-----------------------------------------------------------------------------
(* proxy_define_metric.  An operator named Faulty... is a mutated form of  *)
(* the definition after it.                                                *)

\* The table is searched under the read lock.
FaultyDefine(t) ==
  /\ pc[t] = "in"
  /\ RdLock(t)
  /\ \E n \in Names : wname' = [wname EXCEPT ![t] = n]
  /\ Goto(t, "scan")
  /\ UNCHANGED <<getter, table, wid, amount, tmp, snap>>

Define(t) ==
  /\ pc[t] = "in"
  /\ WrLock(t)
  /\ \E n \in Names : wname' = [wname EXCEPT ![t] = n]
  /\ Goto(t, "scan")
  /\ UNCHANGED <<getter, table, wid, amount, tmp, snap>>

\* The first entry with the name, or the place of a new one.
DefineScan(t) ==
  /\ pc[t] = "scan"
  /\ \E i \in 1 .. count + 1 :
       /\ \A j \in 1 .. i - 1 : name[j] # wname[t]
       /\ i <= count => name[i] = wname[t]
       /\ tmp' = [tmp EXCEPT ![t] = i]
  /\ Goto(t, "define")
  /\ UNCHANGED <<getter, lock, table, wname, wid, amount, snap>>

\* The id of the entry goes to the guest, unless its memory cannot take it; a
\* full table has no room for a new one.
DefineEnd(t) ==
  /\ pc[t] = "define"
  /\ IF tmp[t] <= count
       THEN UNCHANGED <<count, name, value, due>>
       ELSE /\ count < MaxMetrics
            /\ count' = count + 1
            /\ name' = [name EXCEPT ![count + 1] = wname[t]]
            /\ value' = [value EXCEPT ![count + 1] = 0]
            /\ due' = [due EXCEPT ![count + 1] = 0]
  /\ \/ told' = told \union {<<wname[t], tmp[t]>>}
     \/ UNCHANGED told
  /\ Unlock(t)
  /\ Leave(t)
  /\ UNCHANGED getter

DefineFull(t) ==
  /\ pc[t] = "define"
  /\ tmp[t] > count
  /\ count >= MaxMetrics
  /\ Unlock(t)
  /\ Leave(t)
  /\ UNCHANGED <<getter, table>>

-----------------------------------------------------------------------------
(* proxy_increment_metric, proxy_record_metric, proxy_get_metric *)

BadId(t) == wid[t] = 0 \/ wid[t] > count

\* The value is changed under the read lock.
FaultyIncrement(t) ==
  /\ pc[t] = "in"
  /\ RdLock(t)
  /\ \E i \in 0 .. MaxMetrics + 1, o \in Offsets :
       /\ wid' = [wid EXCEPT ![t] = i]
       /\ amount' = [amount EXCEPT ![t] = o]
  /\ Goto(t, "read")
  /\ UNCHANGED <<getter, table, wname, tmp, snap>>

Increment(t) ==
  /\ pc[t] = "in"
  /\ WrLock(t)
  /\ \E i \in 0 .. MaxMetrics + 1, o \in Offsets :
       /\ wid' = [wid EXCEPT ![t] = i]
       /\ amount' = [amount EXCEPT ![t] = o]
  /\ Goto(t, "read")
  /\ UNCHANGED <<getter, table, wname, tmp, snap>>

IncrementRead(t) ==
  /\ pc[t] = "read"
  /\ ~BadId(t)
  /\ tmp' = [tmp EXCEPT ![t] = value[wid[t]]]
  /\ Goto(t, "write")
  /\ UNCHANGED <<getter, lock, table, wname, wid, amount, snap>>

\* The sum, as the code computes it on uint64_t: modulo 2^64 up, and down to
\* zero.
Moved(v, o) ==
  IF o >= 0 THEN (v + o) % (2 * Half)
  ELSE IF -o <= v THEN v - (-o)
  ELSE 0

\* What an increment should amount to: never below zero.
Sum(v, o) == IF v + o < 0 THEN 0 ELSE (v + o) % (2 * Half)

IncrementWrite(t) ==
  /\ pc[t] = "write"
  /\ value' = [value EXCEPT ![wid[t]] = Moved(tmp[t], amount[t])]
  /\ due' = [due EXCEPT ![wid[t]] = Sum(due[wid[t]], amount[t])]
  /\ Unlock(t)
  /\ Leave(t)
  /\ UNCHANGED <<getter, count, name, told>>

Record(t) ==
  /\ pc[t] = "in"
  /\ WrLock(t)
  /\ \E i \in 0 .. MaxMetrics + 1, v \in Values :
       /\ wid' = [wid EXCEPT ![t] = i]
       /\ amount' = [amount EXCEPT ![t] = v]
  /\ Goto(t, "record")
  /\ UNCHANGED <<getter, table, wname, tmp, snap>>

RecordWrite(t) ==
  /\ pc[t] = "record"
  /\ ~BadId(t)
  /\ value' = [value EXCEPT ![wid[t]] = amount[t]]
  /\ due' = [due EXCEPT ![wid[t]] = amount[t]]
  /\ Unlock(t)
  /\ Leave(t)
  /\ UNCHANGED <<getter, count, name, told>>

BadArgument(t) ==
  /\ pc[t] \in {"read", "record"}
  /\ BadId(t)
  /\ Unlock(t)
  /\ Leave(t)
  /\ UNCHANGED <<getter, table>>

\* One read under the lock, good or bad; the copy to the guest is its own.
Get(t) ==
  /\ pc[t] = "in"
  /\ raced \/ writers = {}
  /\ Leave(t)
  /\ UNCHANGED <<getter, lock, table>>

-----------------------------------------------------------------------------
(* wasm.get_metrics_json() *)

\* The entries are written without the lock.
FaultyJson(t) ==
  /\ pc[t] = "in"
  /\ UNCHANGED lock
  /\ Goto(t, "json")
  /\ UNCHANGED <<getter, table, locals>>

Json(t) ==
  /\ pc[t] = "in"
  /\ RdLock(t)
  /\ Goto(t, "json")
  /\ UNCHANGED <<getter, table, locals>>

JsonEntry(t) ==
  /\ pc[t] = "json"
  /\ tmp[t] < count
  /\ tmp' = [tmp EXCEPT ![t] = @ + 1]
  /\ snap' = [snap EXCEPT ![t][tmp[t] + 1] = value[tmp[t] + 1]]
  /\ UNCHANGED <<getter, lock, table, pc, wname, wid, amount>>

\* All entries are written, or there was no memory to write them to.
JsonEnd(t) ==
  /\ pc[t] = "json"
  /\ tmp[t] = count \/ tmp[t] = 0
  /\ Unlock(t)
  /\ Leave(t)
  /\ UNCHANGED <<getter, table>>

-----------------------------------------------------------------------------
GetStore(t) ==
  \/ Enter(t) \/ LockGetter(t) \/ Found(t) \/ Make(t) \/ NoMemory(t) \/ InitLock(t)

Call(t) ==
  \/ Define(t) \/ DefineScan(t) \/ DefineEnd(t) \/ DefineFull(t)
  \/ Increment(t) \/ IncrementRead(t) \/ IncrementWrite(t)
  \/ Record(t) \/ RecordWrite(t) \/ BadArgument(t) \/ Get(t)
  \/ Json(t) \/ JsonEntry(t) \/ JsonEnd(t)

Next == \E t \in Threads : GetStore(t) \/ Call(t)

Spec == Init /\ [][Next]_vars

-----------------------------------------------------------------------------
(* Properties *)

\* Every variable keeps its type: no value leaves 64 bits.
TypeOK ==
  /\ store \in {"none", "made", "ready"}
  /\ mtx \subseteq Threads /\ writers \subseteq Threads /\ readers \subseteq Threads
  /\ raced \in BOOLEAN
  /\ count \in 0 .. MaxMetrics
  /\ name \in [Ids -> Names \union {NoName}]
  /\ value \in [Ids -> Values]
  /\ due \in [Ids -> Values]
  /\ told \subseteq Names \X Ids
  /\ pc \in [Threads -> Points]
  /\ wname \in [Threads -> Names \union {NoName}]
  /\ wid \in [Threads -> 0 .. MaxMetrics + 1]
  /\ amount \in [Threads -> Int]
  /\ tmp \in [Threads -> Nat]
  /\ snap \in [Threads -> [Ids -> Values]]

\* As long as the lock was not initialised late, no increment or record is
\* lost: every metric is what the calls on it amount to, whichever threads made
\* them, and the arithmetic on uint64_t goes no lower than zero.
NoUpdateLost == ~raced => value = due

\* As long as the lock was not initialised late, an id that define returned
\* names the metric it was asked for, for good, and no name has two metrics:
\* two modules that define one name at once share one.
IdNamesOneMetric ==
  ~raced =>
    /\ \A p \in told : p[2] <= count /\ name[p[2]] = p[1]
    /\ \A i, j \in 1 .. count : name[i] = name[j] => i = j

\* As long as the lock was not initialised late, what get_metrics_json has
\* written is the table at one moment: no metric it has passed changes before
\* it has passed the last.
JsonOfOneMoment ==
  ~raced => \A t \in Threads : pc[t] = "json" =>
              \A i \in 1 .. tmp[t] : snap[t][i] = value[i]
=============================================================================
