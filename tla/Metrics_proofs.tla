---------------------------- MODULE Metrics_proofs ----------------------------
(***************************************************************************)
(* Proofs about Metrics, for any number of threads, any set of names, any  *)
(* size of the table and any width of the values.                          *)
(***************************************************************************)
EXTENDS Metrics, TLAPS

\* Where a thread holds the lock for writing.
WriterPoints == {"scan", "define", "read", "write", "record"}

\* Who is in the lock is where the lock is held.
LockPoints ==
  \A t \in Threads :
    /\ t \in writers <=> pc[t] \in WriterPoints
    /\ t \in readers <=> pc[t] = "json"

\* The lock works until it is initialised late.
Exclusion ==
  ~raced => /\ \A t, u \in writers : t = u
            /\ writers = {} \/ readers = {}

\* What a thread brings to the lock.
Arguments ==
  \A t \in Threads :
    /\ pc[t] \in {"scan", "define"} => wname[t] \in Names
    /\ pc[t] \in {"read", "write"} => amount[t] \in Offsets
    /\ pc[t] = "record" => amount[t] \in Values

\* The place define found still is the place of the name.
PlaceFound ==
  \A t \in Threads : pc[t] = "define" =>
    /\ tmp[t] \in 1 .. count + 1
    /\ ~raced => /\ \A j \in 1 .. tmp[t] - 1 : name[j] # wname[t]
                 /\ tmp[t] <= count => name[tmp[t]] = wname[t]

\* The value an increment read still is the value of the metric.
ValueRead ==
  \A t \in Threads : pc[t] = "write" =>
    /\ wid[t] \in 1 .. count
    /\ tmp[t] \in Values
    /\ ~raced => tmp[t] = value[wid[t]]

\* get_metrics_json is inside the table.
JsonInside == \A t \in Threads : pc[t] = "json" => tmp[t] <= count

\* A thread outside the lock has read nothing.
NothingRead ==
  \A t \in Threads : pc[t] \notin WriterPoints \union {"json"} => tmp[t] = 0

\* The inductive invariant.
IInv ==
  /\ TypeOK
  /\ LockPoints
  /\ Exclusion
  /\ Arguments
  /\ PlaceFound
  /\ ValueRead
  /\ JsonInside
  /\ NothingRead
  /\ NoUpdateLost
  /\ IdNamesOneMetric
  /\ JsonOfOneMoment

-----------------------------------------------------------------------------
\* The arithmetic of proxy_increment_metric, on values and offsets of the
\* width, is the sum cut off at zero and reduced to the width.
LEMMA Arithmetic ==
  ASSUME NEW v \in Values, NEW o \in Offsets
  PROVE  Moved(v, o) = Sum(v, o) /\ Moved(v, o) \in Values
<1> USE MetricsAssumption
<1>1. v \in Int /\ o \in Int /\ 0 <= v /\ v < 2 * Half /\ Half \in Int /\ 0 < Half
  BY DEF Values, Offsets
<1>2. CASE o >= 0
  <2>1. (v + o) % (2 * Half) \in 0 .. 2 * Half - 1
    BY <1>1
  <2>2. QED
    BY <1>1, <1>2, <2>1 DEF Moved, Sum, Values
<1>3. CASE o < 0 /\ -o <= v
  <2>1. v + o \in 0 .. 2 * Half - 1 /\ v - (-o) = v + o
    BY <1>1, <1>3
  <2>2. (v + o) % (2 * Half) = v + o
    BY <1>1, <2>1
  <2>3. QED
    BY <1>1, <1>3, <2>1, <2>2 DEF Moved, Sum, Values
<1>4. CASE o < 0 /\ ~(-o <= v)
  BY <1>1, <1>4 DEF Moved, Sum, Values
<1>5. QED
  BY <1>1, <1>2, <1>3, <1>4

\* Zeros are values.
LEMMA ZeroValue == 0 \in Values /\ NoSnap \in [Ids -> Values]
BY MetricsAssumption DEF Values, NoSnap

\* An execution that is over leaves the others' locals alone.
LEMMA LeaveFacts ==
  ASSUME TypeOK, NEW t \in Threads, Leave(t)
  PROVE  /\ pc' \in [Threads -> Points]
         /\ wname' \in [Threads -> Names \union {NoName}]
         /\ wid' \in [Threads -> 0 .. MaxMetrics + 1]
         /\ amount' \in [Threads -> Int]
         /\ tmp' \in [Threads -> Nat]
         /\ snap' \in [Threads -> [Ids -> Values]]
         /\ pc'[t] = "idle" /\ tmp'[t] = 0
         /\ \A u \in Threads : u # t =>
              /\ pc'[u] = pc[u] /\ wname'[u] = wname[u] /\ wid'[u] = wid[u]
              /\ amount'[u] = amount[u] /\ tmp'[u] = tmp[u] /\ snap'[u] = snap[u]
BY ZeroValue, MetricsAssumption DEF TypeOK, Leave, Goto, Points

\* The table starts with the invariant.
LEMMA InitInv == Init => IInv
<1> SUFFICES ASSUME Init PROVE IInv
  OBVIOUS
<1> USE ZeroValue, MetricsAssumption
<1>1. TypeOK
  <2>1. raced \in BOOLEAN /\ told \subseteq Names \X Ids
    BY Zenon DEF Init
  <2>2. QED
    BY <2>1 DEF Init, TypeOK, Points
<1>2. \A t \in Threads : pc[t] = "idle"
  BY Zenon DEF Init
<1>3. LockPoints /\ Exclusion
  BY Zenon, <1>2 DEF Init, LockPoints, WriterPoints, Exclusion
<1>4. /\ Arguments /\ PlaceFound /\ ValueRead /\ JsonInside /\ JsonOfOneMoment
      /\ NothingRead
  BY Zenon, <1>2 DEF Init, NothingRead, Arguments, PlaceFound, ValueRead, JsonInside, JsonOfOneMoment
<1>5. NoUpdateLost /\ IdNamesOneMetric
  BY DEF Init, NoUpdateLost, IdNamesOneMetric
<1>6. QED
  BY Zenon, <1>1, <1>3, <1>4, <1>5 DEF IInv

\* A step of the getter changes neither the table nor who is in its lock.
LEMMA GetStoreInv ==
  ASSUME IInv, NEW t \in Threads, GetStore(t)
  PROVE  IInv'
<1>1. ASSUME NoMemory(t) PROVE IInv'
  <2>1. Leave(t) /\ mtx' = mtx \ {t} /\ pc[t] = "recheck"
        /\ UNCHANGED <<store, raced, lock, table>>
    BY Zenon, <1>1 DEF NoMemory
  <2>2. TypeOK'
    BY Zenon, <2>1, LeaveFacts DEF IInv, TypeOK, lock, table
  <2>3. /\ pc'[t] = "idle" /\ tmp'[t] = 0
        /\ \A u \in Threads : u # t =>
             /\ pc'[u] = pc[u] /\ wname'[u] = wname[u] /\ wid'[u] = wid[u]
             /\ amount'[u] = amount[u] /\ tmp'[u] = tmp[u] /\ snap'[u] = snap[u]
    BY Zenon, <2>1, LeaveFacts DEF IInv
  <2>4. LockPoints' /\ Exclusion' /\ NoUpdateLost' /\ IdNamesOneMetric'
    BY <2>1, <2>3 DEF IInv, lock, table, LockPoints, WriterPoints, Exclusion,
      NoUpdateLost, IdNamesOneMetric
  <2>5. Arguments' /\ PlaceFound' /\ ValueRead' /\ JsonInside' /\ JsonOfOneMoment' /\ NothingRead'
    BY <2>1, <2>3 DEF IInv, table, Arguments, PlaceFound, ValueRead, JsonInside,
      JsonOfOneMoment, NothingRead
  <2>6. QED
    BY Zenon, <2>2, <2>4, <2>5 DEF IInv
<1>2. ASSUME Enter(t) \/ LockGetter(t) \/ Found(t) \/ Make(t) \/ InitLock(t) PROVE IInv'
  <2>1. /\ UNCHANGED <<lock, table, locals>>
        /\ store' \in {"none", "made", "ready"} /\ mtx' \subseteq Threads
    BY Zenon, <1>2 DEF Enter, LockGetter, Found, Make, InitLock, getter, IInv, TypeOK
  <2>2. /\ raced' \in BOOLEAN /\ (raced => raced')
        /\ ~raced' => ~raced
    BY Zenon, <1>2 DEF Enter, LockGetter, Found, Make, InitLock, getter, IInv, TypeOK
  <2>3. /\ pc' \in [Threads -> Points]
        /\ pc[t] \in Points \ (WriterPoints \union {"json"})
        /\ pc'[t] \in Points \ (WriterPoints \union {"json"})
        /\ \A u \in Threads : u # t => pc'[u] = pc[u]
    BY ZenonT(40), <1>2 DEF Enter, LockGetter, Found, Make, InitLock, Goto, IInv, TypeOK, Points,
      WriterPoints
  <2>4. TypeOK'
    BY Zenon, <2>1, <2>2, <2>3 DEF IInv, TypeOK, lock, table, locals
  <2>5. LockPoints' /\ Exclusion' /\ NoUpdateLost' /\ IdNamesOneMetric'
    BY <2>1, <2>2, <2>3 DEF IInv, lock, table, LockPoints, Exclusion, NoUpdateLost,
      IdNamesOneMetric
  <2>6. Arguments' /\ PlaceFound' /\ ValueRead' /\ JsonInside' /\ JsonOfOneMoment' /\ NothingRead'
    BY <2>1, <2>2, <2>3 DEF IInv, table, locals, Arguments, PlaceFound, ValueRead,
      JsonInside, JsonOfOneMoment, NothingRead, WriterPoints
  <2>7. QED
    BY Zenon, <2>4, <2>5, <2>6 DEF IInv
<1>3. QED
  BY Zenon, <1>1, <1>2 DEF GetStore

\* A thread in the lock for writing is alone in it.
LEMMA Alone ==
  ASSUME IInv, NEW t \in Threads, pc[t] \in WriterPoints, ~raced
  PROVE  \A u \in Threads : u # t => pc[u] \notin WriterPoints \union {"json"}
BY Zenon DEF IInv, LockPoints, Exclusion

\* Taking the lock, for writing or for reading, keeps the invariant.
LEMMA LockInv ==
  ASSUME IInv, NEW t \in Threads, Define(t) \/ Increment(t) \/ Record(t) \/ Json(t)
  PROVE  IInv'
<1>1. /\ UNCHANGED <<getter, table, snap, tmp>>
      /\ pc[t] = "in"
      /\ WrLock(t) \/ RdLock(t)
  BY Zenon DEF Define, Increment, Record, Json, locals
<1>2. /\ wname' \in [Threads -> Names \union {NoName}]
      /\ wid' \in [Threads -> 0 .. MaxMetrics + 1]
      /\ amount' \in [Threads -> Int]
  <2>1. wname' \in [Threads -> Names \union {NoName}]
    BY SMTT(30) DEF IInv, TypeOK, Define, Increment, Record, Json, locals
  <2>2. wid' \in [Threads -> 0 .. MaxMetrics + 1]
    BY SMTT(30), MetricsAssumption DEF IInv, TypeOK, Define, Increment, Record, Json, locals, Offsets
  <2>3. amount' \in [Threads -> Int]
    BY SMTT(30), MetricsAssumption DEF IInv, TypeOK, Define, Increment, Record, Json, locals,
      Offsets, Values
  <2>4. QED
    BY Zenon, <2>1, <2>2, <2>3
<1>3. pc' \in [Threads -> Points] /\ \A u \in Threads : u # t => pc'[u] = pc[u]
  BY ZenonT(40) DEF IInv, TypeOK, Define, Increment, Record, Json, Goto, Points
<1>4. \A u \in Threads : u # t =>
        wname'[u] = wname[u] /\ wid'[u] = wid[u] /\ amount'[u] = amount[u]
  BY Zenon DEF IInv, TypeOK, Define, Increment, Record, Json, locals
<1>5. writers' \subseteq Threads /\ readers' \subseteq Threads
  BY Zenon, <1>1 DEF WrLock, RdLock, IInv, TypeOK
<1>6. TypeOK'
  BY Zenon, <1>1, <1>2, <1>3, <1>5 DEF IInv, TypeOK, getter, table
<1>7. \/ pc'[t] = "scan" /\ wname'[t] \in Names /\ WrLock(t)
      \/ pc'[t] = "read" /\ amount'[t] \in Offsets /\ WrLock(t)
      \/ pc'[t] = "record" /\ amount'[t] \in Values /\ WrLock(t)
      \/ pc'[t] = "json" /\ RdLock(t)
  BY Zenon DEF IInv, TypeOK, Define, Increment, Record, Json, Goto
<1>8. LockPoints'
  BY Zenon, <1>1, <1>3, <1>7 DEF IInv, LockPoints, WriterPoints, WrLock, RdLock
<1>9. Exclusion'
  BY Zenon, <1>1, <1>7 DEF IInv, Exclusion, WrLock, RdLock, getter
<1>10. Arguments'
  BY Zenon, <1>3, <1>4, <1>7 DEF IInv, Arguments
<1>11. PlaceFound' /\ ValueRead'
  BY <1>1, <1>3, <1>4, <1>7 DEF IInv, PlaceFound, ValueRead, table, getter
<1>12. JsonInside' /\ JsonOfOneMoment'
  <2>1. tmp[t] = 0 /\ count >= 0
    BY <1>1 DEF IInv, TypeOK, NothingRead, WriterPoints
  <2>2. QED
    BY <1>1, <1>3, <1>7, <2>1 DEF IInv, JsonInside, JsonOfOneMoment, table, getter
<1>13. NothingRead' /\ NoUpdateLost' /\ IdNamesOneMetric'
  BY ZenonT(60), <1>1, <1>3, <1>7 DEF IInv, NothingRead, WriterPoints, NoUpdateLost,
    IdNamesOneMetric, table, getter
<1>14. QED
  BY Zenon, <1>6, <1>8, <1>9, <1>10, <1>11, <1>12, <1>13 DEF IInv

\* What is read under the lock stays true while the lock is held.
LEMMA ReadInv ==
  ASSUME IInv, NEW t \in Threads, DefineScan(t) \/ IncrementRead(t) \/ JsonEntry(t)
  PROVE  IInv'
<1>1. ASSUME DefineScan(t) PROVE IInv'
  <2>1. PICK i \in 1 .. count + 1 :
          /\ \A j \in 1 .. i - 1 : name[j] # wname[t]
          /\ i <= count => name[i] = wname[t]
          /\ tmp' = [tmp EXCEPT ![t] = i]
    BY Zenon, <1>1 DEF DefineScan
  <2>2. /\ pc[t] = "scan" /\ pc' = [pc EXCEPT ![t] = "define"]
        /\ UNCHANGED <<getter, lock, table, wname, wid, amount, snap>>
    BY Zenon, <1>1 DEF DefineScan, Goto
  <2>3. count \in Nat /\ i \in Nat
    BY <2>1 DEF IInv, TypeOK
  <2>4. TypeOK'
    BY Zenon, <2>1, <2>2, <2>3 DEF IInv, TypeOK, getter, lock, table, Points
  <2>5. /\ pc'[t] = "define" /\ tmp'[t] = i
        /\ \A u \in Threads : u # t => pc'[u] = pc[u] /\ tmp'[u] = tmp[u]
    BY Zenon, <2>1, <2>2 DEF IInv, TypeOK
  <2>6. LockPoints' /\ Exclusion' /\ Arguments' /\ NothingRead'
    BY ZenonT(40), <2>2, <2>5 DEF IInv, LockPoints, WriterPoints, Exclusion, Arguments, NothingRead,
      lock, getter
  <2>7. PlaceFound'
    BY <2>1, <2>2, <2>5 DEF IInv, PlaceFound, table, getter
  <2>8. ValueRead' /\ JsonInside' /\ JsonOfOneMoment'
    BY <2>2, <2>5 DEF IInv, ValueRead, JsonInside, JsonOfOneMoment, table, getter
  <2>9. NoUpdateLost' /\ IdNamesOneMetric'
    BY Zenon, <2>2 DEF IInv, NoUpdateLost, IdNamesOneMetric, table, getter
  <2>10. QED
    BY Zenon, <2>4, <2>6, <2>7, <2>8, <2>9 DEF IInv
<1>2. ASSUME IncrementRead(t) PROVE IInv'
  <2>1. /\ pc[t] = "read" /\ pc' = [pc EXCEPT ![t] = "write"]
        /\ tmp' = [tmp EXCEPT ![t] = value[wid[t]]]
        /\ UNCHANGED <<getter, lock, table, wname, wid, amount, snap>>
    BY Zenon, <1>2 DEF IncrementRead, Goto
  <2>2. wid[t] \in 1 .. count /\ wid[t] \in Ids
    BY <1>2, MetricsAssumption DEF IncrementRead, BadId, IInv, TypeOK, Ids
  <2>3. value[wid[t]] \in Values /\ value[wid[t]] \in Nat
    BY <2>2, MetricsAssumption DEF IInv, TypeOK, Values
  <2>4. TypeOK'
    BY Zenon, <2>1, <2>3 DEF IInv, TypeOK, getter, lock, table, Points
  <2>5. /\ pc'[t] = "write" /\ tmp'[t] = value[wid[t]]
        /\ \A u \in Threads : u # t => pc'[u] = pc[u] /\ tmp'[u] = tmp[u]
    BY Zenon, <2>1 DEF IInv, TypeOK
  <2>6. LockPoints' /\ Exclusion' /\ Arguments' /\ NothingRead'
    BY <2>1, <2>5 DEF IInv, LockPoints, WriterPoints, Exclusion, Arguments, NothingRead,
      lock, getter
  <2>7. ValueRead'
    BY SMTT(30), <2>1, <2>2, <2>3, <2>5 DEF IInv, ValueRead, table, getter
  <2>8. PlaceFound' /\ JsonInside' /\ JsonOfOneMoment'
    BY <2>1, <2>5 DEF IInv, PlaceFound, JsonInside, JsonOfOneMoment, table, getter
  <2>9. NoUpdateLost' /\ IdNamesOneMetric'
    BY Zenon, <2>1 DEF IInv, NoUpdateLost, IdNamesOneMetric, table, getter
  <2>10. QED
    BY Zenon, <2>4, <2>6, <2>7, <2>8, <2>9 DEF IInv
<1>3. ASSUME JsonEntry(t) PROVE IInv'
  <2>1. /\ pc[t] = "json" /\ tmp[t] < count
        /\ tmp' = [tmp EXCEPT ![t] = tmp[t] + 1]
        /\ snap' = [snap EXCEPT ![t] = [snap[t] EXCEPT ![tmp[t] + 1] = value[tmp[t] + 1]]]
        /\ UNCHANGED <<getter, lock, table, pc, wname, wid, amount>>
    BY Zenon, <1>3 DEF JsonEntry
  <2>2. tmp[t] \in Nat /\ count \in 0 .. MaxMetrics /\ tmp[t] + 1 \in Ids
    BY <2>1, MetricsAssumption DEF IInv, TypeOK, Ids
  <2>3. snap[t] \in [Ids -> Values] /\ value[tmp[t] + 1] \in Values
    BY Zenon, <2>2 DEF IInv, TypeOK
  <2>4. TypeOK'
    BY <2>1, <2>2, <2>3 DEF IInv, TypeOK, getter, lock, table
  <2>5. /\ tmp'[t] = tmp[t] + 1
        /\ \A i \in 1 .. tmp[t] + 1 :
             snap'[t][i] = IF i = tmp[t] + 1 THEN value[tmp[t] + 1] ELSE snap[t][i]
        /\ \A u \in Threads : u # t => tmp'[u] = tmp[u] /\ snap'[u] = snap[u]
    BY <2>1, <2>2, <2>3, MetricsAssumption DEF IInv, TypeOK, Ids
  <2>6. LockPoints' /\ Exclusion' /\ Arguments' /\ NothingRead'
    BY ZenonT(40), <2>1, <2>5 DEF IInv, LockPoints, WriterPoints, Exclusion, Arguments, NothingRead,
      lock, getter
  <2>7. JsonInside' /\ PlaceFound' /\ ValueRead'
    BY <2>1, <2>2, <2>5 DEF IInv, JsonInside, PlaceFound, ValueRead, table, getter
  <2>8. JsonOfOneMoment'
    BY <2>1, <2>2, <2>5 DEF IInv, JsonOfOneMoment, table, getter
  <2>9. NoUpdateLost' /\ IdNamesOneMetric'
    BY Zenon, <2>1 DEF IInv, NoUpdateLost, IdNamesOneMetric, table, getter
  <2>10. QED
    BY Zenon, <2>4, <2>6, <2>7, <2>8, <2>9 DEF IInv
<1>4. QED
  BY Zenon, <1>1, <1>2, <1>3

\* Leaving the lock with the table as it was keeps the invariant.
LEMMA EndInv ==
  ASSUME IInv, NEW t \in Threads,
         DefineFull(t) \/ BadArgument(t) \/ Get(t) \/ JsonEnd(t)
  PROVE  IInv'
<1>1. Leave(t) /\ UNCHANGED <<getter, table>>
  BY Zenon DEF DefineFull, BadArgument, Get, JsonEnd
<1>2. /\ pc'[t] = "idle" /\ tmp'[t] = 0
      /\ \A u \in Threads : u # t =>
           /\ pc'[u] = pc[u] /\ wname'[u] = wname[u] /\ wid'[u] = wid[u]
           /\ amount'[u] = amount[u] /\ tmp'[u] = tmp[u] /\ snap'[u] = snap[u]
  BY Zenon, <1>1, LeaveFacts DEF IInv
<1>3. writers' = writers \ {t} /\ readers' = readers \ {t}
  BY Zenon DEF DefineFull, BadArgument, Get, JsonEnd, Unlock, lock, IInv, LockPoints, WriterPoints
<1>4. TypeOK'
  BY Zenon, <1>1, <1>3, LeaveFacts DEF IInv, TypeOK, getter, table
<1>5. LockPoints' /\ Exclusion' /\ NoUpdateLost' /\ IdNamesOneMetric'
  BY <1>1, <1>2, <1>3 DEF IInv, LockPoints, WriterPoints, Exclusion, NoUpdateLost,
    IdNamesOneMetric, getter, table
<1>6. Arguments' /\ PlaceFound' /\ ValueRead' /\ JsonInside' /\ JsonOfOneMoment' /\ NothingRead'
  BY SMTT(30), <1>1, <1>2 DEF IInv, Arguments, PlaceFound, ValueRead, JsonInside, JsonOfOneMoment,
    NothingRead, getter, table
<1>7. QED
  BY Zenon, <1>4, <1>5, <1>6 DEF IInv

\* The writes keep the invariant: whoever writes is alone in the lock.
LEMMA WriteInv ==
  ASSUME IInv, NEW t \in Threads, DefineEnd(t) \/ IncrementWrite(t) \/ RecordWrite(t)
  PROVE  IInv'
<1> USE MetricsAssumption
<1>1. /\ Leave(t) /\ UNCHANGED getter /\ pc[t] \in WriterPoints
      /\ writers' = writers \ {t} /\ readers' = readers \ {t}
  BY Zenon DEF DefineEnd, IncrementWrite, RecordWrite, Unlock, WriterPoints
<1>2. /\ pc'[t] = "idle" /\ tmp'[t] = 0
      /\ \A u \in Threads : u # t =>
           /\ pc'[u] = pc[u] /\ wname'[u] = wname[u] /\ wid'[u] = wid[u]
           /\ amount'[u] = amount[u] /\ tmp'[u] = tmp[u] /\ snap'[u] = snap[u]
  BY ZenonT(40), <1>1, LeaveFacts DEF IInv
<1>3. LockPoints' /\ Exclusion' /\ Arguments' /\ NothingRead'
  BY <1>1, <1>2 DEF IInv, LockPoints, WriterPoints, Exclusion, Arguments, NothingRead, getter
<1>4. ~raced => \A u \in Threads : pc'[u] \notin WriterPoints \union {"json"}
  BY Zenon, <1>1, <1>2, Alone DEF WriterPoints
<1>5. ASSUME /\ count' \in 0 .. MaxMetrics /\ count <= count'
             /\ name' \in [Ids -> Names \union {NoName}]
             /\ value' \in [Ids -> Values] /\ due' \in [Ids -> Values]
             /\ told' \subseteq Names \X Ids
             /\ NoUpdateLost' /\ IdNamesOneMetric'
      PROVE  IInv'
  <2>1. TypeOK'
    BY Zenon, <1>1, <1>5, LeaveFacts DEF IInv, TypeOK, getter
  <2>2. raced' = raced /\ count \in Nat /\ count' \in Nat
    BY <1>1, <1>5 DEF getter, IInv, TypeOK
  <2>3. \A u \in Threads : pc'[u] = "define" => tmp'[u] \in 1 .. count + 1
    BY ZenonT(40), <1>2 DEF IInv, PlaceFound
  <2>4. PlaceFound'
    BY <1>4, <1>5, <2>2, <2>3 DEF PlaceFound, WriterPoints
  <2>5. \A u \in Threads : pc'[u] = "write" => wid'[u] \in 1 .. count /\ tmp'[u] \in Values
    BY ZenonT(40), <1>2 DEF IInv, ValueRead
  <2>6. ValueRead'
    BY <1>4, <1>5, <2>2, <2>5 DEF ValueRead, WriterPoints
  <2>7. \A u \in Threads : pc'[u] = "json" => tmp'[u] <= count
    BY Zenon, <1>2 DEF IInv, JsonInside
  <2>8. \A u \in Threads : tmp'[u] \in Nat
    BY Zenon, <2>1 DEF TypeOK
  <2>9. JsonInside' /\ JsonOfOneMoment'
    BY <1>4, <1>5, <2>2, <2>7, <2>8 DEF JsonInside, JsonOfOneMoment
  <2>10. QED
    BY Zenon, <1>3, <1>5, <2>1, <2>4, <2>6, <2>9 DEF IInv
<1>6. ASSUME DefineEnd(t) PROVE IInv'
  <2>1. /\ wname[t] \in Names /\ tmp[t] \in 1 .. count + 1
        /\ ~raced => /\ \A j \in 1 .. tmp[t] - 1 : name[j] # wname[t]
                     /\ tmp[t] <= count => name[tmp[t]] = wname[t]
    BY Zenon, <1>6 DEF DefineEnd, IInv, Arguments, PlaceFound
  <2>2. raced' = raced /\ count \in 0 .. MaxMetrics
    BY Zenon, <1>1 DEF getter, IInv, TypeOK
  <2>3. /\ tmp[t] \in Ids /\ tmp[t] <= count' /\ count' \in 0 .. MaxMetrics /\ count <= count'
        /\ told' \subseteq told \union {<<wname[t], tmp[t]>>}
    BY <1>6, <2>1, <2>2 DEF DefineEnd, Ids
  <2>4. /\ name' \in [Ids -> Names \union {NoName}]
        /\ value' \in [Ids -> Values] /\ due' \in [Ids -> Values]
        /\ told' \subseteq Names \X Ids
    <3>1. told' \subseteq Names \X Ids
      BY <2>1, <2>3 DEF IInv, TypeOK
    <3>2. CASE tmp[t] <= count
      BY <1>6, <3>1, <3>2 DEF DefineEnd, IInv, TypeOK
    <3>3. CASE ~ (tmp[t] <= count)
      <4>1. /\ name' = [name EXCEPT ![count + 1] = wname[t]]
            /\ value' = [value EXCEPT ![count + 1] = 0]
            /\ due' = [due EXCEPT ![count + 1] = 0]
        BY Zenon, <1>6, <3>3 DEF DefineEnd
      <4>2. /\ name \in [Ids -> Names \union {NoName}]
            /\ value \in [Ids -> Values] /\ due \in [Ids -> Values]
        BY Zenon DEF IInv, TypeOK
      <4>3. QED
        BY Zenon, <2>1, <3>1, <4>1, <4>2, ZeroValue
    <3>4. QED
      BY Zenon, <3>2, <3>3
  <2>5. NoUpdateLost'
    BY <1>6, <2>2 DEF DefineEnd, IInv, TypeOK, NoUpdateLost
  <2>6. ASSUME ~raced
        PROVE  /\ \A i \in 1 .. count : name'[i] = name[i]
               /\ name'[tmp[t]] = wname[t]
               /\ \A i \in 1 .. count' : i <= count \/ i = tmp[t]
               /\ tmp[t] > count => \A i \in 1 .. count : name[i] # wname[t]
    <3>1. CASE tmp[t] <= count
      BY <1>6, <2>1, <2>2, <2>6, <3>1 DEF DefineEnd
    <3>2. CASE tmp[t] > count
      <4>1. /\ tmp[t] = count + 1 /\ count' = count + 1
            /\ name' = [name EXCEPT ![count + 1] = wname[t]]
        BY <1>6, <2>1, <2>2, <3>2 DEF DefineEnd
      <4>2. \A i \in 1 .. count : name[i] # wname[t]
        BY <2>1, <2>2, <2>6, <4>1
      <4>3. DOMAIN name = 1 .. MaxMetrics
        BY Zenon DEF IInv, TypeOK, Ids
      <4>4. QED
        BY <2>2, <2>3, <4>1, <4>2, <4>3 DEF Ids
    <3>3. QED
      BY SMTT(30), <2>1, <2>2, <3>1, <3>2
  <2>7. IdNamesOneMetric'
    <3> SUFFICES ASSUME ~raced PROVE IdNamesOneMetric'
      BY Zenon, <2>2 DEF IdNamesOneMetric
    <3>1. \A p \in told' : p[2] <= count' /\ name'[p[2]] = p[1]
      <4>1. ASSUME NEW p \in told PROVE p[2] <= count' /\ name'[p[2]] = p[1]
        <5>1. p[2] <= count /\ name[p[2]] = p[1] /\ p[2] \in 1 .. MaxMetrics
          BY Zenon DEF IInv, TypeOK, IdNamesOneMetric, Ids
        <5>2. QED
          BY <2>2, <2>3, <2>6, <5>1
      <4>2. QED
        BY <2>3, <2>6, <4>1
    <3>2. \A i, j \in 1 .. count' : name'[i] = name'[j] => i = j
      <4>1. \A i, j \in 1 .. count : name'[i] = name'[j] => i = j
        BY <2>6 DEF IInv, IdNamesOneMetric
      <4>2. CASE tmp[t] <= count
        BY <2>2, <2>3, <2>6, <4>1, <4>2
      <4>3. CASE tmp[t] > count
        BY <2>2, <2>3, <2>6, <4>1, <4>3
      <4>4. QED
        BY <2>2, <2>3, <4>2, <4>3 DEF Ids
    <3>3. QED
      BY Zenon, <3>1, <3>2 DEF IdNamesOneMetric
  <2>8. QED
    BY Zenon, <1>5, <2>3, <2>4, <2>5, <2>7
<1>7. ASSUME IncrementWrite(t) PROVE IInv'
  <2> DEFINE v == Moved(tmp[t], amount[t])
             d == Sum(due[wid[t]], amount[t])
  <2>1. /\ value' = [value EXCEPT ![wid[t]] = v] /\ due' = [due EXCEPT ![wid[t]] = d]
        /\ UNCHANGED <<count, name, told>> /\ pc[t] = "write"
    BY Zenon, <1>7 DEF IncrementWrite
  <2>2. /\ wid[t] \in Ids /\ tmp[t] \in Values /\ amount[t] \in Offsets
        /\ ~raced => tmp[t] = value[wid[t]]
    BY <2>1 DEF IInv, TypeOK, ValueRead, Arguments, Ids
  <2>3. due[wid[t]] \in Values
    BY Zenon, <2>2 DEF IInv, TypeOK
  <2>4. v \in Values /\ d \in Values /\ (~raced => v = d)
    <3>1. v \in Values /\ v = Sum(tmp[t], amount[t])
      BY Zenon, <2>2, Arithmetic
    <3>2. d \in Values
      BY Zenon, <2>2, <2>3, Arithmetic
    <3>3. ~raced => tmp[t] = due[wid[t]]
      BY Zenon, <2>2 DEF IInv, NoUpdateLost
    <3>4. QED
      BY Zenon, <3>1, <3>2, <3>3
  <2> HIDE DEF v, d
  <2>5. value' \in [Ids -> Values] /\ due' \in [Ids -> Values]
    BY Zenon, <2>1, <2>4 DEF IInv, TypeOK
  <2>6. NoUpdateLost'
    BY Zenon, <1>1, <2>1, <2>4 DEF IInv, NoUpdateLost, getter
  <2>7. IdNamesOneMetric'
    BY Zenon, <1>1, <2>1 DEF IInv, IdNamesOneMetric, getter
  <2>8. /\ count' \in 0 .. MaxMetrics /\ count <= count'
        /\ name' \in [Ids -> Names \union {NoName}] /\ told' \subseteq Names \X Ids
    BY <2>1 DEF IInv, TypeOK
  <2>9. QED
    BY Zenon, <1>5, <2>5, <2>6, <2>7, <2>8
<1>8. ASSUME RecordWrite(t) PROVE IInv'
  <2>1. /\ value' = [value EXCEPT ![wid[t]] = amount[t]]
        /\ due' = [due EXCEPT ![wid[t]] = amount[t]]
        /\ UNCHANGED <<count, name, told>> /\ pc[t] = "record"
    BY Zenon, <1>8 DEF RecordWrite
  <2>2. amount[t] \in Values
    BY Zenon, <2>1 DEF IInv, Arguments
  <2>3. value' \in [Ids -> Values] /\ due' \in [Ids -> Values]
    BY Zenon, <2>1, <2>2 DEF IInv, TypeOK
  <2>4. NoUpdateLost' /\ IdNamesOneMetric'
    BY Zenon, <1>1, <2>1 DEF IInv, NoUpdateLost, IdNamesOneMetric, getter
  <2>5. /\ count' \in 0 .. MaxMetrics /\ count <= count'
        /\ name' \in [Ids -> Names \union {NoName}] /\ told' \subseteq Names \X Ids
    BY <2>1 DEF IInv, TypeOK
  <2>6. QED
    BY Zenon, <1>5, <2>3, <2>4, <2>5
<1>9. QED
  BY Zenon, <1>6, <1>7, <1>8

-----------------------------------------------------------------------------
\* The inductive invariant holds in every behaviour.
THEOREM Invariance == Spec => []IInv
<1>1. ASSUME IInv, UNCHANGED vars PROVE IInv'
  BY <1>1 DEF IInv, TypeOK, LockPoints, Exclusion, Arguments, PlaceFound, ValueRead,
    JsonInside, NothingRead, NoUpdateLost, IdNamesOneMetric, JsonOfOneMoment, vars,
    getter, lock, table, locals
<1>2. IInv /\ [Next]_vars => IInv'
  BY Zenon, <1>1, GetStoreInv, LockInv, ReadInv, EndInv, WriteInv DEF Next, Call
<1>3. QED
  BY InitInv, <1>2, PTL DEF Spec

\* Every variable keeps its type: no value leaves 64 bits, no id the table.
THEOREM TypeCorrect == Spec => []TypeOK
<1>1. IInv => TypeOK
  BY Zenon DEF IInv
<1>2. QED
  BY <1>1, Invariance, PTL

\* No increment or record is lost while the lock is what it should be.
THEOREM Updates == Spec => []NoUpdateLost
<1>1. IInv => NoUpdateLost
  BY Zenon DEF IInv
<1>2. QED
  BY <1>1, Invariance, PTL

\* An id that define returned names its metric for good, the only one of its
\* name.
THEOREM Identity == Spec => []IdNamesOneMetric
<1>1. IInv => IdNamesOneMetric
  BY Zenon DEF IInv
<1>2. QED
  BY <1>1, Invariance, PTL

\* What get_metrics_json writes is the table at one moment.
THEOREM Snapshot == Spec => []JsonOfOneMoment
<1>1. IInv => JsonOfOneMoment
  BY Zenon DEF IInv
<1>2. QED
  BY <1>1, Invariance, PTL
=============================================================================
