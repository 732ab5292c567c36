--------------------------- MODULE StorePool_proofs ---------------------------
(***************************************************************************)
(* Proofs about StorePool, for any set of threads, any capacity, any set   *)
(* of failed slots, any width of the scan hint and any memory sizes.       *)
(***************************************************************************)
EXTENDS StorePool, TLAPS

\* A remainder lies below its modulus.
LEMMA ModRange ==
  ASSUME NEW a \in Nat, NEW m \in Nat \ {0}
  PROVE  a % m \in 0 .. m - 1
BY SMT

\* The slot a scan looks at is a slot of the pool, also when the hint wraps.
LEMMA ScanIndexInSlots ==
  ASSUME TypeOK, NEW t \in Threads
  PROVE  ScanIndex(t) \in Slots
<1>1. start[t] + i[t] \in Nat
  BY PoolAssumption DEF TypeOK
<1>2. (start[t] + i[t]) % HintModulus \in Nat
  BY <1>1, ModRange, PoolAssumption
<1>3. QED
  BY Zenon, <1>2, ModRange, PoolAssumption DEF ScanIndex, Slots

-----------------------------------------------------------------------------
(* Type correctness *)

\* A thread that has just claimed a slot is still inside the loop of acquire, so
\* that dropping the slot moves its index to the capacity at most.
ScanBound == \A t \in Threads : pc[t] = "claimed" => i[t] < Capacity

\* The restore only removes pages from the set that differs.
LEMMA RestoredType ==
  ASSUME NEW n \in Nat, NEW D \in SUBSET Pages
  PROVE  Restored(n, D) \in SUBSET Pages
BY Zenon DEF Restored

\* The pool starts well typed.
LEMMA InitType == Init => TypeOK
<1> SUFFICES ASSUME Init PROVE TypeOK
  OBVIOUS
<1>1. 1 .. InitPages \in SUBSET Pages
  BY PoolAssumption DEF Pages
<1>2. Restored(InitPages, 1 .. InitPages) \in SUBSET Pages
  BY Zenon, <1>1, RestoredType, PoolAssumption
<1>3. QED
  BY <1>2, PoolAssumption DEF Init, TypeOK, Points, Slots, NoSlot, Pages

\* Every step keeps every variable in its type.
LEMMA NextType == TypeOK /\ ScanBound /\ [Next]_vars => TypeOK'
<1> SUFFICES ASSUME TypeOK, ScanBound, [Next]_vars PROVE TypeOK'
  OBVIOUS
<1> USE PoolAssumption
<1>1. ASSUME NEW t \in Threads, FetchScanHint(t) PROVE TypeOK'
  <2>1. scan_hint \in Nat
    BY DEF TypeOK
  <2>2. (scan_hint + 1) % HintModulus \in 0 .. HintModulus - 1
    BY <2>1, ModRange
  <2>3. QED
    BY <1>1, <2>2 DEF TypeOK, FetchScanHint, statVars, Points
<1>2. ASSUME NEW t \in Threads, ClaimSlot(t) PROVE TypeOK'
  <2>1. ScanIndex(t) \in Slots
    BY Zenon, ScanIndexInSlots
  <2>2. QED
    BY Zenon, <1>2, <2>1 DEF TypeOK, ClaimSlot, statVars, Points
<1>3. ASSUME NEW t \in Threads, SkipBusySlot(t) PROVE TypeOK'
  BY <1>3 DEF TypeOK, SkipBusySlot, statVars, threadVars, poolVars, Points, NoSlot
<1>4. ASSUME NEW t \in Threads, DropFailedSlot(t) PROVE TypeOK'
  BY <1>4 DEF TypeOK, ScanBound, DropFailedSlot, statVars, threadVars, poolVars, Points, NoSlot
<1>5. ASSUME NEW t \in Threads, ResetMemory(t) PROVE TypeOK'
  <2>1. ASSUME ps[t] \in Slots PROVE Restored(size[ps[t]], dirty[ps[t]]) \in SUBSET Pages
    <3>1. size[ps[t]] \in Nat /\ dirty[ps[t]] \in SUBSET Pages
      BY <2>1 DEF TypeOK
    <3>2. QED
      BY Zenon, <3>1, RestoredType
  <2>2. dirty' \in [Slots -> SUBSET Pages]
    BY Zenon, <1>5, <2>1 DEF TypeOK, ResetMemory
  <2>3. QED
    BY <1>5, <2>2 DEF TypeOK, ResetMemory, Points
<1>6. ASSUME NEW t \in Threads, ReturnSlot(t) PROVE TypeOK'
  BY <1>6 DEF TypeOK, ReturnSlot, statVars, threadVars, poolVars, Points, NoSlot
<1>7. ASSUME NEW t \in Threads, FallBack(t) PROVE TypeOK'
  BY <1>7 DEF TypeOK, FallBack, statVars, threadVars, poolVars, Points, NoSlot
<1>8. ASSUME NEW t \in Threads, AttachContext(t) PROVE TypeOK'
  BY Zenon, <1>8 DEF TypeOK, AttachContext, statVars, threadVars, poolVars, Points, NoSlot
<1>9. ASSUME NEW t \in Threads, GuestWrite(t) PROVE TypeOK'
  <2>1. PICK p \in 1 .. size[ps[t]] : dirty' = [dirty EXCEPT ![ps[t]] = @ \cup {p}]
    BY Zenon, <1>9 DEF GuestWrite
  <2>2. ASSUME ps[t] \in Slots PROVE p \in Pages
    BY <2>1, <2>2 DEF TypeOK, Pages
  <2>3. dirty' \in [Slots -> SUBSET Pages]
    BY ZenonT(40), <2>1, <2>2 DEF TypeOK
  <2>4. QED
    BY Zenon, <1>9, <2>3 DEF TypeOK, GuestWrite, statVars, threadVars
<1>10. ASSUME NEW t \in Threads, GuestGrow(t) PROVE TypeOK'
  <2>1. ASSUME ps[t] \in Slots PROVE size[ps[t]] + 1 \in InitPages .. MaxPages
    BY <1>10, <2>1 DEF TypeOK, GuestGrow
  <2>2. size' \in [Slots -> InitPages .. MaxPages]
    BY Zenon, <1>10, <2>1 DEF TypeOK, GuestGrow
  <2>3. QED
    BY Zenon, <1>10, <2>2 DEF TypeOK, GuestGrow, statVars, threadVars
<1>11. ASSUME NEW t \in Threads, ColdExecute(t) PROVE TypeOK'
  BY Zenon, <1>11 DEF TypeOK, ColdExecute, statVars, threadVars, poolVars, Points, NoSlot
<1>12. ASSUME NEW t \in Threads, DetachContext(t) PROVE TypeOK'
  BY Zenon, <1>12 DEF TypeOK, DetachContext, statVars, threadVars, poolVars, Points, NoSlot
<1>13. ASSUME NEW t \in Threads, FreeSlot(t) PROVE TypeOK'
  BY Zenon, <1>13 DEF TypeOK, FreeSlot, statVars, threadVars, poolVars, Points, NoSlot
<1>14. ASSUME NEW t \in Threads, CountRelease(t) PROVE TypeOK'
  BY <1>14 DEF TypeOK, CountRelease, statVars, threadVars, poolVars, Points, NoSlot
<1>15. CASE UNCHANGED vars
  BY Zenon, <1>15 DEF TypeOK, vars, poolVars, threadVars, statVars
<1>16. QED
  BY Zenon, <1>1, <1>2, <1>3, <1>4, <1>5, <1>6, <1>7, <1>8, <1>9, <1>10, <1>11, <1>12, <1>13, <1>14, <1>15 DEF Next, HostStep, RequestStep

\* A claim is made inside the loop.
LEMMA NextScanBound == TypeOK /\ ScanBound /\ [Next]_vars => ScanBound'
<1> SUFFICES ASSUME TypeOK, ScanBound, [Next]_vars, NEW u \in Threads,
                    pc'[u] = "claimed"
             PROVE  i'[u] < Capacity
  BY Zenon DEF ScanBound
<1>1. ASSUME NEW t \in Threads, HostStep(t) PROVE i'[u] < Capacity
  BY ZenonT(40), <1>1 DEF HostStep, TypeOK, ScanBound, ClaimSlot, SkipBusySlot,
       DropFailedSlot, ResetMemory, ReturnSlot, FallBack, FreeSlot, CountRelease
<1>2. ASSUME NEW t \in Threads, RequestStep(t) PROVE i'[u] < Capacity
  BY ZenonT(40), <1>2 DEF RequestStep, TypeOK, ScanBound, FetchScanHint, AttachContext,
       GuestWrite, GuestGrow, ColdExecute, DetachContext, threadVars
<1>3. CASE UNCHANGED vars
  BY Zenon, <1>3 DEF ScanBound, vars, threadVars
<1>4. QED
  BY Zenon, <1>1, <1>2, <1>3 DEF Next

\* Type correctness, which is also the bound of every scan index.
THEOREM TypeCorrect == Spec => []TypeOK
<1>1. Init => TypeOK /\ ScanBound
  BY Zenon, InitType DEF Init, ScanBound
<1>2. TypeOK /\ ScanBound /\ [Next]_vars => (TypeOK /\ ScanBound)'
  BY Zenon, NextType, NextScanBound
<1>3. QED
  BY <1>1, <1>2, PTL DEF Spec

-----------------------------------------------------------------------------
(* Exclusive claims *)

\* A thread remembers a slot exactly while it has its claim.
ClaimHasSlot ==
  \A t \in Threads : pc[t] \in Claiming <=> ps[t] \in Slots

\* SlotExclusive from the compare-and-swap on, not only from the hand-out: a
\* thread that merely passes over a failed slot excludes the others as well.
ClaimExclusive ==
  \A t, u \in Threads :
    t # u /\ pc[t] \in Claiming /\ pc[u] \in Claiming => ps[t] # ps[u]

Claims == ClaimHasSlot /\ ClaimExclusive /\ FlagMatchesClaim

\* The claims are consistent from one step to the next.
LEMMA NextClaims ==
  TypeOK /\ Claims /\ [Next]_vars => Claims'
<1> SUFFICES ASSUME TypeOK, Claims, [Next]_vars PROVE Claims'
  OBVIOUS
<1> USE PoolAssumption DEF Claims
<1>a. NoSlot \notin Slots
  BY DEF NoSlot, Slots
<1>1. ASSUME NEW t \in Threads, FetchScanHint(t) PROVE Claims'
  <2>1. ps' = ps /\ in_use' = in_use
    BY Zenon, <1>1 DEF FetchScanHint, statVars, threadVars, poolVars
  <2>2. \A u \in Threads : pc'[u] \in Claiming <=> pc[u] \in Claiming
    BY Zenon, <1>1 DEF FetchScanHint, TypeOK, Claiming, threadVars
  <2>3. QED
    BY Zenon, <2>1, <2>2 DEF ClaimHasSlot, ClaimExclusive, FlagMatchesClaim
<1>2. ASSUME NEW t \in Threads, ClaimSlot(t) PROVE Claims'
  <2> DEFINE s == ScanIndex(t)
  <2>1. s \in Slots /\ in_use[s] = 0
    BY Zenon, <1>2, ScanIndexInSlots DEF ClaimSlot
  <2> HIDE DEF s
  <2>2. /\ in_use' = [in_use EXCEPT ![s] = 1]
        /\ ps' = [ps EXCEPT ![t] = s]
        /\ pc' = [pc EXCEPT ![t] = "claimed"]
    BY Zenon, <1>2 DEF ClaimSlot, s
  <2>3. \A u \in Threads : pc[u] \in Claiming => ps[u] # s
    BY <2>1 DEF FlagMatchesClaim
  <2>4. pc[t] \notin Claiming
    BY Zenon, <1>2 DEF ClaimSlot, Claiming
  <2>5. ClaimHasSlot'
    BY Zenon, <2>1, <2>2 DEF ClaimHasSlot, Claiming, TypeOK
  <2>6. ClaimExclusive'
    BY <2>2, <2>3 DEF ClaimExclusive, TypeOK
  <2>7. FlagMatchesClaim'
    <3> SUFFICES ASSUME NEW r \in Slots
                 PROVE  in_use'[r] = 1 <=> \E u \in Threads : pc'[u] \in Claiming /\ ps'[u] = r
      BY Zenon DEF FlagMatchesClaim
    <3>1. CASE r = s
      BY Zenon, <2>1, <2>2, <3>1 DEF TypeOK, Claiming
    <3>2. CASE r # s
      <4>1. in_use'[r] = in_use[r]
        BY Zenon, <2>2, <3>2 DEF TypeOK
      <4>2. \A u \in Threads : (pc'[u] \in Claiming /\ ps'[u] = r) <=> (pc[u] \in Claiming /\ ps[u] = r)
        BY Zenon, <2>2, <2>4, <3>2 DEF TypeOK
      <4>3. QED
        BY Zenon, <4>1, <4>2 DEF FlagMatchesClaim
    <3>3. QED
      BY Zenon, <3>1, <3>2
  <2>8. QED
    BY Zenon, <2>5, <2>6, <2>7
<1>3. ASSUME NEW t \in Threads, SkipBusySlot(t) PROVE Claims'
  <2>1. ps' = ps /\ in_use' = in_use
    BY Zenon, <1>3 DEF SkipBusySlot, statVars, threadVars, poolVars
  <2>2. \A u \in Threads : pc'[u] \in Claiming <=> pc[u] \in Claiming
    BY Zenon, <1>3 DEF SkipBusySlot, TypeOK, Claiming, threadVars
  <2>3. QED
    BY Zenon, <2>1, <2>2 DEF ClaimHasSlot, ClaimExclusive, FlagMatchesClaim
<1>4. ASSUME NEW t \in Threads, DropFailedSlot(t) PROVE Claims'
  <2> DEFINE s == ps[t]
  <2>1. pc[t] \in Claiming /\ s \in Slots
    BY Zenon, <1>4 DEF DropFailedSlot, Claiming, ClaimHasSlot
  <2>2. /\ in_use' = [in_use EXCEPT ![s] = 0]
        /\ ps' = [ps EXCEPT ![t] = NoSlot]
        /\ pc'[t] \notin Claiming
        /\ \A u \in Threads \ {t} : pc'[u] = pc[u] /\ ps'[u] = ps[u]
    BY Zenon, <1>4 DEF DropFailedSlot, TypeOK, Claiming
  <2>3. \A u \in Threads \ {t} : pc[u] \in Claiming => ps[u] # s
    BY Zenon, <2>1 DEF ClaimExclusive
  <2> HIDE DEF s
  <2>4. ClaimHasSlot'
    BY Zenon, <1>a, <2>2 DEF ClaimHasSlot, TypeOK
  <2>5. ClaimExclusive'
    BY Zenon, <2>2 DEF ClaimExclusive
  <2>6. FlagMatchesClaim'
    <3> SUFFICES ASSUME NEW r \in Slots
                 PROVE  in_use'[r] = 1 <=> \E u \in Threads : pc'[u] \in Claiming /\ ps'[u] = r
      BY Zenon DEF FlagMatchesClaim
    <3>1. CASE r = s
      BY <2>1, <2>2, <2>3, <3>1 DEF TypeOK
    <3>2. CASE r # s
      <4>1. in_use'[r] = in_use[r]
        BY Zenon, <2>2, <3>2 DEF TypeOK
      <4>2. \A u \in Threads : (pc'[u] \in Claiming /\ ps'[u] = r) <=> (pc[u] \in Claiming /\ ps[u] = r)
        BY Zenon, <2>2, <3>2 DEF s
      <4>3. QED
        BY Zenon, <4>1, <4>2 DEF FlagMatchesClaim
    <3>3. QED
      BY Zenon, <3>1, <3>2
  <2>7. QED
    BY Zenon, <2>4, <2>5, <2>6
<1>5. ASSUME NEW t \in Threads, ResetMemory(t) PROVE Claims'
  <2>1. ps' = ps /\ in_use' = in_use
    BY Zenon, <1>5 DEF ResetMemory, statVars, threadVars, poolVars
  <2>2. \A u \in Threads : pc'[u] \in Claiming <=> pc[u] \in Claiming
    BY Zenon, <1>5 DEF ResetMemory, TypeOK, Claiming, threadVars
  <2>3. QED
    BY Zenon, <2>1, <2>2 DEF ClaimHasSlot, ClaimExclusive, FlagMatchesClaim
<1>6. ASSUME NEW t \in Threads, ReturnSlot(t) PROVE Claims'
  <2>1. ps' = ps /\ in_use' = in_use
    BY Zenon, <1>6 DEF ReturnSlot, statVars, threadVars, poolVars
  <2>2. \A u \in Threads : pc'[u] \in Claiming <=> pc[u] \in Claiming
    BY Zenon, <1>6 DEF ReturnSlot, TypeOK, Claiming, threadVars
  <2>3. QED
    BY Zenon, <2>1, <2>2 DEF ClaimHasSlot, ClaimExclusive, FlagMatchesClaim
<1>7. ASSUME NEW t \in Threads, FallBack(t) PROVE Claims'
  <2>1. ps' = ps /\ in_use' = in_use
    BY Zenon, <1>7 DEF FallBack, statVars, threadVars, poolVars
  <2>2. \A u \in Threads : pc'[u] \in Claiming <=> pc[u] \in Claiming
    BY Zenon, <1>7 DEF FallBack, TypeOK, Claiming, threadVars
  <2>3. QED
    BY Zenon, <2>1, <2>2 DEF ClaimHasSlot, ClaimExclusive, FlagMatchesClaim
<1>8. ASSUME NEW t \in Threads, AttachContext(t) PROVE Claims'
  <2>1. ps' = ps /\ in_use' = in_use
    BY Zenon, <1>8 DEF AttachContext, statVars, threadVars, poolVars
  <2>2. \A u \in Threads : pc'[u] \in Claiming <=> pc[u] \in Claiming
    BY Zenon, <1>8 DEF AttachContext, TypeOK, Claiming, threadVars
  <2>3. QED
    BY Zenon, <2>1, <2>2 DEF ClaimHasSlot, ClaimExclusive, FlagMatchesClaim
<1>9. ASSUME NEW t \in Threads, GuestWrite(t) PROVE Claims'
  <2>1. ps' = ps /\ in_use' = in_use
    BY Zenon, <1>9 DEF GuestWrite, statVars, threadVars, poolVars
  <2>2. \A u \in Threads : pc'[u] \in Claiming <=> pc[u] \in Claiming
    BY Zenon, <1>9 DEF GuestWrite, TypeOK, Claiming, threadVars
  <2>3. QED
    BY Zenon, <2>1, <2>2 DEF ClaimHasSlot, ClaimExclusive, FlagMatchesClaim
<1>10. ASSUME NEW t \in Threads, GuestGrow(t) PROVE Claims'
  <2>1. ps' = ps /\ in_use' = in_use
    BY Zenon, <1>10 DEF GuestGrow, statVars, threadVars, poolVars
  <2>2. \A u \in Threads : pc'[u] \in Claiming <=> pc[u] \in Claiming
    BY Zenon, <1>10 DEF GuestGrow, TypeOK, Claiming, threadVars
  <2>3. QED
    BY Zenon, <2>1, <2>2 DEF ClaimHasSlot, ClaimExclusive, FlagMatchesClaim
<1>11. ASSUME NEW t \in Threads, ColdExecute(t) PROVE Claims'
  <2>1. ps' = ps /\ in_use' = in_use
    BY Zenon, <1>11 DEF ColdExecute, statVars, threadVars, poolVars
  <2>2. \A u \in Threads : pc'[u] \in Claiming <=> pc[u] \in Claiming
    BY Zenon, <1>11 DEF ColdExecute, TypeOK, Claiming, threadVars
  <2>3. QED
    BY Zenon, <2>1, <2>2 DEF ClaimHasSlot, ClaimExclusive, FlagMatchesClaim
<1>12. ASSUME NEW t \in Threads, DetachContext(t) PROVE Claims'
  <2>1. ps' = ps /\ in_use' = in_use
    BY Zenon, <1>12 DEF DetachContext, statVars, threadVars, poolVars
  <2>2. \A u \in Threads : pc'[u] \in Claiming <=> pc[u] \in Claiming
    BY Zenon, <1>12 DEF DetachContext, TypeOK, Claiming, threadVars
  <2>3. QED
    BY Zenon, <2>1, <2>2 DEF ClaimHasSlot, ClaimExclusive, FlagMatchesClaim
<1>13. ASSUME NEW t \in Threads, FreeSlot(t) PROVE Claims'
  <2> DEFINE s == ps[t]
  <2>1. pc[t] \in Claiming /\ s \in Slots
    BY Zenon, <1>13 DEF FreeSlot, Claiming, ClaimHasSlot
  <2>2. /\ in_use' = [in_use EXCEPT ![s] = 0]
        /\ ps' = [ps EXCEPT ![t] = NoSlot]
        /\ pc'[t] \notin Claiming
        /\ \A u \in Threads \ {t} : pc'[u] = pc[u] /\ ps'[u] = ps[u]
    BY Zenon, <1>13 DEF FreeSlot, TypeOK, Claiming
  <2>3. \A u \in Threads \ {t} : pc[u] \in Claiming => ps[u] # s
    BY Zenon, <2>1 DEF ClaimExclusive
  <2> HIDE DEF s
  <2>4. ClaimHasSlot'
    BY Zenon, <1>a, <2>2 DEF ClaimHasSlot, TypeOK
  <2>5. ClaimExclusive'
    BY Zenon, <2>2 DEF ClaimExclusive
  <2>6. FlagMatchesClaim'
    <3> SUFFICES ASSUME NEW r \in Slots
                 PROVE  in_use'[r] = 1 <=> \E u \in Threads : pc'[u] \in Claiming /\ ps'[u] = r
      BY Zenon DEF FlagMatchesClaim
    <3>1. CASE r = s
      BY <2>1, <2>2, <2>3, <3>1 DEF TypeOK
    <3>2. CASE r # s
      <4>1. in_use'[r] = in_use[r]
        BY Zenon, <2>2, <3>2 DEF TypeOK
      <4>2. \A u \in Threads : (pc'[u] \in Claiming /\ ps'[u] = r) <=> (pc[u] \in Claiming /\ ps[u] = r)
        BY Zenon, <2>2, <3>2 DEF s
      <4>3. QED
        BY Zenon, <4>1, <4>2 DEF FlagMatchesClaim
    <3>3. QED
      BY Zenon, <3>1, <3>2
  <2>7. QED
    BY Zenon, <2>4, <2>5, <2>6
<1>14. ASSUME NEW t \in Threads, CountRelease(t) PROVE Claims'
  <2>1. ps' = ps /\ in_use' = in_use
    BY Zenon, <1>14 DEF CountRelease, statVars, threadVars, poolVars
  <2>2. \A u \in Threads : pc'[u] \in Claiming <=> pc[u] \in Claiming
    BY Zenon, <1>14 DEF CountRelease, TypeOK, Claiming, threadVars
  <2>3. QED
    BY Zenon, <2>1, <2>2 DEF ClaimHasSlot, ClaimExclusive, FlagMatchesClaim
<1>15. CASE UNCHANGED vars
  BY Zenon, <1>15 DEF ClaimHasSlot, ClaimExclusive, FlagMatchesClaim, vars, poolVars, threadVars
<1>16. QED
  BY Zenon, <1>1, <1>2, <1>3, <1>4, <1>5, <1>6, <1>7, <1>8, <1>9, <1>10, <1>11, <1>12, <1>13, <1>14, <1>15 DEF Next, HostStep, RequestStep

-----------------------------------------------------------------------------
(* What the exclusive claims protect *)

\* Only the thread that runs a store writes its data pointer, and it resets it
\* before the claim is given up.
LEMMA NextContextPointer ==
  TypeOK /\ Claims /\ ContextPointer /\ [Next]_vars => ContextPointer'
<1> SUFFICES ASSUME TypeOK, Claims, ContextPointer, [Next]_vars
             PROVE  ContextPointer'
  OBVIOUS
<1> USE PoolAssumption DEF Claims
<1>1. ASSUME NEW t \in Threads, AttachContext(t) PROVE ContextPointer'
  <2>1. ps[t] \in Slots /\ pc[t] \in Claiming /\ pc[t] # "run"
    BY Zenon, <1>1 DEF AttachContext, ClaimHasSlot, Claiming
  <2>2. \A u \in Threads \ {t} : pc[u] = "run" => ps[u] # ps[t]
    BY Zenon, <2>1 DEF ClaimExclusive, Claiming
  <2>3. /\ data' = [data EXCEPT ![ps[t]] = t]
        /\ pc' = [pc EXCEPT ![t] = "run"]
        /\ ps' = ps
    BY Zenon, <1>1 DEF AttachContext
  <2>4. QED
    BY <2>1, <2>2, <2>3 DEF ContextPointer, TypeOK
<1>2. ASSUME NEW t \in Threads, DetachContext(t) PROVE ContextPointer'
  <2>1. ps[t] \in Slots /\ pc[t] \in Claiming /\ pc[t] = "run"
    BY Zenon, <1>2 DEF DetachContext, ClaimHasSlot, Claiming
  <2>2. \A u \in Threads \ {t} : pc[u] = "run" => ps[u] # ps[t]
    BY Zenon, <2>1 DEF ClaimExclusive, Claiming
  <2>3. /\ data' = [data EXCEPT ![ps[t]] = NoThread]
        /\ pc' = [pc EXCEPT ![t] = "cleared"]
        /\ ps' = ps
    BY Zenon, <1>2 DEF DetachContext
  <2>4. QED
    BY <2>1, <2>2, <2>3 DEF ContextPointer, TypeOK
<1>3. ASSUME data' = data,
             \A u \in Threads : pc'[u] = "run" <=> pc[u] = "run",
             \A u \in Threads : pc[u] = "run" => ps'[u] = ps[u]
      PROVE  ContextPointer'
  BY <1>3 DEF ContextPointer
<1>4. ASSUME NEW t \in Threads, HostStep(t) PROVE ContextPointer'
  <2>1. data' = data
    BY Zenon, <1>4 DEF HostStep, ClaimSlot, SkipBusySlot, DropFailedSlot, ResetMemory, ReturnSlot, FallBack, FreeSlot, CountRelease, poolVars
  <2>2. \A u \in Threads : pc'[u] = "run" <=> pc[u] = "run"
    BY <1>4 DEF HostStep, ClaimSlot, SkipBusySlot, DropFailedSlot, ResetMemory, ReturnSlot, FallBack, FreeSlot, CountRelease, TypeOK
  <2>3. \A u \in Threads : pc[u] = "run" => ps'[u] = ps[u]
    BY Zenon, <1>4 DEF HostStep, ClaimSlot, SkipBusySlot, DropFailedSlot, ResetMemory, ReturnSlot, FallBack, FreeSlot, CountRelease, TypeOK
  <2>4. QED
    BY Zenon, <1>3, <2>1, <2>2, <2>3
<1>5. ASSUME NEW t \in Threads, RequestStep(t) PROVE ContextPointer'
  <2>1. CASE FetchScanHint(t) \/ GuestWrite(t) \/ GuestGrow(t) \/ ColdExecute(t)
    <3>1. data' = data /\ ps' = ps
      BY Zenon, <2>1 DEF FetchScanHint, GuestWrite, GuestGrow, ColdExecute, poolVars, threadVars
    <3>2. \A u \in Threads : pc'[u] = "run" <=> pc[u] = "run"
      BY Zenon, <2>1 DEF FetchScanHint, GuestWrite, GuestGrow, ColdExecute, TypeOK, threadVars
    <3>3. QED
      BY Zenon, <1>3, <3>1, <3>2
  <2>2. QED
    BY Zenon, <1>1, <1>2, <1>5, <2>1 DEF RequestStep
<1>6. CASE UNCHANGED vars
  BY Zenon, <1>6 DEF ContextPointer, vars, poolVars, threadVars
<1>7. QED
  BY Zenon, <1>4, <1>5, <1>6 DEF Next

\* A claim turns into a hand-out only for an initialised slot.
LEMMA NextFailedNeverHeld ==
  TypeOK /\ FailedNeverHeld /\ [Next]_vars => FailedNeverHeld'
<1> SUFFICES ASSUME TypeOK, FailedNeverHeld, [Next]_vars,
                    NEW u \in Threads, pc'[u] \in Holding
             PROVE  ps'[u] \notin Failed
  BY Zenon DEF FailedNeverHeld
<1>1. ASSUME NEW t \in Threads, HostStep(t) PROVE ps'[u] \notin Failed
  BY <1>1 DEF HostStep, TypeOK, FailedNeverHeld, Holding, ClaimSlot, SkipBusySlot, DropFailedSlot, ResetMemory, ReturnSlot, FallBack, FreeSlot, CountRelease
<1>2. ASSUME NEW t \in Threads, RequestStep(t) PROVE ps'[u] \notin Failed
  BY Zenon, <1>2 DEF RequestStep, TypeOK, FailedNeverHeld, Holding, AttachContext,
       DetachContext, FetchScanHint, GuestWrite, GuestGrow, ColdExecute, threadVars
<1>3. CASE UNCHANGED vars
  BY Zenon, <1>3 DEF FailedNeverHeld, vars, threadVars
<1>4. QED
  BY Zenon, <1>1, <1>2, <1>3 DEF Next

\* From the restore to the return of acquire nobody touches the memory.
FreshlyRestored ==
  \A t \in Threads :
    pc[t] \in {"reset", "held"} => dirty[ps[t]] \cap SnapshotRegion = {}

\* The restore of an instance that starts as large as the snapshot never fails,
\* because memory does not shrink; no other thread writes to a claimed slot.
LEMMA NextFreshlyRestored ==
  ASSUME InitPages = SnapshotPages
  PROVE  TypeOK /\ Claims /\ FreshlyRestored /\ [Next]_vars => FreshlyRestored'
<1> SUFFICES ASSUME TypeOK, Claims, FreshlyRestored, [Next]_vars,
                    NEW u \in Threads, pc'[u] \in {"reset", "held"}
             PROVE  dirty'[ps'[u]] \cap SnapshotRegion = {}
  BY Zenon DEF FreshlyRestored
<1> USE PoolAssumption DEF Claims
<1>1. ASSUME NEW t \in Threads, ResetMemory(t)
      PROVE  dirty'[ps'[u]] \cap SnapshotRegion = {}
  <2>1. ps[t] \in Slots /\ pc[t] \in Claiming
    BY Zenon, <1>1 DEF ResetMemory, ClaimHasSlot, Claiming
  <2>2. dirty' = [dirty EXCEPT ![ps[t]] = @ \ SnapshotRegion]
    <3>1. size[ps[t]] \in Nat /\ ~(size[ps[t]] < SnapshotPages)
      BY <2>1 DEF TypeOK
    <3>2. QED
      BY Zenon, <1>1, <3>1 DEF ResetMemory, Restored
  <2>3. ps' = ps /\ pc' = [pc EXCEPT ![t] = "reset"]
    BY Zenon, <1>1 DEF ResetMemory
  <2>4. CASE u = t
    BY Zenon, <2>1, <2>2, <2>3, <2>4 DEF TypeOK
  <2>5. CASE u # t
    <3>1. pc[u] \in {"reset", "held"}
      BY Zenon, <2>3, <2>5 DEF TypeOK
    <3>2. ps[u] # ps[t] /\ ps[u] \in Slots
      BY Zenon, <2>1, <2>5, <3>1 DEF ClaimExclusive, ClaimHasSlot, Claiming
    <3>3. dirty'[ps[u]] = dirty[ps[u]]
      BY Zenon, <2>2, <3>2 DEF TypeOK
    <3>4. QED
      BY Zenon, <2>3, <3>1, <3>3 DEF FreshlyRestored
  <2>6. QED
    BY Zenon, <2>4, <2>5
<1>2. ASSUME NEW t \in Threads, GuestWrite(t)
      PROVE  dirty'[ps'[u]] \cap SnapshotRegion = {}
  <2>1. /\ pc[t] = "run" /\ ps' = ps /\ pc' = pc
        /\ \E p \in 1 .. size[ps[t]] : dirty' = [dirty EXCEPT ![ps[t]] = @ \cup {p}]
    BY Zenon, <1>2 DEF GuestWrite, threadVars
  <2>2. ps[u] # ps[t] /\ ps[u] \in Slots
    BY Zenon, <2>1 DEF ClaimExclusive, ClaimHasSlot, Claiming
  <2>3. dirty'[ps[u]] = dirty[ps[u]]
    BY Zenon, <2>1, <2>2 DEF TypeOK
  <2>4. QED
    BY Zenon, <2>1, <2>3 DEF FreshlyRestored
<1>3. ASSUME dirty' = dirty, ps'[u] = ps[u], pc[u] \in {"reset", "held"}
      PROVE  dirty'[ps'[u]] \cap SnapshotRegion = {}
  BY Zenon, <1>3 DEF FreshlyRestored
<1>4. ASSUME NEW t \in Threads, HostStep(t)
      PROVE  dirty'[ps'[u]] \cap SnapshotRegion = {}
  <2>1. CASE ClaimSlot(t) \/ SkipBusySlot(t) \/ DropFailedSlot(t) \/ ReturnSlot(t)
             \/ FallBack(t) \/ FreeSlot(t) \/ CountRelease(t)
    <3>1. dirty' = dirty
      BY Zenon, <2>1 DEF ClaimSlot, SkipBusySlot, DropFailedSlot, ReturnSlot, FallBack,
           FreeSlot, CountRelease, poolVars
    <3>2. ps'[u] = ps[u] /\ pc[u] \in {"reset", "held"}
      BY <2>1 DEF ClaimSlot, SkipBusySlot, DropFailedSlot, ReturnSlot, FallBack,
           FreeSlot, CountRelease, TypeOK
    <3>3. QED
      BY Zenon, <1>3, <3>1, <3>2
  <2>2. QED
    BY Zenon, <1>1, <1>4, <2>1 DEF HostStep
<1>5. ASSUME NEW t \in Threads, RequestStep(t)
      PROVE  dirty'[ps'[u]] \cap SnapshotRegion = {}
  <2>1. CASE FetchScanHint(t) \/ AttachContext(t) \/ GuestGrow(t) \/ ColdExecute(t)
             \/ DetachContext(t)
    <3>1. dirty' = dirty /\ ps' = ps
      BY Zenon, <2>1 DEF FetchScanHint, AttachContext, GuestGrow, ColdExecute,
           DetachContext, poolVars, threadVars
    <3>2. pc[u] \in {"reset", "held"}
      BY ZenonT(40), <2>1 DEF FetchScanHint, AttachContext, GuestGrow, ColdExecute,
           DetachContext, threadVars, TypeOK
    <3>3. QED
      BY Zenon, <1>3, <3>1, <3>2
  <2>2. QED
    BY Zenon, <1>2, <1>5, <2>1 DEF RequestStep
<1>6. CASE UNCHANGED vars
  BY Zenon, <1>3, <1>6 DEF vars, poolVars, threadVars
<1>7. QED
  BY Zenon, <1>4, <1>5, <1>6 DEF Next

-----------------------------------------------------------------------------
(* The inductive invariant and what follows from it *)

IInv ==
  /\ TypeOK
  /\ ScanBound
  /\ Claims
  /\ ContextPointer
  /\ FailedNeverHeld

\* IInv holds at the start and every step keeps it.
THEOREM IInvHolds == Spec => []IInv
<1>1. Init => IInv
  <2> SUFFICES ASSUME Init PROVE IInv
    OBVIOUS
  <2>1. TypeOK
    BY Zenon, InitType
  <2>2. ScanBound /\ FailedNeverHeld
    BY Zenon DEF Init, ScanBound, FailedNeverHeld, Holding
  <2>3. \A t \in Threads : pc[t] \notin Claiming /\ pc[t] # "run" /\ ps[t] = NoSlot
    BY Zenon DEF Init, Claiming
  <2>4. NoSlot \notin Slots
    BY PoolAssumption DEF NoSlot, Slots
  <2>5. Claims
    BY <2>3, <2>4 DEF Init, Claims, ClaimHasSlot, ClaimExclusive, FlagMatchesClaim
  <2>6. ContextPointer
    BY Zenon, <2>3, PoolAssumption DEF Init, ContextPointer
  <2>7. QED
    BY Zenon, <2>1, <2>2, <2>5, <2>6 DEF IInv
<1>2. IInv /\ [Next]_vars => IInv'
  BY Zenon, NextType, NextScanBound, NextClaims, NextContextPointer, NextFailedNeverHeld
     DEF IInv
<1>3. QED
  BY <1>1, <1>2, PTL DEF Spec

\* No two threads hold the same store: the compare-and-swap in acquire and the
\* flag release are enough, for every number of threads and slots.
THEOREM Exclusive == Spec => []SlotExclusive
<1>1. IInv => SlotExclusive
  BY Zenon DEF IInv, Claims, ClaimExclusive, SlotExclusive, Holding, Claiming
<1>2. QED
  BY <1>1, IInvHolds, PTL

\* The claim flags tell exactly which slots are claimed: none leaks and none is
\* freed under its holder.
THEOREM FlagsExact == Spec => []FlagMatchesClaim
<1>1. IInv => FlagMatchesClaim
  BY Zenon DEF IInv, Claims
<1>2. QED
  BY <1>1, IInvHolds, PTL

\* A store's data pointer is its running request's context and nothing else.
THEOREM ContextSafe == Spec => []ContextPointer
<1>1. IInv => ContextPointer
  BY Zenon DEF IInv
<1>2. QED
  BY <1>1, IInvHolds, PTL

\* A slot that failed to initialise is never handed out.
THEOREM FailedSafe == Spec => []FailedNeverHeld
<1>1. IInv => FailedNeverHeld
  BY Zenon DEF IInv
<1>2. QED
  BY <1>1, IInvHolds, PTL

\* If the module's initialisation did not grow its memory, acquire returns every
\* store with the snapshot's part of its memory restored.
THEOREM MemoryRestored ==
  ASSUME InitPages = SnapshotPages
  PROVE  Spec => []SnapshotRegionRestored
<1>1. Init => FreshlyRestored
  BY Zenon DEF Init, FreshlyRestored
<1>2. IInv /\ FreshlyRestored /\ [Next]_vars => FreshlyRestored'
  BY Zenon, NextFreshlyRestored DEF IInv
<1>3. FreshlyRestored => SnapshotRegionRestored
  BY Zenon DEF FreshlyRestored, SnapshotRegionRestored
<1>4. QED
  BY <1>1, <1>2, <1>3, IInvHolds, PTL DEF Spec

-----------------------------------------------------------------------------
(* The lock-free pool implements SlotPool *)

\* Exclusive claims determine the owner of a slot.
LEMMA OwnerIs ==
  ClaimExclusive =>
    \A s \in Slots :
      /\ \A t \in Threads : pc[t] \in Holding /\ ps[t] = s => Owner(s) = t
      /\ (\A t \in Threads : ~(pc[t] \in Holding /\ ps[t] = s)) => Owner(s) = NoThread
<1> SUFFICES ASSUME ClaimExclusive, NEW s \in Slots
             PROVE  /\ \A t \in Threads : pc[t] \in Holding /\ ps[t] = s => Owner(s) = t
                    /\ (\A t \in Threads : ~(pc[t] \in Holding /\ ps[t] = s)) => Owner(s) = NoThread
  OBVIOUS
<1>1. ASSUME NEW t \in Threads, pc[t] \in Holding, ps[t] = s
      PROVE  Owner(s) = t
  <2>1. \A u \in Threads : pc[u] \in Holding /\ ps[u] = s => u = t
    BY Zenon, <1>1 DEF ClaimExclusive, Holding, Claiming
  <2>2. QED
    BY Zenon, <1>1, <2>1 DEF Owner
<1>2. QED
  BY Zenon, <1>1 DEF Owner

\* While nobody takes or returns a slot, no slot changes its owner.
LEMMA OwnersKept ==
  ASSUME ClaimExclusive, ClaimExclusive',
         \A u \in Threads : pc'[u] \in Holding <=> pc[u] \in Holding,
         \A u \in Threads : pc[u] \in Holding => ps'[u] = ps[u]
  PROVE  \A s \in Slots : Owner(s)' = Owner(s)
<1> SUFFICES ASSUME NEW s \in Slots PROVE Owner(s)' = Owner(s)
  OBVIOUS
<1>1. OwnerIs!:
  BY Zenon, OwnerIs
<1>2. (OwnerIs!:)'
  BY OwnerIs, PTL
<1>3. QED
  BY Zenon, <1>1, <1>2

\* Every step of the lock-free pool is a checkout, a use or a return of SlotPool,
\* or changes nothing there.
LEMMA StepImplements ==
  ASSUME IInv, IInv', FreshlyRestored', [Next]_vars
  PROVE  [Pool!Next]_(Pool!slotVars)
<1> DEFINE Usable == Slots \ Failed
           Image(s) == IF dirty[s] \cap SnapshotRegion = {} THEN "snapshot" ELSE "used"
           own == [s \in Usable |-> Owner(s)]
           img == [s \in Usable |-> Image(s)]
           ownNext == [s \in Usable |-> Owner(s)']
           imgNext == [s \in Usable |-> Image(s)']
<1>a. TypeOK /\ TypeOK' /\ ClaimExclusive /\ ClaimExclusive' /\ ClaimHasSlot
  BY Zenon DEF IInv, Claims
<1>b. OwnerIs!:
  BY Zenon, OwnerIs
<1>c. (OwnerIs!:)'
  BY OwnerIs, PTL
<1>d. ASSUME \A s \in Usable : Owner(s)' = Owner(s), \A s \in Usable : Image(s)' = Image(s)
      PROVE  UNCHANGED Pool!slotVars
  BY Zenon, <1>d DEF Pool!slotVars
<1>1. ASSUME NEW t \in Threads, ResetMemory(t) PROVE Pool!Next
  <2>0. PICK s : s = ps[t]
    OBVIOUS
  <2>1. s \in Usable /\ pc[t] = "claimed"
    BY Zenon, <1>1, <1>a, <2>0 DEF ResetMemory, ClaimHasSlot, Claiming
  <2>2. /\ pc' = [pc EXCEPT ![t] = "reset"] /\ ps' = ps
        /\ dirty' = [dirty EXCEPT ![s] = Restored(size[s], @)]
    BY Zenon, <1>1, <2>0 DEF ResetMemory
  <2>3. Owner(s) = NoThread
    BY Zenon, <1>a, <1>b, <2>0, <2>1 DEF ClaimExclusive, Holding, Claiming
  <2>4. Owner(s)' = t
    BY ZenonT(40), <1>a, <1>c, <2>0, <2>1, <2>2 DEF TypeOK, Holding
  <2>5. \A r \in Usable \ {s} : Owner(r)' = Owner(r)
    BY <1>a, <1>b, <1>c, <2>0, <2>1, <2>2 DEF TypeOK, Holding
  <2>6. \A r \in Usable : Owner(r) # t
    <3> SUFFICES ASSUME NEW r \in Usable PROVE Owner(r) # t
      OBVIOUS
    <3>1. CASE \E u \in Threads : pc[u] \in Holding /\ ps[u] = r
      <4>1. PICK u \in Threads : pc[u] \in Holding /\ ps[u] = r
        BY Zenon, <3>1
      <4>2. Owner(r) = u
        BY Zenon, <1>a, <1>b, <4>1
      <4>3. QED
        BY Zenon, <2>1, <4>1, <4>2 DEF Holding
    <3>2. CASE \A u \in Threads : ~(pc[u] \in Holding /\ ps[u] = r)
      BY Zenon, <1>a, <1>b, <3>2, PoolAssumption
    <3>3. QED
      BY Zenon, <3>1, <3>2
  <2>7. Image(s)' = "snapshot"
    <3>1. dirty'[s] \cap SnapshotRegion = {}
      BY Zenon, <2>0, <2>2, <1>a DEF FreshlyRestored, TypeOK
    <3>2. QED
      BY Zenon, <3>1
  <2>8. \A r \in Usable \ {s} : Image(r)' = Image(r)
    BY Zenon, <2>1, <2>2, <1>a DEF TypeOK
  <2>9. Pool!Checkout(t, s)
    <3>1. ownNext = [own EXCEPT ![s] = t]
      BY Zenon, <2>1, <2>4, <2>5
    <3>2. imgNext = [img EXCEPT ![s] = "snapshot"]
      BY Zenon, <2>1, <2>7, <2>8
    <3>3. QED
      BY Zenon, <2>1, <2>3, <2>6, <3>1, <3>2 DEF Pool!Checkout
  <2>10. QED
    BY Zenon, <2>1, <2>9 DEF Pool!Next
<1>2. ASSUME NEW t \in Threads, FreeSlot(t) PROVE Pool!Next
  <2>0. PICK s : s = ps[t]
    OBVIOUS
  <2>1. s \in Slots /\ pc[t] = "cleared"
    BY Zenon, <1>2, <1>a, <2>0 DEF FreeSlot, ClaimHasSlot, Claiming
  <2>2. s \in Usable
    BY Zenon, <2>0, <2>1 DEF IInv, FailedNeverHeld, Holding
  <2>3. /\ pc' = [pc EXCEPT ![t] = "freed"] /\ ps' = [ps EXCEPT ![t] = NoSlot]
        /\ dirty' = dirty
    BY Zenon, <1>2 DEF FreeSlot
  <2>4. Owner(s) = t
    BY Zenon, <1>a, <1>b, <2>0, <2>1 DEF Holding
  <2>5. \A u \in Threads : ~(pc'[u] \in Holding /\ ps'[u] = s)
    <3>1. \A u \in Threads \ {t} : pc[u] \in Holding => ps[u] # s
      BY Zenon, <1>a, <2>0, <2>1 DEF ClaimExclusive, Holding, Claiming
    <3>2. QED
      BY Zenon, <1>a, <2>3, <3>1 DEF TypeOK, Holding
  <2>6. Owner(s)' = NoThread
    BY Zenon, <1>a, <1>c, <2>1, <2>5
  <2>7. \A r \in Usable \ {s} : Owner(r)' = Owner(r)
    <3> SUFFICES ASSUME NEW r \in Usable \ {s} PROVE Owner(r)' = Owner(r)
      OBVIOUS
    <3>1. \A u \in Threads : (pc'[u] \in Holding /\ ps'[u] = r) <=> (pc[u] \in Holding /\ ps[u] = r)
      BY Zenon, <1>a, <2>0, <2>3, PoolAssumption DEF TypeOK, Holding, NoSlot, Slots
    <3>2. QED
      BY Zenon, <1>a, <1>b, <1>c, <3>1
  <2>8. \A r \in Usable : Image(r)' = Image(r)
    BY Zenon, <2>3
  <2>9. Pool!Return(t, s)
    <3>1. ownNext = [own EXCEPT ![s] = NoThread]
      BY Zenon, <2>2, <2>6, <2>7
    <3>2. imgNext = img
      BY Zenon, <2>8
    <3>3. QED
      BY Zenon, <2>2, <2>4, <3>1, <3>2 DEF Pool!Return
  <2>10. QED
    BY Zenon, <2>2, <2>9 DEF Pool!Next
<1>3. ASSUME NEW t \in Threads, GuestWrite(t) PROVE [Pool!Next]_(Pool!slotVars)
  <2>0. PICK s : s = ps[t]
    OBVIOUS
  <2>1. s \in Slots /\ pc[t] = "run"
    BY Zenon, <1>3, <1>a, <2>0 DEF GuestWrite, ClaimHasSlot, Claiming
  <2>2. s \in Usable
    BY Zenon, <2>0, <2>1 DEF IInv, FailedNeverHeld, Holding
  <2>3. pc' = pc /\ ps' = ps
    BY Zenon, <1>3 DEF GuestWrite, threadVars
  <2>4. PICK p \in 1 .. size[s] : dirty' = [dirty EXCEPT ![s] = @ \cup {p}]
    BY Zenon, <1>3, <2>0 DEF GuestWrite
  <2>5. Owner(s) = t
    BY Zenon, <1>a, <1>b, <2>0, <2>1 DEF Holding
  <2>6. \A r \in Usable : Owner(r)' = Owner(r)
    BY Zenon, <2>3, <1>a, OwnersKept
  <2>7. \A r \in Usable \ {s} : Image(r)' = Image(r)
    BY Zenon, <2>1, <2>4, <1>a DEF TypeOK
  <2>8. CASE Image(s)' = Image(s)
    BY Zenon, <1>d, <2>6, <2>7, <2>8
  <2>9. CASE Image(s)' # Image(s)
    <3>1. Image(s)' = "used"
      <4>1. dirty[s] \subseteq dirty'[s]
        BY Zenon, <2>1, <2>4, <1>a DEF TypeOK
      <4>2. QED
        BY Zenon, <2>9, <4>1
    <3>2. imgNext = [img EXCEPT ![s] = "used"]
      BY Zenon, <2>2, <2>7, <3>1
    <3>3. ownNext = own
      BY Zenon, <2>6
    <3>4. Pool!Use(t, s)
      BY Zenon, <2>2, <2>5, <3>2, <3>3 DEF Pool!Use
    <3>5. QED
      BY Zenon, <2>2, <3>4 DEF Pool!Next
  <2>10. QED
    BY Zenon, <2>8, <2>9
<1>4. ASSUME NEW t \in Threads,
             \/ ClaimSlot(t) \/ SkipBusySlot(t) \/ DropFailedSlot(t) \/ ReturnSlot(t)
             \/ FallBack(t) \/ CountRelease(t) \/ FetchScanHint(t) \/ AttachContext(t)
             \/ GuestGrow(t) \/ ColdExecute(t) \/ DetachContext(t)
      PROVE  UNCHANGED Pool!slotVars
  <2> USE DEF ClaimSlot, SkipBusySlot, DropFailedSlot, ReturnSlot, FallBack,
        CountRelease, FetchScanHint, AttachContext, GuestGrow, ColdExecute,
        DetachContext
  <2>1. dirty' = dirty
    BY ZenonT(40), <1>4 DEF poolVars
  <2>2. \A u \in Threads : pc'[u] \in Holding <=> pc[u] \in Holding
    BY <1>4, <1>a DEF TypeOK, Holding, threadVars
  <2>3. \A u \in Threads : pc[u] \in Holding => ps'[u] = ps[u]
    BY Zenon, <1>4, <1>a DEF TypeOK, Holding, threadVars
  <2>4. \A r \in Slots : Owner(r)' = Owner(r)
    BY Zenon, <1>a, <2>2, <2>3, OwnersKept
  <2>5. QED
    BY Zenon, <1>d, <2>1, <2>4
<1>5. CASE UNCHANGED vars
  <2>1. dirty' = dirty /\ pc' = pc /\ ps' = ps
    BY Zenon, <1>5 DEF vars, poolVars, threadVars
  <2>2. \A r \in Slots : Owner(r)' = Owner(r)
    BY Zenon, <1>a, <2>1, OwnersKept
  <2>3. QED
    BY Zenon, <1>d, <2>1, <2>2
<1>6. QED
  BY Zenon, <1>1, <1>2, <1>3, <1>4, <1>5 DEF Next, HostStep, RequestStep

\* A module whose initialisation does not grow its memory gets what SlotPool
\* promises: exclusive stores whose snapshotted memory is fresh at every checkout.
THEOREM Implementation ==
  ASSUME InitPages = SnapshotPages
  PROVE  Spec => ImplementsSlotPool
<1>1. Init => Pool!Init
  <2> SUFFICES ASSUME Init PROVE Pool!Init
    OBVIOUS
  <2>1. \A s \in Slots : Owner(s) = NoThread
    BY Zenon DEF Init, Owner, Holding
  <2>2. \A s \in Slots : dirty[s] \cap SnapshotRegion = {}
    BY PoolAssumption DEF Init, Restored, SnapshotRegion
  <2>3. QED
    BY Zenon, <2>1, <2>2 DEF Pool!Init
<1>2. Init => FreshlyRestored
  BY Zenon DEF Init, FreshlyRestored
<1>3. IInv /\ FreshlyRestored /\ [Next]_vars => FreshlyRestored'
  BY Zenon, NextFreshlyRestored DEF IInv
<1>4. IInv /\ IInv' /\ FreshlyRestored' /\ [Next]_vars => [Pool!Next]_(Pool!slotVars)
  BY Zenon, StepImplements
<1>5. QED
  BY <1>1, <1>2, <1>3, <1>4, IInvHolds, PTL DEF Spec, ImplementsSlotPool, Pool!Spec

=============================================================================
