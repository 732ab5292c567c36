\* Three slots, one never initialised; the hint wraps at 4, which 3 does not divide;
\* memory can grow by one page.
SPECIFICATION FairSpec
CONSTANTS
  t1 = t1  t2 = t2
  Threads <- TwoThreads
  NoThread = NoThread
  Capacity = 3
  Failed <- Slot1Failed
  HintModulus = 4
  InitPages = 1
  SnapshotPages = 1
  MaxPages = 2
  MaxAcquires = 4
INVARIANTS
  SlotExclusive ContextPointer FailedNeverHeld
  SnapshotRegionRestored
PROPERTIES ImplementsSlotPool AcquireTerminates
CHECK_DEADLOCK FALSE
