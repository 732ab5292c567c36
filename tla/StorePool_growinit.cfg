\* The initialisation that was snapshotted grew the memory by a page, so that the snapshot is larger
\* than the memory of a fresh slot.
SPECIFICATION Spec
CONSTANTS
  t1 = t1  t2 = t2
  Threads <- TwoThreads
  NoThread = NoThread
  Capacity = 2
  Failed <- NoneFailed
  HintModulus = 4
  InitPages = 1
  SnapshotPages = 2
  MaxPages = 2
  MaxAcquires = 3
INVARIANTS SnapshotRegionRestored
CHECK_DEADLOCK FALSE
