\* One VCL, loaded, used and discarded, with one of two modules: one exports both
\* proxy_on_tick and _initialize, the other neither.  A tick period is set twice.
SPECIFICATION FairSpec
CONSTANTS
  v1 = v1  m1 = m1  m2 = m2  w1 = w1  t1 = t1  t2 = t2
  Vcls <- OneVcl
  Modules <- TwoModules
  Ticking <- OneModule
  Reactors <- OneModule
  Workers <- OneWorker
  Timers <- TwoTimers
  MaxModules = 1
  MaxPools = 2
  MaxSets = 2
INVARIANTS
  ThreadsEndFirst NothingLeft OneTimer
PROPERTIES JoinsEnd
CHECK_DEADLOCK FALSE
