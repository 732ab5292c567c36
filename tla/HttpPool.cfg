\* Two workers and two upstreams: reuse, eviction and overflow all happen.
SPECIFICATION Spec
CONSTANTS
  w1 = w1  w2 = w2  u1 = u1  u2 = u2
  f1 = f1  f2 = f2  f3 = f3
  Workers <- TwoWorkers
  Upstreams <- TwoUpstreams
  MaxConns = 2
  Fds <- ThreeFds
  MaxTime = 1
SYMMETRY Symmetry
INVARIANTS
  ConnExclusive NothingLost
CHECK_DEADLOCK FALSE
