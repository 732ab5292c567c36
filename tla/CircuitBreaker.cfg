\* Two upstreams compete for one breaker.
SPECIFICATION FairSpec
CONSTANTS
  w1 = w1  w2 = w2  u1 = u1  u2 = u2
  Workers <- TwoWorkers
  Upstreams <- TwoUpstreams
  MaxBreakers = 1
  Threshold = 2
  HalfOpenTimeout = 2
  CountModulus = 4
  MaxTime = 4
INVARIANTS UntrackedServed ClosedBelowThreshold HalfOpenHasProbe
PROPERTIES LegalTransitions ProbeDecides
CHECK_DEADLOCK FALSE
