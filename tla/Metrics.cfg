\* Three threads, three names and room for two of them; values of two bits.
SPECIFICATION Spec
CONSTANTS
  t1 = t1  t2 = t2  t3 = t3  n1 = n1  n2 = n2  n3 = n3  none = none
  Threads <- ThreeThreads
  Names <- ThreeNames
  NoName = none
  MaxMetrics = 2
  Half = 2
CONSTRAINT BeforeTheRace
SYMMETRY Symmetry
INVARIANTS
  NoUpdateLost IdNamesOneMetric JsonOfOneMoment
