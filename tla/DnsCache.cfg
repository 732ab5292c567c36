\* Two workers, three hosts and room for two of them.
SPECIFICATION DnsSpec
CONSTANTS
  w1 = w1  w2 = w2  w3 = w3  h1 = h1  h2 = h2  h3 = h3  p1 = p1  p2 = p2
  Workers <- TwoWorkers
  Hosts <- ThreeHosts
  Ports <- TwoPorts
  Capacity = 2
  Ttl = 2
  MaxTime = 2
SYMMETRY Symmetry
INVARIANTS
  AnswerFresh OneEntryPerHost
PROPERTY OnlyFirstEvicted
