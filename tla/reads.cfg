SPECIFICATION Spec
CONSTANTS
  Threads <- TwoThreads
  Caches <- BookAndQuotes
  Ttl <- ShortTtl
  a = a
  b = b
  Latency = 1
  Interval = 2
  MaxNow = 3
  MaxOrders = 1
  MaxLogins = 1
INVARIANTS TypeOK OwnOrdersSeen RestartKeepsLogin
PROPERTIES ServesBounded GateSpaced
SYMMETRY Symmetry
CHECK_DEADLOCK FALSE
