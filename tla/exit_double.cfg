SPECIFICATION Spec
CONSTANTS
  NoTrade = NoTrade
  t1 = t1
  t2 = t2
  r1 = r1
  r2 = r2
  k1 = k1
  k2 = k2
  Trades <- OneTrade
  Reconcilers <- NoThreads
  KillThreads <- NoThreads
  MaxOrders = 4
  Disturbances <- OnlySession
  MaxDisturbances = 1
INVARIANTS NoDoubleExit
CHECK_DEADLOCK FALSE
