SPECIFICATION Spec
CONSTANTS
  NoTrade = NoTrade
  t1 = t1
  t2 = t2
  r1 = r1
  r2 = r2
  k1 = k1
  k2 = k2
  Trades <- TwoTrades
  Reconcilers <- OneRecon
  KillThreads <- NoThreads
  MaxOrders = 4
  Disturbances <- StopLossTrouble
  MaxDisturbances = 2
INVARIANTS SellsCovered
PROPERTIES ClosedStaysClosed
SYMMETRY Symmetry
CHECK_DEADLOCK FALSE
