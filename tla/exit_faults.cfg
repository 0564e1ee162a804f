SPECIFICATION Spec
CONSTANTS
  NoTrade = NoTrade
  t1 = t1
  t2 = t2
  r1 = r1
  r2 = r2
  k1 = k1
  k2 = k2
  Trades <- OneTrade
  Reconcilers <- OneRecon
  KillThreads <- OneKill
  MaxOrders = 3
  Disturbances <- AllDisturbances
  MaxDisturbances = 1
INVARIANTS TypeOK ReconClosesOnlyGone StoppedOutMeansFilled
CHECK_DEADLOCK FALSE
