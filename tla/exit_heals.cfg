SPECIFICATION FairSpec
CONSTANTS
  NoTrade = NoTrade
  t1 = t1
  t2 = t2
  r1 = r1
  r2 = r2
  k1 = k1
  k2 = k2
  Trades <- OneTrade
  Reconcilers <- OneRecon
  KillThreads <- NoThreads
  MaxOrders = 6
  Disturbances <- AllDisturbances
  MaxDisturbances = 2
PROPERTIES FilledStopIsRecorded SessionEndCloses NakedIsHealed
CHECK_DEADLOCK FALSE
