SPECIFICATION FairSpec
CONSTANTS
  NoLead = NoLead
  l1 = l1
  l2 = l2
  Leads <- TwoLeads
  Underlying <- SameUnderlying
  Qty = 2
  MaxBuys = 4
  Disturbances <- AllDisturbances
  MaxDisturbances = 1
INVARIANTS TypeOK OneOpenPerUnderlying TradeBacked
PROPERTIES LeadsAreDecided DeskAsPromised
CHECK_DEADLOCK FALSE
