SPECIFICATION Spec
CONSTANTS
  NoLead = NoLead
  l1 = l1
  l2 = l2
  Leads <- OneLead
  Underlying <- SameUnderlying
  Qty = 2
  MaxBuys = 3
  Disturbances <- NoDisturbance
  MaxDisturbances = 1
INVARIANTS NoOrphan
CHECK_DEADLOCK FALSE
