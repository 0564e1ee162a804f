SPECIFICATION FairSpec
CONSTANTS
  Entry = 6
  MaxPrice = 9
  Quotes = {4, 6, 8, 9}
  SlPct = 20
  ActivatePct = 50
  GapPct = 15
  MaxOrders = 3
  Disturbances = {"read", "place", "modify", "round", "drop", "user", "crash"}
  MaxDisturbances = 2
INVARIANTS TypeOK TrailLeavesRoom
PROPERTIES FloorNeverFalls TighterIsAdopted
CHECK_DEADLOCK FALSE
