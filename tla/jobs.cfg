SPECIFICATION FairSpec
CONSTANTS
  MaxJobs = 3
  MaxTicks = 1
  MaxRetained = 2
  Instruments = 2
  LeadCap = 2
  MaxPerScan = 2
INVARIANTS TypeOK StopIsForActive FreshList
PROPERTIES JobsAsPromised
CHECK_DEADLOCK FALSE
