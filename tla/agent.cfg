SPECIFICATION FairSpec
CONSTANTS
  Instruments <- TwoInstruments
  Calls <- TwoCalls
  Batches <- SomeBatches
  Finals <- SomeFinals
  x = x
  y = y
  c = c
  d = d
  Close = 200
  Divergence = 5
  MinConfidence = 70
  MaxWorkers = 2
  MaxIters = 2
  MaxDuplicates = 1
  MaxRetries = 1
INVARIANTS TypeOK TurnsAnswered NoDrift StatsCredible
PROPERTIES AllEnd
CHECK_DEADLOCK FALSE
