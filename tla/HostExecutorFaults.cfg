SPECIFICATION FairSpec
CONSTANTS
  Workers = {w1, w2}
  MaxExperts = 1
  ChunksA = 2
  ChunksB = 1
  MaxJobs = 3
  MaxDropped = 1
  MayPanic = TRUE
  MayAbandon = TRUE
PROPERTIES SyncReturns ImplementsForkJoin
CHECK_DEADLOCK FALSE
