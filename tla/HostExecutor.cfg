SPECIFICATION FairSpec
CONSTANTS
  Workers = {w1, w2, w3}
  MaxExperts = 2
  ChunksA = 2
  ChunksB = 1
  MaxJobs = 2
  MaxDropped = 0
  MayPanic = FALSE
  MayAbandon = FALSE
INVARIANTS JobExclusive NoTaskTwice BarrierHolds
PROPERTIES ImplementsForkJoin DropJoins
