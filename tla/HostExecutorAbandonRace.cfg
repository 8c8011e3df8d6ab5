SPECIFICATION Spec
CONSTANTS
  Workers = {w1, w2}
  MaxExperts = 2
  ChunksA = 2
  ChunksB = 1
  MaxJobs = 2
  MaxDropped = 2
  MayPanic = FALSE
  MayAbandon = TRUE
INVARIANTS
  JobExclusive
