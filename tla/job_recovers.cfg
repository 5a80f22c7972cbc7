SPECIFICATION FairSpec
CONSTANTS
  TotalChunks = 2
  c1 = c1
  c2 = c2
  d1 = d1
  s1 = s1
  ChunkWorkers = {c1, c2}
  DefaultWorkers = {d1}
  Operators = {s1}
  SkippingChunks = {1}
  MaxRetries = 1
  MaxCopies = 1
  MaxFaults = 1
  CrashAt <- OtherPCs
  RaiseAt <- OtherRaises
  PermanentFailures = FALSE
  SlowHolders = FALSE
  Abandons = FALSE
  Sweeps = TRUE
  ManualRetries = FALSE
  HitLiveJobs = FALSE
PROPERTIES EventuallyDone
\* The job ends DONE, or is left to a human.
CHECK_DEADLOCK FALSE
