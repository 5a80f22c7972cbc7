SPECIFICATION Spec
CONSTANTS
  TotalChunks = 2
  c1 = c1
  c2 = c2
  d1 = d1
  s1 = s1
  ChunkWorkers = {c1, c2}
  DefaultWorkers = {d1}
  Operators = {s1}
  SkippingChunks = {}
  MaxRetries = 0
  MaxCopies = 1
  MaxFaults = 1
  CrashAt <- NoPCs
  RaiseAt <- NoPCs
  PermanentFailures = FALSE
  SlowHolders = TRUE
  Abandons = FALSE
  Sweeps = TRUE
  ManualRetries = FALSE
  HitLiveJobs = TRUE
SYMMETRY WorkerSymmetry
INVARIANTS DoneIsComplete
\* The job ends DONE, or is left to a human.
CHECK_DEADLOCK FALSE
