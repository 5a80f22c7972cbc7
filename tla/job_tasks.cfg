SPECIFICATION Spec
CONSTANTS
  TotalChunks = 2
  c1 = c1
  c2 = c2
  d1 = d1
  s1 = s1
  ChunkWorkers = {c1, c2}
  DefaultWorkers = {d1}
  Operators = {}
  SkippingChunks = {1}
  MaxRetries = 1
  MaxCopies = 1
  MaxFaults = 2
  CrashAt <- AllPCs
  RaiseAt <- RaisePCs
  PermanentFailures = TRUE
  SlowHolders = FALSE
  Abandons = FALSE
  Sweeps = FALSE
  ManualRetries = FALSE
  HitLiveJobs = FALSE
SYMMETRY WorkerSymmetry
INVARIANTS TypeOK OneWorkerPerChunk SkipsCountedOnce ChunkTasksHaveInput
\* The job ends DONE, or is left to a human.
CHECK_DEADLOCK FALSE
