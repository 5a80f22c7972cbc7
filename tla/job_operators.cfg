SPECIFICATION Spec
CONSTANTS
  TotalChunks = 2
  c1 = c1
  c2 = c2
  d1 = d1
  s1 = s1
  ChunkWorkers = {c1, c2}
  DefaultWorkers = {d1}
  Operators = {s1}
  SkippingChunks = {}
  MaxRetries = 0
  MaxCopies = 1
  MaxFaults = 2
  CrashAt <- SomeCrashes
  RaiseAt <- SomeRaises
  PermanentFailures = TRUE
  SlowHolders = FALSE
  Abandons = TRUE
  Sweeps = TRUE
  ManualRetries = TRUE
  HitLiveJobs = TRUE
SYMMETRY WorkerSymmetry
INVARIANTS DoneIsComplete IInv PartialHasFailures
PROPERTIES ChunkTasksSpareTerminalJobs FailuresStayVisible ImplementsOutcome
\* The job ends DONE, or is left to a human.
CHECK_DEADLOCK FALSE
