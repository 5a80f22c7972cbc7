SPECIFICATION ReportFairSpec
CONSTANTS
  TotalChunks = 2
  c1 = c1
  d1 = d1
  s1 = s1
  p1 = p1
  ChunkWorkers = {c1}
  DefaultWorkers = {d1}
  Operators = {s1}
  SkippingChunks = {1, 2}
  MaxRetries = 0
  MaxCopies = 1
  MaxFaults = 1
  CrashAt <- CrashPCs
  RaiseAt <- RaisePCs
  PermanentFailures = FALSE
  SlowHolders = FALSE
  Abandons = TRUE
  Sweeps = TRUE
  ManualRetries = TRUE
  HitLiveJobs = FALSE
  Pages = {p1}
  ShortTTL = 1
  LongTTL = 2
  MaxLag = 1
INVARIANTS ReportTypeOK StaleOnlyByRace StaleForAWhile DownloadsAreWhole
PROPERTIES PollingEnds
