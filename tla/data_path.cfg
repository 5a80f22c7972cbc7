SPECIFICATION Spec
CONSTANTS
  Jobs <- SomeJobs
  Sheets <- SomeSheets
  NoFields <- Deleted
  Sparse = {"Address"}
  LastVersion = 3
  TargetChunks = 2
  MinSize = 4
  MaxSize = 5
  w1 = w1
  w2 = w2
  Workers = {w1}
  Strangers = {w2}
  MaxEdits = 1
  CacheTTL = 2
  MaxLag = 1
INVARIANTS TypeOK SplitMatchesCount RowsInOrder ChunksAreInvisible CopiesAreRecent
CHECK_DEADLOCK FALSE
