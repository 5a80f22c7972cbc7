SPECIFICATION FairSpec
CONSTANTS
  r1 = r1
  r2 = r2
  r3 = r3
  Requests = {r1, r2, r3}
  ReservationTTL = 3
  MaxStage = 2
  SlowRequests = FALSE
  CrashAt <- OtherPCs
  RaiseAt <- OtherPCs
  MaxFaults = 2
INVARIANTS SubmissionInv OneJobPerWindow PlaceholderHasHolder
PROPERTIES EveryRequestEnds
\* Every request ends.
CHECK_DEADLOCK FALSE
