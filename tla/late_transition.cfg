SPECIFICATION Spec
CONSTANTS
  r1 = r1
  r2 = r2
  Requests = {r1, r2}
  MaxFields = 1
  MaxMappings = 1
  SeedRuns = FALSE
PROPERTIES StatusFollowsTable
