SPECIFICATION Spec
CONSTANTS
  r1 = r1
  r2 = r2
  Requests = {r1, r2}
  MaxFields = 2
  MaxMappings = 1
  SeedRuns = TRUE
SYMMETRY RequestSymmetry
INVARIANTS TypeOK FieldsFormAForest
PROPERTIES ReadOnlyOncePublished
