CONSTANTS
  a = a
  b = b
  Names <- MCNames
  Fetcher = {f, g}
  MaxRevision = 2
  MaxFailures = 1
SPECIFICATION Spec
INVARIANTS
  NoHalfAtFinalPath
CHECK_DEADLOCK FALSE
