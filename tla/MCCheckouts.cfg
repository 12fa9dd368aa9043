CONSTANTS
  a = a
  b = b
  Names <- MCNames
  Fetcher = {f, g}
  MaxRevision = 2
  MaxFailures = 2
SPECIFICATION Spec
INVARIANTS
  TypeOK
  InterruptedFetchLeavesNoHalf
  LeftoverNeverBlocks
  DoneMeansAtPins
CHECK_DEADLOCK FALSE
