CONSTANTS
  gen = gen
  ext = ext
  Entries <- MCEntries
  ExpectationFiles <- MCExpectationFiles
  MaxChecks = 3
SPECIFICATION Spec
INVARIANTS
  TypeOK
  ExitZeroMeansNoRegression
  SteadyMeansUnchanged
  ExitHasReport
CHECK_DEADLOCK FALSE
