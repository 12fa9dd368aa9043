CONSTANTS
  gen = gen
  ext = ext
  Entries <- MCEntries
  ExpectationFiles <- MCExpectationFiles
  MaxChecks = 2
SPECIFICATION Spec
INVARIANTS
  DoneCasesAreReported
CHECK_DEADLOCK FALSE
