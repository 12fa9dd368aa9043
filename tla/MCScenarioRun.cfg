CONSTANTS
  a = a
  b = b
  Scenarios <- MCScenarios
  MaxInterrupts = 2
SPECIFICATION Spec
INVARIANTS
  TypeOK
  EvidenceIsEarned
  PassIsEvidence
  NoWorkerLeft
  ManifestUnlessInterrupted
CHECK_DEADLOCK FALSE
