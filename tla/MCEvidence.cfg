SPECIFICATION Spec
CONSTANTS
  a = a
  b = b
  r1 = r1
  r2 = r2
  Stranger = Stranger
  NoValue = NoValue
  Name = {a, b}
  Recipient = {r1, r2}
  Scenarios <- MCScenarios
  Approvals <- MCApprovals
  MaxDeviations = 2
INVARIANTS
  EvidencePays
  EvidenceIsProven
  
  HonestRunIsEvidence
CHECK_DEADLOCK FALSE
