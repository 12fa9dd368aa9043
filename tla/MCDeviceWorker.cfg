SPECIFICATION Spec
CONSTANTS
  w1 = w1
  w2 = w2
  m1 = m1
  m2 = m2
  d1 = d1
  d2 = d2
  Worker = {w1, w2}
  Pairings <- MCPairings
  Port = {p1}
  Mnemonic = {m1, m2}
  Descriptor = {d1, d2}
  Requests <- MCRequests
  NoValue = NoValue
  MaxEmulators = 2
  MaxRequests = 3
  MaxFaults = 2
INVARIANTS
  TypeOK
  SignsWithRequestKeys
  GoneLeavesNothing
PROPERTY
  OrphanEnds
CHECK_DEADLOCK FALSE
