CONSTANTS
  a = a
  b = b
  c = c
  v1 = v1
  v2 = v2
  w1 = w1
  w2 = w2
  w3 = w3
  k1 = k1
  k2 = k2
  NoKey = NoKey
  KeyData = {k1, k2}
  Stack <- MCStack
  inputs = inputs
  outputs = outputs
  Absent = Absent
  NoOne = NoOne
  Signer = {a, b, c}
  Slot <- MCSlot
  Value <- MCValue
  Flag <- MCFlag
  InitialPsbts <- MCInitialPsbts
  Changes <- MCChanges
  Scenarios <- MCScenarios
SPECIFICATION Spec
INVARIANT
  SignedOnlyByOwner
CHECK_DEADLOCK FALSE
