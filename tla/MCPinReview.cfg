CONSTANTS
  bip375 = bip375
  musig2 = musig2
  live = live
  Profile <- MCProfile
  Live = live
  Pinnable <- MCPinnable
  MuSig2 <- MCMuSig2
  Project = {harness, jade}
  Harness = harness
  Baseline = {lock1, lock2}
  MaxCases = 1
  MaxCommits = 1
  MaxStray = 0
SPECIFICATION Spec
INVARIANTS
  PinsWhatWasReviewed
CHECK_DEADLOCK FALSE
