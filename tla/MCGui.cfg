CONSTANTS
  bip375 = bip375
  musig2 = musig2
  live = live
  Profile <- MCProfile
  Live = live
  Pinnable <- MCPinnable
  MuSig2 <- MCMuSig2
  Project = {harness, jade}
  Harness = harness
  Baseline = {lock1, lock2}
  MaxCases = 1
  MaxCommits = 1
  MaxStray = 1
SPECIFICATION FairSpec
INVARIANTS
  TypeOK
  ShownBelongsToChoice
  NothingAfterFinished
  PinFollowsReview
PROPERTIES
  OnlyACommandHoldsTheWindow
CHECK_DEADLOCK FALSE
