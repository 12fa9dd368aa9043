CONSTANTS
  MaxStarts = 2
  MaxRequests = 3
  MaxNoise = 1
SPECIFICATION FairSpec
INVARIANTS
  TypeOK
  ReplyAnswersRequest
  NothingLeftUnsignalled
PROPERTIES
  CallsReturn
  StoppedGroupDies
CHECK_DEADLOCK FALSE
