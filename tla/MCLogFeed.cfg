SPECIFICATION FairSpec
CONSTANTS
  LOG_CAPACITY = 2
  PAGE_LIMIT = 1
  TAB_CAPACITY = 2
  MaxSequence = 3
  MaxInstance = 2
  MaxGeneration = 4
INVARIANTS
  FeedIsFaithful
PROPERTIES
  CatchesUp
CHECK_DEADLOCK FALSE
