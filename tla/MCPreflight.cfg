SPECIFICATION Spec
CONSTANTS
  MAX_ENDPOINTS = 3
  MAX_SHARDS = 3
  MAX_LIMITS = 2
  MAX_EVENTS = 3
  MAX_BLOCK_DELAY_SECS = 2
  SUPPORTED_VERSION = "0.13.5"
  Stores <- MCStores
  Expected = "mainnet"
  TestFids <- AnyFid
  Inputs <- MCInputs
  Delays = {0, 1, 3}
  Replies <- MCReplies
INVARIANTS
  HealthyIsEarned
  DuplicatesAreNamed
  NewestCustodyIsReported
CHECK_DEADLOCK FALSE
