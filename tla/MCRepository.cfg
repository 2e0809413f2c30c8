SPECIFICATION Spec
CONSTANTS
  ByteWidth = 4
  Paths <- MCPaths
  Values <- MCValues
  Digests <- MCDigests
  MAX_RECORDS = 4
  MAX_RECORD_BYTES = 8
  MAX_TOTAL_RECORD_BYTES = 20
  MAX_RECORD_DEPTH = 2
  LINK_BYTES = 2
INVARIANTS
  PutIsJudgedRight
  TreeIsCanonical
  ExportIsExact
CHECK_DEADLOCK FALSE
