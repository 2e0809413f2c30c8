SPECIFICATION Spec
CONSTANTS
  Processes = {p1, p2, p3}
  Values = {v1, v2}
  None = None
  Malformed = Malformed
  MaxRevision = 3
  MaxSerial = 4
SYMMETRY Symmetry
INVARIANTS
  ReadableAfterPowerFailure
  AckedSurvives
PROPERTIES
  OnlyCheckedSavesReplace
CHECK_DEADLOCK FALSE
