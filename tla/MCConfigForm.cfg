\* Two changes of the settings, a reconnection, a restart, an operator action, and
\* two calls under way at a time, those of a former connection included.
SPECIFICATION Spec
CONSTANTS
  None = None
  MaxRevision = 3
  MaxInstance = 2
  MaxGeneration = 3
  MaxSaves = 1
  MaxDraft = 2
  MaxRuns = 1
  MaxCalls = 2
CONSTRAINT FewCalls
INVARIANTS
  NoFalseAlarm
PROPERTIES
  EditsSurvive
  SavesReplaceTheirBase
CHECK_DEADLOCK FALSE
