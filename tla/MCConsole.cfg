\* Two tabs, policies and listeners, and revisions for two saves.
SPECIFICATION FairSpec
CONSTANTS
  Tabs = {t1, t2}
  Policies = {p1, p2}
  Listeners = {admin, public}
  None = None
  MaxRevision = 3
INVARIANTS
  LoginPolicyIsTheSavedOne
  ReportsAreCurrent
  NeverRefusesToStart
PROPERTIES
  NoSilentOverwrite
  DrainEnds
CHECK_DEADLOCK FALSE
