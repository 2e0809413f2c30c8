SPECIFICATION Spec
CONSTANTS
  Tabs = {t1, t2}
  Policies = {p1, p2}
  Listeners = {admin, public}
  None = None
  MaxRevision = 3
INVARIANTS
  StatusStaysAvailable
CHECK_DEADLOCK FALSE
