\* Two inputs of every kind but one identity, and a malformed one of each, two
\* passwords and two sessions at a time, three refresh tokens, and a session that
\* outlives its access token.
SPECIFICATION Spec
CONSTANTS
  f1 = f1
  f2 = f2
  i1 = i1
  n1 = n1
  n2 = n2
  a1 = a1
  a2 = a2
  Malformed = Malformed
  None = None
  Fids <- MCFids
  Authorities <- MCAuthorities
  Identities <- MCIdentities
  Names <- MCNames
  Documents = {d1, Malformed}
  Secrets = {p1,p2}
  Sids = {s1, s2}
  Jtis = {j1,j2,j3}
  Keys = {k1, k2}
  MAX_PASSWORDS = 2
  MAX_SESSIONS = 2
  ACCESS_SECONDS = 2
  REFRESH_SECONDS = 3
  MaxNow = 3
SYMMETRY Symmetry
INVARIANTS
  AcceptedTokensHaveLivePasswords
  NoReplay
  LifetimeIsAbsolute
  LiveSessionsAreRefreshable
  LimitIsTruthful
PROPERTIES
  BindingIsStable
CHECK_DEADLOCK FALSE
