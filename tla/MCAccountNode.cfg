\* Two sign-ins at a time by two signers of one FID, two service identities, a
\* block to gain or lose authority in, and a clock that separates live from expired.
SPECIFICATION UsedSpec
CONSTANTS
  x = x
  y = y
  f1 = f1
  None = None
  Requests = {r1, r2}
  Names = {n1}
  Signers = {x, y}
  FidOf <- MCFidOf
  Custodies = {c1}
  Identities = {i1, i2}
  MAX_PENDING = 2
  CHALLENGE_TTL = 1
  GRANT_TTL = 1
  AUTHORITY_CACHE = 1
  MaxNow = 1
  MaxBlock = 2
INVARIANTS
  CredentialsHaveEvidence
  CacheSpeaksForAccount
  BindingMatchesSettings
PROPERTIES
  NoFalseRevocation
  ProofIsRetained
  LossIsNoticed
CHECK_DEADLOCK FALSE
