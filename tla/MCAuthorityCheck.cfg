\* Two blocks, perhaps of two forks, after the first; two challenges in turn.
SPECIFICATION Spec
CONSTANTS
  w = w
  k = k
  fid = fid
  None = None
  Addresses = {w, k}
  Fids = {fid}
  Hashes = {h1, h2, h3}
  Genesis <- MCGenesis
  BlockStates <- MCBlockStates
  Messages <- MCMessages
  MAX_CHALLENGE_SECONDS = 2
  CLOCK_SKEW_SECONDS = 0
  MAX_FINALIZED_AGE_SECONDS = 1
  CHALLENGE_TTL = 1
  MaxNow = 1
  MaxNonce = 2
SYMMETRY Symmetry
INVARIANTS
  EvidenceIsRecheckable
  ConsentIsFresh
PROPERTIES
  ImplementsVerdict
CHECK_DEADLOCK FALSE
