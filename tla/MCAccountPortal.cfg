\* One password name, two departures from the page or account, and enough versions
\* of the list for a creation, a revocation and two crossing reads.
SPECIFICATION FairSpec
CONSTANTS
  Names = {"n"}
  MaxGeneration = 3
  MaxStamp = 3
  MaxVersion = 4
INVARIANTS
  LateAnswersRevealNothing
PROPERTIES
  ListNeverGoesBack
  SignInEnds
CHECK_DEADLOCK FALSE
