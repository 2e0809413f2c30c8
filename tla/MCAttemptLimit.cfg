\* Two starts or one password a window of two seconds, one sign-in at a time, and a
\* clock that can be set back by two seconds in all.
SPECIFICATION Spec
CONSTANTS
  Absent = Absent
  Requests = {r1}
  Kinds = {"start", "login"}
  Capacity <- MCCapacity
  WINDOW = 2
  MAX_PENDING = 1
  CHALLENGE_TTL = 3
  PollGap = 2
  FirstNow = 2
  MaxNow = 5
  MaxBack = 2
  MaxAttempts = 3
INVARIANTS
  RateHolds
  RefusalsAreEarned
PROPERTIES
  PollsAreSpaced
CHECK_DEADLOCK FALSE
