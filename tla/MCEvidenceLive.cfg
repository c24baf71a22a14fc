CONSTANTS
  E = {1}
  Worker = {"w1"}
  Request = {"r1"}
  SweepLimit = 2
  MaxAttempts = 2
  MayFail = TRUE
  MayRot = TRUE
\* Every item is decided, copied and acknowledged in the end.
CHECK_DEADLOCK FALSE
SPECIFICATION FairSpec
INVARIANTS
  CompleteIsReviewed
PROPERTIES
  InspectionDecided
