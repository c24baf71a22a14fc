CONSTANTS
  E = {1, 2}
  Worker = {w1, w2}
  Request = {"r1"}
  SweepLimit = 2
  MaxAttempts = 2
  MayFail = FALSE
  MayRot = TRUE
\* Every item is decided, copied and acknowledged in the end.
CHECK_DEADLOCK FALSE
SPECIFICATION Spec
SYMMETRY Drains
INVARIANTS
  BytesLeaveWhenVerified
  NothingForgotten
  ReviewedIsComplete
PROPERTIES
  DecidedOnce
