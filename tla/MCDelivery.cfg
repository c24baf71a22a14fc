CONSTANTS
  a = a
  b = b
  p = p
  q = q
  Item <- OneItem
  Report = {}
  Mangled = {}
  Reused = {}
  Caller = {"live", "late"}
  Needs <- NoNeedsAlone
  TooLarge = {}
  Malformed = {}
  MaxBatch = 1
  MaxEpoch = 2
SPECIFICATION FairSpec
INVARIANTS
  HeldBeforeLetGo
  AgreesWithServer
PROPERTIES
  Delivered
  OutcomeReachesDevice
