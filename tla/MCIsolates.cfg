CONSTANTS
  Item = {"a"}
  Report = {}
  Mangled = {}
  Reused = {}
  Caller = {"app", "task"}
  Needs <- NoNeeds
  MaxBatch = 1
  MayFail = TRUE
SPECIFICATION TaskSpec
PROPERTIES
  ImplementsCustody
  StuckIsSent
