CONSTANTS
  a = a
  b = b
  p = p
  q = q
  Item <- OneItem
  Report = {}
  Mangled = {}
  Reused = {}
  Caller = {"live", "late"}
  Needs <- NoNeedsAlone
  TooLarge = {}
  Malformed = {}
  MaxBatch = 2
  MaxEpoch = 1
SPECIFICATION FairSpec
PROPERTY ResolutionReleases
