CONSTANTS
  a = a
  b = b
  p = p
  q = q
  Item <- Refused
  Report = {p, q}
  Mangled = {}
  Reused = {p}
  Caller = {"live", "late"}
  Needs <- NoNeeds
  TooLarge = {b}
  Malformed = {a}
  MaxBatch = 2
  MaxEpoch = 1
SPECIFICATION QuietSpec
INVARIANTS
  TypeOK
  InFlightIsBeingSent
  ParkedIsReported
PROPERTIES
  ImplementsCustody
  ParkedBecomesKnown
