CONSTANTS
  e1 = e1
  e2 = e2
  c1 = c1
  c2 = c2
  Item <- MCItem
  Caller = {c1, c2}
  Needs <- MCNeeds
  Report = {}
  Mangled = {e1}
  Reused = {e2}
SPECIFICATION LedgerFairSpec
INVARIANTS
  AppliedOnce
  CommittedMeansApplied
PROPERTIES
  PayloadsKept
  CommittedIsFinal
  DeferredIsTriedAgain
