CONSTANTS
  Worlds <- MCWorlds
  MaxPath = 5
\* A submitted inspection is done with.
CHECK_DEADLOCK FALSE
SPECIFICATION Spec
INVARIANTS
  RulesSeeFinalValues
  SessionAsWhole
  LocationFirst
  RefusalHasAPage
