CONSTANTS
  Agent = {a, b}
  MaxVisit = 2
  MaxMoves = 4
  MaxEvents = 4
  MaxHeld = 1
SPECIFICATION Spec
SYMMETRY Agents
INVARIANTS
  OfOneMind
  WorkIsKept
PROPERTIES
  OnlyItsAgent
  StaysSealed
  SeenByTheBank
CHECK_DEADLOCK FALSE
