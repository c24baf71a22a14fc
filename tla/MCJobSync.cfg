CONSTANTS
  Job = {1, 2}
  User = {"u", "v"}
  Limit <- OneRow
  MaxPages = 2
  MaxClock = 3
SPECIFICATION MCSpec
INVARIANTS
  BehindCursor
PROPERTIES
  LearnsAll
  NeverUndone
  LastIsLast
