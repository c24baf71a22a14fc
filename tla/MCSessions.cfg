CONSTANTS
  Worlds <- MCWorlds
  MaxSession <- MCMaxSession
\* The ids run out: the model stops where the server would go on.
CHECK_DEADLOCK FALSE
SPECIFICATION FairSpec
INVARIANTS
  OneLiveToken
  NoSelfReuse
PROPERTIES
  SignOutSticks
  StaleIsNoticed
  SignOutLands
