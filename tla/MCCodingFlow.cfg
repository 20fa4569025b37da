SPECIFICATION Spec
CONSTANTS
  Paths = {"src", "infra", "lock"}
  Destructive = {"infra"}
  Denied = {"lock"}
  MaxFiles = 2
  Bytes = {"good", "other", "bad"}
  BadBytes = {"bad"}
  NRuns = 2
  MaxMoves = 1
  MaxFaults = 1
INVARIANTS TypeOK DestructiveIsShown PullIsItsHash OneOpenPull JudgedIsCommitted NoContainerLeft
CHECK_DEADLOCK FALSE
