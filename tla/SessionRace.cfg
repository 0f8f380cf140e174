SPECIFICATION FairSpec
CONSTANTS
  s1 = s1  r1 = r1  r2 = r2  r3 = r3  r4 = r4  nobody = nobody
  Sessions <- MCOneSession
  Requests <- MCFourRequests
  Nobody <- nobody
  MaxUsages = 1
  Faults = TRUE
  MayCrash = TRUE
INVARIANTS
  LockDiscipline
  OneShotRunsOnce
  MetaCurrent
PROPERTIES
  SerialTurns
  LockReleased
CHECK_DEADLOCK FALSE
