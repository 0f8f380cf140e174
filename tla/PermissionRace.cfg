SPECIFICATION FairSpec
CONSTANTS
  u1 = u1  u2 = u2  s1 = s1
  Calls <- MCCalls2
  Sessions <- MCSessions1
  Tools <- MCShell
  Bash = "bash"
  DefaultOf <- MCShellDefault
  HitSets <- MCHits
  TimeoutOn = TRUE
  SaveMayFail = TRUE
  ManualEdits = TRUE
  CancelSessions = TRUE
  MayCrash = TRUE
INVARIANTS
  DenySurvives
  NoGrantWithoutConsent
  PendingExact
PROPERTIES
  CachesFollowReturns
  WaitersSettle
CHECK_DEADLOCK FALSE
