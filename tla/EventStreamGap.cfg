SPECIFICATION FairSpec
CONSTANTS
  m1 = m1
  b1 = b1
  Publishers = {m1, b1}
  Runs = {m1}
  Clients = {c1, c2}
  Commands <- MCCommands
  Count <- MCCount
  DiskFails = FALSE
  MayCancel = FALSE
INVARIANTS
  ReplayThenLive
CHECK_DEADLOCK FALSE
