SPECIFICATION FairSpec
CONSTANTS
  m1 = m1
  b1 = b1
  Publishers = {m1, b1}
  Runs = {m1}
  Clients = {c1, c2}
  Commands <- MCCommands
  Count <- MCCount
  DiskFails = TRUE
  MayCancel = TRUE
INVARIANTS
  StreamInOrder
  LiveComplete
  RunRecorded
  SmoothReplayHasNoGap
PROPERTIES
  PublishReturns
CHECK_DEADLOCK FALSE
