SPECIFICATION FairDaemonSpec
CONSTANTS
  run = run
  message = message
  Chats = {run, message}
  AgentRuns = {run}
  MaxStreamRetries = 2
  MaxDeltas <- MCDeltas
INVARIANTS
  AnswerMatchesStream
  AwaitedEndsTraced
  StopLosesNothing
PROPERTIES
  DaemonEnds
CHECK_DEADLOCK FALSE
