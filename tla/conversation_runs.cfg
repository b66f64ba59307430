SPECIFICATION FairSpec
CONSTANTS
  r1 = r1
  r2 = r2
  m1 = m1
  m2 = m2
  Requests = {r1, r2}
  Messages = {m1, m2}
  NoMessage = NoMessage
  MaxAsks = 1
  MaxDisturbances = 1
  MaxRestarts = 1
INVARIANTS MessageExecutedOnce FinishedMeansIdle NoStrandedRun
PROPERTIES RunEnds ApprovalHeard
CHECK_DEADLOCK FALSE
