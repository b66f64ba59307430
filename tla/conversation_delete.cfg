SPECIFICATION Spec
CONSTANTS
  r1 = r1
  r2 = r2
  m1 = m1
  m2 = m2
  Requests = {r1, r2}
  Messages = {m1, m2}
  NoMessage = NoMessage
  MaxAsks = 1
  MaxDisturbances = 0
  MaxRestarts = 0
INVARIANTS EngineHasThread
CHECK_DEADLOCK FALSE
