SPECIFICATION MCSpec
CONSTANTS
  m1 = m1
  m2 = m2
  m3 = m3
  Users = {u1}
  Messages = {m1, m2, m3}
  Transports <- AllTransports
  MaxAsks = 1
  MaxFaults = 1
  Chats = {c1}
  BridgeMessages = {b1}
  Requests = {q1}
  MaxSockets = 2
  MaxForgets = 1
  MaxBridgeFaults = 2
  Writers = {w1, w2, w3}
  MaxRows = 1
  ReplayLimit = 1
  Capacity = 1
  MaxFetches = 2
  MaxStreamFaults = 1
INVARIANTS
  DispatchedOnce
  RepliesReachTheirCall
  DeliveredAsTold
  PageFollowsJournal
SYMMETRY MessageSymmetry
CHECK_DEADLOCK FALSE
