SPECIFICATION MCSpec
CONSTANTS
  Connectors = {p1, p2}
  Callers = {c1, c2}
  Senders = {s1}
  MaxFaults = 1
  Users = {u1, u2}
  Sessions = {w1}
  Channels = {h1}
  Agents = {a1}
  AccountCallers = {c1, c2}
  MaxRequests = 4
  MaxAccountFaults = 1
  i1 = i1
  i2 = i2
  i3 = i3
  i4 = i4
  r1 = r1
  r2 = r2
  AgentImages = {i1, i2}
  SystemImages = {i3, i4}
  Revisions = {r1, r2}
  Starters = {t1}
  Grace = 1
  Retention = 1
  MaxTime = 3
  MaxImageFaults = 1
INVARIANTS
  ConnectionsConsistent
  AccountsConsistent
PROPERTIES
  OthersKeepTheirs
  ImagesInUseKept
SYMMETRY ImageSymmetry
CHECK_DEADLOCK FALSE
