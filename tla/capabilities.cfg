SPECIFICATION MCSpec
CONSTANTS
  c1 = c1
  c2 = c2
  k1 = k1
  k2 = k2
  Callers = {c1, c2}
  Sessions = {s1}
  SharedCaps = {b1}
  PrivateCaps = {p1}
  Containers = {k1, k2}
  MaxConcurrent = 1
  MaxSemaphores = 2
  MaxFaults = 1
  NetworkCallers = {c1, c2}
  Hosts = {h1}
  LogCapacity = 1
  MaxChanges = 1
  Threads = {t1}
  Agents = {a1, a2}
  Turns = {c1, c2}
  SessionIds = {k1, k2}
  VolumeCaps = {v1}
INVARIANTS
  
  UserDecides
  SessionsKept
SYMMETRY Symmetry
CHECK_DEADLOCK FALSE
