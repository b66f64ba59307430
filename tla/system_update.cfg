SPECIFICATION FairSystem
CONSTANTS
  NoImage = NoImage
  NoJob = NoJob
  v1 = v1
  v2 = v2
  v3 = v3
  j1 = j1
  j2 = j2
  c1 = c1
  p1 = p1
  Images = {v1, v2, v3}
  Healthy <- WorkingImages
  Jobs = {j1}
  Checks = {c1}
  Pollers = {p1}
  Kinds = {"apply", "rollback"}
  Recorded = {v2}
  Patient = FALSE
  MaxFaults = 0
  MaxInterruptions = 0
  MaxDisturbances = 1
PROPERTIES SlotComesFree
CHECK_DEADLOCK FALSE
