SPECIFICATION FairSpec
CONSTANTS
  NoImage = NoImage
  NoJob = NoJob
  v1 = v1
  v2 = v2
  v3 = v3
  j1 = j1
  j2 = j2
  Images = {v1, v2, v3}
  Healthy <- WorkingImages
  Jobs = {j1, j2}
  Kinds = {"apply", "rollback"}
  Patient = TRUE
  MaxFaults = 2
  MaxInterruptions = 1
INVARIANTS OneJobAtATime ServiceConsistent
PROPERTIES ReportedOutcome JobEnds
CHECK_DEADLOCK FALSE
