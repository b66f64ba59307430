SPECIFICATION FairSpec
CONSTANTS
  NoRev = NoRev
  Boot = Boot
  NoActor = NoActor
  Workers = {w1, w2}
  Revs = {r1, r2, r3}
  Kinds = {"update", "setup"}
  MaxDisturbances = 3
INVARIANTS
  TypeOK
  JournalRecoverable
  PreviousPackageKept
PROPERTIES
  ImplementsSwitch
  RestartRecovers
CHECK_DEADLOCK FALSE
