SPECIFICATION Spec
CONSTANTS
  NoRev = NoRev
  Boot = Boot
  NoActor = NoActor
  Workers = {w1, w2}
  Revs = {r1, r2, r3, r4}
  Kinds = {"install", "update", "setup", "uninstall", "cleanup"}
  MaxDisturbances = 2
INVARIANTS OneCurrentRevision JournalIntact InstalledPackageKept
PROPERTIES UninstallKeepsPackage
SYMMETRY RevisionAndWorkerSymmetry
CHECK_DEADLOCK FALSE
