SPECIFICATION MCSpec
CONSTANTS
  t1 = t1
  t2 = t2
  Turns = {t1, t2}
  Budget = 4
  HistoryLimit = 3
  MaxIterations = 1
  MaxAnswers = 1
  MaxCalls = 2
  MaxFaults = 1
  Texts = {x1, x2}
  Facts = {f1, f2, f3}
  Interval = 2
  MinSignals = 2
  MaxActive = 1
  MinFacts = 2
  MaxInsights = 1
  MaxSignals = 2
  MaxEdits = 3
  Tools = {d1}
  Builtin = d0
  Recommended <- AllAsk
  PolicyChoices = {"block"}
  Tasks = {t1, t2}
  MaxChoices = 1
INVARIANTS
  PairsIntact
  LoopBounded
  TrustEarned
  PoliciesFollowTools
SYMMETRY TurnSymmetry
CHECK_DEADLOCK FALSE
