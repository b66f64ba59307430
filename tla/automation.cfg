SPECIFICATION MCSpec
CONSTANTS
  Events = {e1, e2, e3}
  Notifying = {n1}
  Invoking = {s1}
  Capacity = 1
  EmitLimit = 1
  ChainLimit = 2
  MaxFaults = 1
  Schedules = {a1}
  Pipes = {p1}
  Writers = {w1, w2}
  Periods = {1, 2}
  MaxTime = 2
  KeepFired = 1
  MaxWrites = 2
  Callers = {c1, c2}
  Jobs = {j1, j2}
  Keys = {k1}
  MaxCalls = 4
INVARIANTS
  ChainBounded
  DestinationsKept
PROPERTIES
  EventHandled
  NoRefire
  DueIsHandled
  OutcomeIsFinal
CHECK_DEADLOCK FALSE
