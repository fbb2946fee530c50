\* A clock that does not move between two readings.
SPECIFICATION Spec
CONSTANTS
  Writers = {w1}
  r1 = r1
  r2 = r2
  d1 = d1
  Rels = {r1}
  Defs = {d1}
  NamespaceOf <- NamespaceOfOne
  Payloads = {p1}
  Absent = Absent
  Untouched = Untouched
  NoWriter = NoWriter
  ClockSteps <- CoarseClock
  NumAttempts = 2
  GCWindow = 2
  Quantum = 2
  MayBeEmpty = TRUE
  MaxCalls = 3
  MaxCloses = 1
INVARIANT RevisionsUnique
CHECK_DEADLOCK FALSE
