\* A transaction body that never uses rwt lets another writer wait under mdb.Lock.
SPECIFICATION Spec
CONSTANTS
  Writers = {w1, w2, w3}
  r1 = r1
  r2 = r2
  d1 = d1
  Rels = {r1}
  Defs = {d1}
  NamespaceOf <- NamespaceOfOne
  Payloads = {p1}
  Absent = Absent
  Untouched = Untouched
  NoWriter = NoWriter
  ClockSteps <- FineClock
  NumAttempts = 2
  GCWindow = 2
  Quantum = 2
  MayBeEmpty = TRUE
  MaxCalls = 3
  MaxCloses = 1
INVARIANT NeverWaitsUnderLock
