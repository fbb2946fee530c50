\* Two writers that all use their transaction, and Close: conflicts, retries, commits.
SPECIFICATION FairSpec
CONSTANTS
  Writers = {w1, w2}
  r1 = r1
  r2 = r2
  d1 = d1
  Rels = {}
  Defs = {d1}
  NamespaceOf <- NamespaceOfNone
  Payloads = {p1, p2}
  Absent = Absent
  Untouched = Untouched
  NoWriter = NoWriter
  ClockSteps <- FineClock
  NumAttempts = 2
  GCWindow = 2
  Quantum = 2
  MayBeEmpty = FALSE
  MaxCalls = 3
  MaxCloses = 1
INVARIANTS TypeOK NoLostUpdate SnapshotsInCommitOrder NeverWaitsUnderLock CallsNeverPanic
PROPERTIES Serializable CallsReturn
CHECK_DEADLOCK FALSE
