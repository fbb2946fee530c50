\* Callers of OptimizedRevision over the revisions of a remote clock.
SPECIFICATION Spec
CONSTANTS
  Window = 4
  MaxStaleness = 2
  Delay = 1
  Quantum = 2
  MaxTime = 7
  Callers = {p1, p2, p3}
  NoCaller = NoCaller
  CallTime = 1
SYMMETRY Symmetric
INVARIANTS TypeOK HandedOutAccepted
CHECK_DEADLOCK FALSE
