\* One writer, whose calls do not overlap, a clock that advances, and a watcher with a channel of one.
SPECIFICATION FairWatchSpec
CONSTANTS
  Writers = {w1}
  r1 = r1
  d1 = d1
  Rels = {r1}
  Defs = {d1}
  NamespaceOf <- NamespaceOfOne
  Payloads = {p1}
  Absent = Absent
  Untouched = Untouched
  NoWriter = NoWriter
  ClockSteps <- FineClock
  NumAttempts = 1
  GCWindow = 2
  Quantum = 2
  MayBeEmpty = TRUE
  MaxCalls = 2
  MaxCloses = 1
  Watchers = {a1}
  BufferLength = 1
  Content <- RelationshipsAndCheckpoints
INVARIANTS WatchTypeOK StreamExact CheckpointFinal ReadsOwnCommit OptimizedSeesCommits ChangelogComplete
PROPERTY WatcherCatchesUp
CHECK_DEADLOCK FALSE
