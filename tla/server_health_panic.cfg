\* A health check beside Stop.
SPECIFICATION FairServerSpec
CONSTANTS
  f1 = f1
  f2 = f2
  Files = {f1}
  FileList <- OneFile
  MayBeMissing = {}
  Edits = {"write"}
  MaxEdits = 0
  Users = {u1, u2}
  Handlers = {}
  InvalidVersions = {}
  EditsDuringStart = FALSE
  NoProc = NoProc
  MaxReloads = 0
  MaxChecks = 1
INVARIANT HealthCheckNeverPanics
CHECK_DEADLOCK FALSE
