\* Start, Stop, edits of two files, hot reloads, a reload by hand and a health check.
SPECIFICATION FairServerSpec
CONSTANTS
  f1 = f1
  f2 = f2
  Files = {f1, f2}
  FileList <- TwoFiles
  MayBeMissing = {f2}
  Edits = {"write"}
  MaxEdits = 2
  Users = {u1}
  Handlers = {h1}
  InvalidVersions = {2}
  EditsDuringStart = FALSE
  NoProc = NoProc
  MaxReloads = 1
  MaxChecks = 1
INVARIANTS ServerTypeOK QuietAfterStop OrderlyShutdown
PROPERTIES ReturnsUnlessCycle HotReload
CHECK_DEADLOCK FALSE
