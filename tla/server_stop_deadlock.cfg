\* Stop while a debounce timer's callback reloads.
SPECIFICATION FairServerSpec
CONSTANTS
  f1 = f1
  f2 = f2
  Files = {f1}
  FileList <- OneFile
  MayBeMissing = {}
  Edits = {"write"}
  MaxEdits = 1
  Users = {u1, u2}
  Handlers = {}
  InvalidVersions = {}
  EditsDuringStart = TRUE
  NoProc = NoProc
  MaxReloads = 0
  MaxChecks = 0
PROPERTY StopReturns
CHECK_DEADLOCK FALSE
