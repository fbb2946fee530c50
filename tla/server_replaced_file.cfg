\* A schema file that an editor saves by renaming a new file over it.
SPECIFICATION FairServerSpec
CONSTANTS
  f1 = f1
  f2 = f2
  Files = {f1}
  FileList <- OneFile
  MayBeMissing = {}
  Edits = {"replace"}
  MaxEdits = 1
  Users = {u1, u2}
  Handlers = {}
  InvalidVersions = {}
  EditsDuringStart = FALSE
  NoProc = NoProc
  MaxReloads = 0
  MaxChecks = 0
PROPERTY HotReload
CHECK_DEADLOCK FALSE
