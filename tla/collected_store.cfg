\* Two nodes collect garbage while a value is written in chunks, deleted and read; their workers end.
SPECIFICATION FairSpec
CONSTANTS
  Window = 2
  MaxStaleness = 1
  Delay = 0
  Quantum = 1
  MaxTime = 5
  Values <- SomeValues
  MaxChunkSize = 2
  Missing = Missing
  Broken = Broken
  WriteModes = {"insertWithTombstones", "deleteAndInsert"}
  MaxWrites = 3
  Nodes = {n1, n2}
  NoNode = NoNode
INVARIANTS TypeOK AcceptedReadable CompletedIsCollected
PROPERTIES UnlockCalled WorkersStop
CHECK_DEADLOCK FALSE
