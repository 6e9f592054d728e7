SPECIFICATION FairSpec
CONSTANTS
  Messages = {1, 2}
  Bodies = {d1, d2}
  NoBody = NoBody
  Procs = {w1, w2}
  NoProc = NoProc
  Queues <- MCQueues
  Keys = {"q", "a"}
  Files <- MCFiles
  NoFile = NoFile
  MaxFaults = 1
  MaxCrashes = 1
  MaxImports = 4
INVARIANTS
  TypeOK
  NoLostJob
  OnlyValidated
  ImportedOnce
PROPERTIES
  GoodFileIsImported
  KeepsTaskLifecycle
CHECK_DEADLOCK FALSE
