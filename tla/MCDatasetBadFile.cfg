SPECIFICATION FairSpec
CONSTANTS
  Messages = {1, 2}
  Bodies = {d1}
  NoBody = NoBody
  Procs = {w1, w2}
  NoProc = NoProc
  Queues <- MCQueues
  Keys = {"q", "a"}
  Files <- MCFiles
  NoFile = NoFile
  MaxFaults = 0
  MaxCrashes = 0
  MaxImports = 4
PROPERTY BadFileFailsJob
CHECK_DEADLOCK FALSE
