SPECIFICATION Spec
CONSTANTS
  Messages = {1, 2, 3, 4, 5}
  Bodies = {t1, t2}
  NoBody = NoBody
  Procs = {w1}
  NoProc = NoProc
  Queues <- MCQueues
  EvalMaxRetry = 1
  EvalWorkerPoolSize = 1
  MaxMishaps = 1
SYMMETRY Symmetry
INVARIANTS
  NoLostTask
PROPERTY KeepsTaskLifecycle
CHECK_DEADLOCK FALSE
