SPECIFICATION Spec
CONSTANTS
  Messages = {1, 2, 3}
  Bodies = {t1}
  NoBody = NoBody
  Procs = {w1}
  NoProc = NoProc
  Queues <- MCQueues
  EvalMaxRetry = 1
  EvalWorkerPoolSize = 1
  MaxMishaps = 0
INVARIANT SuccessHasResults
CHECK_DEADLOCK FALSE
