SPECIFICATION FairSpec
CONSTANTS
  Messages = {1, 2, 3}
  Bodies = {t1}
  NoBody = NoBody
  Procs = {w1, w2}
  NoProc = NoProc
  Queues <- MCQueues
  EvalMaxRetry = 1
  EvalWorkerPoolSize = 1
  MaxMishaps = 1
PROPERTY PublishedIsSettled
CHECK_DEADLOCK FALSE
