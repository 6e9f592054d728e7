SPECIFICATION Spec
CONSTANTS
  Messages = {1, 2, 3, 4}
  Bodies = {t1}
  NoBody = NoBody
  Procs = {w1, w2}
  NoProc = NoProc
  Queues <- MCQueues
  EvalMaxRetry = 1
  EvalWorkerPoolSize = 1
  MaxMishaps = 2
SYMMETRY Symmetry
INVARIANTS
  TypeOK
  NoLostTask
  NoLeakedDelivery
  OneRunAtATime
  ResultsOnce
  NotifiedAsStored
  FailureIsReported
  FailedOnlyAfterRetries
  AttemptsFollowRetries
PROPERTIES
  VerdictIsFinal
  KeepsTaskLifecycle
CHECK_DEADLOCK FALSE
