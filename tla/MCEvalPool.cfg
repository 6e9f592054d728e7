SPECIFICATION FairSpec
CONSTANTS
  Workers = {g1, g2, g3}
  MaxSamples = 4
INVARIANTS
  TypeOK
  EachSampleOnce
  ClosedAfterWorkers
  CompleteInTime
  DeadlockOnlyAbandoned
PROPERTIES
  ReturnsUnlessAbandoned
  KeepsRunOutcome
  NothingIsRepeated
CHECK_DEADLOCK FALSE
