SPECIFICATION FairSpec
CONSTANTS
  Workers = {g1, g2}
  MaxSamples = 2
PROPERTY TimeoutEnds
CHECK_DEADLOCK FALSE
