SPECIFICATION Spec
CONSTANTS
  Workers = {g1, g2}
  MaxSamples = 2
INVARIANT SuccessIsComplete
CHECK_DEADLOCK FALSE
