CONSTANTS
  N = 3
  Malformed <- MCMalformed
  BatchSize = 2
  MaxLen = 3
  MaxFaults = 1
SPECIFICATION Spec
INVARIANTS
  RestartDropsNothing
CHECK_DEADLOCK FALSE
