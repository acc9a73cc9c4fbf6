CONSTANTS
  N = 5
  Malformed <- MCMalformed
  BatchSize = 2
  MaxLen = 3
  MaxFaults = 3
SPECIFICATION FairSpec
INVARIANTS
  AckedAreStored
  LossIsBounded
PROPERTIES
  DeliverySpec
  WaitingIsServed
CHECK_DEADLOCK FALSE
