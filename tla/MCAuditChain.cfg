CONSTANTS
  r1 = r1
  r2 = r2
  Free = free
  Requests = {r1, r2}
  Ids = {1, 2}
  MaxSetBacks = 1
SPECIFICATION FairSpec
INVARIANTS
  ChainIntact
  AuditMatchesAnswer
  OnlyReuseAndRevokeDeadlock
PROPERTIES
  EveryRequestEnds
