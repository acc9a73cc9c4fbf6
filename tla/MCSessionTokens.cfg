CONSTANTS
  a1 = a1
  a2 = a2
  b1 = b1
  Calls = {a1, a2, b1}
  Page <- MCPage
  Resets = {"reset"}
  Revocations = {"revoke", "again"}
  MaxPairs = 4
  MaxFaults = 1
  None = None
SPECIFICATION MCSpec
INVARIANTS
  RevocationLasts
  ExchangedOnce
  SignedOutForACause
CHECK_DEADLOCK FALSE
