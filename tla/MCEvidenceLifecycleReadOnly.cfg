CONSTANTS
  R1 = R1
  R2 = R2
  R3 = R3
  V1 = V1
  A = A
  B = B
  C = C
  D = D
  K1 = K1
  K2 = K2
  PlateEvents = {R1, R2, R3}
  VehicleEvents = {V1}
  Names = {A, B, C, D}
  NamesOf <- MCNamesOf
  ArcOf <- MCArcOf
  ReadOnly = TRUE
  Cleaners = {K1, K2}
  Exports = {X1}
  MaxFaults = 0
SPECIFICATION MCSpec
SYMMETRY MCSymmetry
INVARIANTS
  NothingLeftBehind
CHECK_DEADLOCK FALSE
