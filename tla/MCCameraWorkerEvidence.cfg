CONSTANTS
  v1 = v1
  v2 = v2
  Vehicles = {v1, v2}
  Outcomes <- MCOutcomes
  Observations <- MCObservations
  Formats <- MCFormats
  Confusables <- MCConfusables
  NoPlate = NoPlate
  NoImage = NoImage
  Blank = Blank
  NoRead = NoRead
  MinObservations = 1
  MaxObservations = 1
  Grace = 2
  MinFrames = 2
  SkipAbove = 90
  Margin = 5
  MaxFailures = 2
  Memory = 1
  MaxSessions = 2
SPECIFICATION MCFairSpec
INVARIANTS
  EvidenceShowsItsVehicle
CHECK_DEADLOCK FALSE
