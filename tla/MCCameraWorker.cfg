CONSTANTS
  v1 = v1
  v2 = v2
  Vehicles = {v1, v2}
  Outcomes <- MCOutcomes
  Observations <- MCObservations
  Formats <- MCFormats
  Confusables <- MCConfusables
  NoPlate = NoPlate
  NoImage = NoImage
  Blank = Blank
  NoRead = NoRead
  MinObservations = 1
  MaxObservations = 3
  Grace = 2
  MinFrames = 1
  SkipAbove = 90
  Margin = 5
  MaxFailures = 2
  Memory = 1
  MaxSessions = 2
SPECIFICATION MCFairSpec
INVARIANTS
  OneVehiclePerSession
  ExactlyOneEvent
  EventsFollowAnnouncements
  NothingLingers
  FusedPlateIsValid
  MajorityWins
  ConfidenceIsBacked
PROPERTIES
  CorroborationHelps
  LostTrackIsSettled
  StopFinalizes
CHECK_DEADLOCK FALSE
