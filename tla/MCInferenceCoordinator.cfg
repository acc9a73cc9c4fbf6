CONSTANTS
  CamA = CamA
  CamB = CamB
  Cameras = {CamA, CamB}
  MaxSessions = 2
  MaxEdits = 2
  MaxFaults = 1
  NoThread = NoThread
SPECIFICATION MCFairSpec
INVARIANTS
  AloneUnlessAbandoned
  SessionsPublishedOnce
PROPERTIES
  ListedIsWatched
CHECK_DEADLOCK FALSE
