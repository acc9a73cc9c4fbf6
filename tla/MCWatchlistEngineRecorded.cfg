CONSTANTS
  w1 = w1
  cam1 = cam1
  cam2 = cam2
  c1 = c1
  c2 = c2
  Entries = {w1}
  Cameras = {cam1, cam2}
  Kinds <- MCKinds
  Consoles = {c1}
  Scope <- MCScope
  Window = 1
  BatchSize = 2
  N = 2
  MaxNow = 1
  MaxFaults = 1
SPECIFICATION Spec
INVARIANTS
  AnnouncedIsRecorded
CHECK_DEADLOCK FALSE
