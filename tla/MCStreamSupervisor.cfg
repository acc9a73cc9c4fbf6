CONSTANTS
  c1 = c1
  c2 = c2
  s1 = s1
  s2 = s2
  Absent = absent
  Nobody = nobody
  Cameras = {c1, c2}
  Sources = {s1, s2}
  MaxExponent = 1
  MaxFaults = 1
  MaxEdits = 2
SPECIFICATION MCFairSpec
INVARIANTS
  MirrorsCatalogue
PROPERTIES
  EveryCameraServed
