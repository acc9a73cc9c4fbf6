CONSTANTS
  c1 = c1
  c2 = c2
  s1 = s1
  s2 = s2
  Absent = absent
  Nobody = nobody
  Cameras = {c1}
  Sources = {s1}
  MaxExponent = 1023
  MaxFaults = 0
  MaxEdits = 0
SPECIFICATION Spec
INVARIANTS
  SupervisionGoesOn
