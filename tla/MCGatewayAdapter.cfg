CONSTANTS
  p1 = p1
  p2 = p2
  h1 = h1
  c1 = c1
  c2 = c2
  Requests = {p1, p2, h1}
  Polls = {p1, p2}
  Cameras = {c1, c2}
  MaxDisruptions = 2
  Nobody = Nobody
SPECIFICATION FairSpec
INVARIANTS
  RefusalHasACause
PROPERTIES
  SparesTheSession
  EverythingEnds
CHECK_DEADLOCK FALSE
