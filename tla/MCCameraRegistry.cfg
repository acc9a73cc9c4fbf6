CONSTANTS
  CamA = CamA
  CamB = CamB
  State = State
  North = North
  Chief = Chief
  Officer = Officer
  Viewer = Viewer
  Cameras = {CamA, CamB}
  Jurisdictions = {State, North}
  Parent <- MCParent
  Match <- MCMatch
  Users = {Chief, Officer, Viewer}
  Managers = {Chief, Officer}
  Granted <- MCGranted
  Requests = {R1}
  MaxEdits = 2
  MaxChanges = 1
  MaxFaults = 1
  None = None
  Geocoded = Geocoded
  ByHand = ByHand
  Scheduler = Scheduler
  Keep = Keep
SPECIFICATION MCFairSpec
INVARIANTS
  RegistryIsReachable
PROPERTIES
  SyncsSpareHandwork
  ListedIsRegistered
