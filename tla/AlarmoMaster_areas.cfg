CONSTANTS
  None = None
  Mode = {"away", "home"}
  ExitDelay = {"away"}
  Order <- MCOrder
  MaxInbox = 1
SPECIFICATION Spec
INVARIANTS TypeOK MasterShowsAreas AreaModesFit
PROPERTIES AlarmKept
