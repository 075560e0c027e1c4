CONSTANTS
  Group = Group
  Speaker = {"kitchen"}
  DoorSpeaker = {}
  Caller = {"patio", "cat", "parcel"}
  Target <- MCTarget
  Level = {3, 4, 5, 10}
  UserLevel = {3}
  MaxRuns = 2
  SpeakTime <- MCSpeakTime
  FanfareTime = 3
  Doorbell = {}
  MayFail = TRUE
  MayRestart = TRUE
  Patio = "patio"
  DoorTimeout = 3
SPECIFICATION FairPatioSpec
INVARIANTS PatioTypeOK OffIsOwned SaysWhatIs
PROPERTIES OffEnds
