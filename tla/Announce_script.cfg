CONSTANTS
  Group = Group
  Speaker = {"kitchen", "sitting"}
  DoorSpeaker = {"kitchen", "sitting"}
  Caller = {"patio", "cat", "parcel"}
  Target <- MCTarget
  Level = {3, 4, 5, 10}
  UserLevel = {3, 10}
  MaxRuns = 2
  SpeakTime <- MCSpeakTime
  FanfareTime = 3
  Doorbell = {}
  MayFail = TRUE
  MayRestart = TRUE
SPECIFICATION Spec
PROPERTIES ScriptSettles
