CONSTANTS
  Group = Group
  Speaker = {"kitchen"}
  DoorSpeaker = {"kitchen"}
  Caller = {"patio", "parcel"}
  Target <- MCTarget
  Level = {3, 4, 5, 10}
  UserLevel = {3}
  MaxRuns = 2
  SpeakTime <- MCSpeakTime
  FanfareTime = 3
  Doorbell = {"greeting", "return"}
  MayFail = TRUE
  MayRestart = TRUE
SPECIFICATION FairSpec
INVARIANTS TypeOK FullOnlyWhileRaised
PROPERTIES CallEnds DoorbellEnds
