CONSTANTS
  None = None
  Mode <- MCMode
  Sensor = {"door", "hall"}
  ExitTime <- MCExitTime
  EntryTime <- MCEntryTime
  TriggerTime <- MCTriggerTime
  SensorModes <- MCSensorModes
  AlwaysOn = {}
  UseExitDelay = {"door"}
  UseEntryDelay = {"door", "hall"}
  AllowOpen = {"hall"}
  ArmOnClose = {"door"}
  TriggerUnavailable = {}
  Motion = {}
  AutoBypassModes <- MCAutoBypass
  DelayOn <- MCDelayOn
  EntryDelay <- MCEntryDelay
  SensorArmTime = 1
  LongestTriggerTime = 2
  Readings <- MCReadings
  DisarmAfterTrigger = FALSE
  IgnoreBlocking = FALSE
  CodeRequired = TRUE
  MayRestart = FALSE
  SignalsElsewhere = FALSE
  MaxRenewals = 0
  MaxRequests = 1
SPECIFICATION FairSpec
INVARIANTS ModeFitsState
PROPERTIES ReturnsToItsMode NoSilentOpening KeepsContract CountdownsEnd
