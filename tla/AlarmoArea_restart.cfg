CONSTANTS
  None = None
  Mode <- MCMode
  Sensor = {"door", "hall", "smoke"}
  ExitTime <- MCExitTime
  EntryTime <- MCEntryTime
  TriggerTime <- MCTriggerTime
  SensorModes <- MCSensorModes
  AlwaysOn = {"smoke"}
  UseExitDelay = {"door"}
  UseEntryDelay = {"door", "hall"}
  AllowOpen = {}
  ArmOnClose = {"door"}
  TriggerUnavailable = {"smoke"}
  Motion = {"hall"}
  AutoBypassModes <- MCHallBypass
  DelayOn <- MCDelayOn
  EntryDelay <- MCEntryDelay
  SensorArmTime = 1
  LongestTriggerTime = 2
  Readings <- MCReadingsMixed
  DisarmAfterTrigger = FALSE
  IgnoreBlocking = TRUE
  CodeRequired = FALSE
  MayRestart = TRUE
  SignalsElsewhere = FALSE
  MaxRenewals = 1
  MaxRequests = 2
SPECIFICATION Spec
INVARIANTS TypeOK TimerFitsState
PROPERTIES EntryNeverExtended DisarmedStaysQuiet NoSilentOpening
