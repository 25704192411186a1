CONSTANTS
  PHC = PHC
  Transcryptor = T
  AuthServer = AS
  Keys = {k1, k2}
  Versions = {1, 2}
  None = None
  Gone = Gone
  Configurable = {T}
  MaxConfigs = 1
  Crashable = {PHC, T}
  MaxCrashes = 1
  MaxFaults = 0
  StrangersCall = FALSE
  FirstKey = k1
  ConfigFile <- MCConfigFile
SPECIFICATION FairSpec
ACTION_CONSTRAINT Scenario
PROPERTY Convergence
CHECK_DEADLOCK FALSE
