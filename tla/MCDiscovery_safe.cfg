CONSTANTS
  PHC = PHC
  Transcryptor = T
  AuthServer = AS
  Keys = {k1, k2}
  Versions = {1}
  None = None
  Gone = Gone
  Configurable = {PHC, T, AS}
  MaxConfigs = 1
  Crashable = {PHC, T, AS}
  MaxCrashes = 1
  MaxFaults = 1
  StrangersCall = TRUE
  FirstKey = k1
  ConfigFile <- MCConfigFile
SPECIFICATION Spec
ACTION_CONSTRAINT OneDisturbance
INVARIANTS TypeOK SecretsAgree AdoptedFits MasterKeyCommitted UnsealSucceeds
PROPERTY NoNeedlessRepublish
CHECK_DEADLOCK FALSE
