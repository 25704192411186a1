CONSTANTS
  History <- MCHistory
  Own <- MCOwn
  Early = 6
  InListWindow = TRUE
  Targets <- MCTargets
  InitialLimit = 1
  Batch = 2
  Window = 3
  MaxIterations = 2
  SyncLimit = 2
  MaxJumps = 1
  MaxFaults = 1
SPECIFICATION FairSpec
CHECK_DEADLOCK FALSE
INVARIANTS TypeOK EditsShown
PROPERTIES ModerationKept 
