CONSTANTS
  Rooms = {x1, x2}
  Levels = {0, 50}
  MaxOpens = 1
  MaxPicks = 2
  MaxOthers = 0
  MaxFaults = 0
SPECIFICATION PermsSpec
INVARIANT AppliedImmediately
CHECK_DEADLOCK FALSE
