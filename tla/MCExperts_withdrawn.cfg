SPECIFICATION ExpertsSpec
CONSTANTS
  Users = {me, other}
  Me = me
  PageSize = 2
  MaxEvents = 4
  MaxTexts = 1
  MaxChanges = 0
  MaxOpens = 0
  MaxFails = 0
INVARIANT WithdrawnIsGone
CHECK_DEADLOCK FALSE
