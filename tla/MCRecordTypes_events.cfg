SPECIFICATION Spec
CONSTANTS
  Counters = {"time"}
  Events = {"memory"}
  Strangers = {}
  Repeats = FALSE
  Junk = {0, 1}
  MaxWords = 2
  MaxTime = 3
  MaxCalls = 2
  MaxTold = 1
INVARIANT EventsCounted
CHECK_DEADLOCK FALSE
