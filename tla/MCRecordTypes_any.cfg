SPECIFICATION Spec
CONSTANTS
  Counters = {"time", "cpu"}
  Events = {"memory"}
  Strangers = {"tiem"}
  Repeats = FALSE
  Junk = {0, 1}
  MaxWords = 3
  MaxTime = 3
  MaxCalls = 2
  MaxTold = 1
INVARIANTS TypeOK FlagsMatchLayout LoneCounterMeasures
CHECK_DEADLOCK FALSE
