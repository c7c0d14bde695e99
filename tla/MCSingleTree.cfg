SPECIFICATION MCSpec
CONSTANTS
  foo = foo
  bar = bar
  Stores = {1, 2}
  ThreadIds = {1}
  Shapes <- ThreeNodes
  MaxRecords = 2
  MaxTime = 2
  MaxQueries = 1
INVARIANTS
  TypeOK
  GlobalTotals
  GlobalSlicesAddUp
  CrashNeedsReason
CHECK_DEADLOCK FALSE
