SPECIFICATION Spec
CONSTANTS
  Fields = {"time", "start", "event"}
  Accumulated = {"time"}
  Static = {"start"}
  Payloads <- TwoPayloads
  MaxNode = 3
  MaxTime = 3
INVARIANTS TypeOK TotalsRight NothingLeftDirty DiffIsTheChange DiffIsUpToDate MarkedOnPath OnlyRootUncovered
PROPERTY SlicesAreFinal
CHECK_DEADLOCK FALSE
