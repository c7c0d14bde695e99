SPECIFICATION Spec
CONSTANTS
  Threads = {t1, t2}
  Names = {n1, n2, n3}
  Asking = Asking
  Junk = Junk
  Told = Told
  NameCap = 1
  RequestCap = 4
  MaxAddresses = 2
  MaxCalls = 3
  MaxPolls = 2
INVARIANTS TypeOK NothingLost NamesRight NodesNamed CrashNeedsBreak AbortNeedsFlood
PROPERTY ExchangeEnds
CHECK_DEADLOCK FALSE
