SPECIFICATION FairSpec
CONSTANTS
  foo = foo
  s1 = s1
  t1 = t1
  t2 = t2
  Threads = {t1, t2}
  Main = t1
  Senders = {s1}
  Names = {foo}
  NullName = NullName
  Spare = Spare
  Nobody = Nobody
  MaxNodes = 2
  MaxCalls = 1
  MaxPolls = 2
  MaxTime = 1
  MaxDrops = 0
PROPERTIES
  HookReturns
  RecordDelivered
CHECK_DEADLOCK FALSE
