SPECIFICATION Spec
CONSTANTS
  foo = foo
  s1 = s1
  t1 = t1
  t2 = t2
  Threads = {t1, t2}
  Main = t1
  Senders = {s1}
  Names = {foo}
  NullName = NullName
  Spare = Spare
  Nobody = Nobody
  MaxNodes = 2
  MaxCalls = 1
  MaxPolls = 2
  MaxTime = 2
  MaxDrops = 1
INVARIANTS
  TypeOK
  ReportedOnce
  SendBufferPrivate
  FrontsDistinct
CHECK_DEADLOCK FALSE
