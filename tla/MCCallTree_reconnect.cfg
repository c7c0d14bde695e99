SPECIFICATION Spec
CONSTANTS
  foo = foo
  s1 = s1
  t1 = t1
  Threads = {t1}
  Main = t1
  Senders = {s1}
  Names = {foo}
  NullName = NullName
  Spare = Spare
  Nobody = Nobody
  MaxNodes = 3
  MaxCalls = 1
  MaxPolls = 2
  MaxTime = 1
  MaxDrops = 1
INVARIANTS
  StorableStream
CHECK_DEADLOCK FALSE
