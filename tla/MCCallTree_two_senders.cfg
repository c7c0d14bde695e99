SPECIFICATION Spec
CONSTANTS
  foo = foo
  s1 = s1
  s2 = s2
  t1 = t1
  Threads = {t1}
  Main = t1
  Senders = {s1, s2}
  Names = {foo}
  NullName = NullName
  Spare = Spare
  Nobody = Nobody
  MaxNodes = 2
  MaxCalls = 1
  MaxPolls = 2
  MaxTime = 1
  MaxDrops = 0
INVARIANTS
  SendBufferPrivate
CHECK_DEADLOCK FALSE
