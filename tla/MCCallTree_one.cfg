SPECIFICATION Spec
CONSTANTS
  foo = foo
  bar = bar
  s1 = s1
  t1 = t1
  Threads = {t1}
  Main = t1
  Senders = {s1}
  Names = {foo, bar}
  NullName = NullName
  Spare = Spare
  Nobody = Nobody
  MaxNodes = 3
  MaxCalls = 2
  MaxPolls = 2
  MaxTime = 2
  MaxDrops = 0
SYMMETRY NameSymmetry
INVARIANTS
  CachedIndexValid
  CursorFollowsStack
  StorableStream
PROPERTIES
  ImplementsStream
CHECK_DEADLOCK FALSE
