SPECIFICATION Spec
CONSTANTS
  Openers = {h1}
  Readers = {h2}
  Acceptor = Acceptor
  Receiver = Receiver
  Nobody = Nobody
  MaxAccepts = 1
INVARIANTS
  TypeOK
  LostNeedsOverlap
  StartedWithTarget
  FetchExcludesReaders
PROPERTIES
  
  TargetsServed
CHECK_DEADLOCK FALSE
