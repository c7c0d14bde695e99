SPECIFICATION Spec
CONSTANTS
  Functions = {f, g}
  Section = Section
  Top = Top
  MaxDepth = 3
  MaxOpen = 2
  MaxPath = 5
INVARIANTS
  PathIsStack
PROPERTIES
  SkippedAreOuter
CHECK_DEADLOCK FALSE
