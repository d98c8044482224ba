CONSTANTS
  e1 = e1
  e2 = e2
  e3 = e3
  Events <- ThreeEvents
  BatchSize = 2

SPECIFICATION SafeSpec

INVARIANTS
  FlushedOnDestroy
