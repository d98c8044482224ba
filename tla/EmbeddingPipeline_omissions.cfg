CONSTANTS
  b1 = b1
  b2 = b2
  Logs <- FourLogs
  Batches <- TwoBatches
  ChunkSize = 2
  Limits <- SomeLimits

SPECIFICATION Spec

INVARIANTS
  NoOmissions
