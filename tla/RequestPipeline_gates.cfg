CONSTANTS
  r1 = r1
  r2 = r2
  r3 = r3
  r4 = r4
  r5 = r5
  a = a
  b = b
  c = c
  Ids <- ThreeIds
  Requests <- FiveRequests
  CacheSize = 2
  MaxPending = 2
  NormalRate = "some"
  GatewayErrors <- TwoErrors
  Delays <- TheDelays
  SlowThreshold = 2000
  CriticalRoutes <- ConfiguredRoutes

SPECIFICATION PipelineSpec
SYMMETRY RequestAndIdSymmetry
CHECK_DEADLOCK FALSE

INVARIANTS
  PendingExact
  RepeatsAreApart
  MetricsAddUp
  EventTellsPayment
  OnlyGoodPaymentsAreSkipped
  ChargesAreTraceable

PROPERTIES
  DropsOnlyWhenFull
