CONSTANTS
  a1 = a1
  a2 = a2
  t0 = t0
  near = near
  far = far
  Asks <- TwoAsks
  OldTurn = t0
  Logs <- TwoLogs
  Metas <- TheMetas
  Topics = {near, far}
  Similar = {}
  Questions <- TheQuestions
  SearchLimit = 2
  ContextLimit = 1
  RerankLimit = 1
  MaxTurns = 1
  Extractions <- TheExtractions
  Confidences = {9}
  Adjustments = {12}
  MaxTroubles = 1
  EmbeddedFirst <- OneLog

SPECIFICATION SearchSpec
SYMMETRY AskSymmetry
CHECK_DEADLOCK FALSE

INVARIANTS
  CachedTurnsWereSaved
  CacheIsDatabase
  RepeatsNeedOverlap
  SourcesFit
  ContextIsStored
  FailuresAreNoAnswers

PROPERTIES
  ImplementsSession
