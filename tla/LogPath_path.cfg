CONSTANTS
  r1 = r1
  r2 = r2
  NoJson = NoJson
  NoEvent = NoEvent
  Events <- TwoRequests
  BatchSize = 2
  Messages = 2
  MaxDeliveries = 2
  MqBatchSize = 2

SPECIFICATION PathSpec
SYMMETRY Symmetry

INVARIANTS
  LossesHaveACause
  RepeatsHaveACause
