CONSTANTS
  Events <- ThreeEvents
  BatchSize = 2
  Messages = 2
  MaxDeliveries = 2
  MqBatchSize = 2

SPECIFICATION BatchSpec

INVARIANTS
  TypeOK
  Conservation
  DeliveriesAreAccountedFor
  DropsFollowABrokenMessage
  BatchIsTimed

PROPERTIES
  DestroyDrains
  GrowsPastBatchOnlyDuringFlush
  ImplementsEventLog
  EventuallySettled
