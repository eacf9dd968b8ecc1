SPECIFICATION Spec
CONSTANTS
  Routes <- MCRoutes
  Messages <- MCMessages
  Topics <- MCTopics
  DollarWords <- MCDollarWords
  UUIDs <- MCUUIDs
  Known <- MCKnown
  NaN = 99
  Workers = {w1, w2}
  QueueSize = 1
  BatchSize = 2
  MaxDeliveries = 2
  MaxFailures = 1
  MaxRestarts = 1
INVARIANTS
  TypeOK
  LossNeedsCause
  StatsAddUp
  RedeliveryStoresOnce
  SubscriptionMeetsMatcher
PROPERTIES
  KeepsContract
  PointsSettle
  StopCompletes
CHECK_DEADLOCK FALSE
