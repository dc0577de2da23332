CONSTANTS
  AtMostOnce = {temp}
  AtLeastOnce = {uptime}
  ExactlyOnce = {mem}
  PktId = {1, 2}
  Window = 2
  ChanCap = 2
  CleanSession = FALSE
  MaxBacklog = 2
  Capacity = 2
  MinDelay = 1
  MaxDelay = 2
  Recreate = 0
  SpawnMayFail = FALSE
SPECIFICATION Spec
INVARIANTS
  TruthfulSuccess
  Aligned
  Tracked
  MetricsBounded
  OnlineAnnounced
PROPERTIES
  ExchangeKept
  ImplementsDelivery
