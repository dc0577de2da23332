CONSTANTS
  AtMostOnce = {temp}
  AtLeastOnce = {uptime}
  ExactlyOnce = {mem}
  PktId = {1, 2}
  Window = 2
  ChanCap = 2
  CleanSession = TRUE
  MaxBacklog = 0
  Capacity = 2
  MinDelay = 1
  MaxDelay = 2
  Recreate = 1
  SpawnMayFail = TRUE
SPECIFICATION Spec
INVARIANTS
  TypeOK
  NothingHeldOffline
  OutstandingBounded
PROPERTIES
  ImplementsDelivery
