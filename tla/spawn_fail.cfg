CONSTANTS
  AtMostOnce = {}
  AtLeastOnce = {uptime}
  ExactlyOnce = {}
  PktId = {1, 2}
  Window = 1
  ChanCap = 2
  CleanSession = TRUE
  MaxBacklog = 0
  Capacity = 2
  MinDelay = 1
  MaxDelay = 3
  Recreate = 2
  SpawnMayFail = TRUE
SPECIFICATION LiveSpec
PROPERTIES
  Recovers
