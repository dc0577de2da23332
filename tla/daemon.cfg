CONSTANTS
  QueueCap = 2
  MaxOutages = 1
  MaxPatience = 2
  MaxStarts = 2
SPECIFICATION FairSpec
INVARIANTS
  TypeOK
  ToldTruth
  Ordered
  AnnouncedStop
  ExitTruth
PROPERTIES
  EndsOnSignal
  OnceEnds
