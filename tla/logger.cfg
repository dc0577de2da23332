CONSTANTS
  Threads = {main, worker}
  MaxRecords = 2
  SyslogCap = 1
SPECIFICATION Spec
INVARIANTS
  TypeOK
  ExactlyOnce
  SameOrder
PROPERTIES
  NoHoles
  MutexFreed
