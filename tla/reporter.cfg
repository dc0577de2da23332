CONSTANTS
  Interval = 5
  ReportOnStart = TRUE
  TickMax = 3
  Retry = 1
  MaxFailures = 3
  Half = 2
  Messages = 2
  Timeout = 2
  MaintainMax = 1
  Late = 1
  Horizon = 16
SPECIFICATION Spec
INVARIANTS
  TypeOK
  Punctual
  FirstReportPrompt
  PetGap
  StopPrompt
PROPERTIES
  NoBurst
