CONSTANTS
  MaxInt = 5
  MaxSeconds = 180
  MaxEdits = 2
  MaxDepth = 5
  MaxTemplate = 5
  Sites <- MCSites
  Edits <- MCEdits
  LoneEdits <- MCLoneEdits
  LoneSites <- MCLoneSites
  Procs <- MCProcs
  Bundles <- MCBundles
SPECIFICATION Spec
CHECK_DEADLOCK FALSE
INVARIANTS
  TypeOK
  KnobsEffective
  AcceptedServes
  LiteralValues
  SecretsGuarded
  Accounted
  IdentityWhole
  PrintedSafely
