CONSTANTS
  MaxInt = 5
  MaxSeconds = 180
  MaxEdits = 1
  MaxDepth = 5
  MaxTemplate = 5
  Sites <- MCSites
  Edits <- MCEdits
  LoneEdits <- MCLoneEdits
  LoneSites <- MCLoneSites
  Procs <- MCProcs
  Bundles <- MCBundles
SPECIFICATION Spec
CHECK_DEADLOCK FALSE
INVARIANT FieldTopics
