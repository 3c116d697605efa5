SPECIFICATION Spec
CONSTANTS
  Start <- MCStart
  Saved <- MCSaved
  Edits <- MCEdits
  Sweeps <- MCSweeps
  Searches <- MCSearches
  NoSettings <- MCNoSettings
  Limits <- MCLimits
  MaxSweepSamples = 5
  MaxOps = 3
CHECK_DEADLOCK FALSE
INVARIANTS
  ShownIsTrue
  EditIsWhole
PROPERTIES
  Settles
