SPECIFICATION Spec
CONSTANTS
  Scenarios <- MCScenarios
  MaxSweepSamples = 5
CHECK_DEADLOCK FALSE
INVARIANTS
  WellFormed
  WingRebuilds
  BoundsAreTrue
  VerdictIsEarned
  TotalsAreWhole
  SearchIntervals
  AcceptedIsCurrent
  PreviewIsExact
