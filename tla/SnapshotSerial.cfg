\* Jobs one at a time, as the daily schedule runs them: a refresh and a basket,
\* with a reparse at any time that may fail.
SPECIFICATION Spec
CONSTANTS
  None = None
  Refreshers = {refresh}
  Baskets = {basket}
  Labels <- TwoLabels
  Prices <- ThreePrices
  Readings <- SureReadings
  ModelRead <- SmallOnly
  Overlap = FALSE
  ReparseAlone = FALSE
  ReparseFails = TRUE
  MaxRuns = 3
  MaxDeploys = 0
  MaxCommits = 3
INVARIANTS
  TypeOK
  NoLostObservation
  ConsecutiveChanges
  SnapshotsTellTheTimeline
  EveryMoveRecorded
CHECK_DEADLOCK FALSE
