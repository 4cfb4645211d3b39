\* Two refreshes at once (a manual start or a rerun beside the scheduled one), three
\* labels, unknown readings, parser updates, and reparse while no job runs.
SPECIFICATION Spec
CONSTANTS
  None = None
  Refreshers = {r1, r2}
  Baskets = {}
  Labels <- ThreeLabels
  Prices <- OnePrice
  Readings <- MixedReadings
  ModelRead <- SmallOnly
  Overlap = TRUE
  ReparseAlone = TRUE
  ReparseFails = FALSE
  MaxRuns = 4
  MaxDeploys = 2
  MaxCommits = 3
INVARIANTS
  LatestStable
  NoLostObservation
  EvidenceAgrees
CHECK_DEADLOCK FALSE
